--------------------------- MODULE EmitterMeaning ---------------------------
(***************************************************************************)
(* What the emitted blocks do, what the source means, and what the         *)
(* analyzer has checked: the reference for Emitter.                        *)
(*                                                                         *)
(* A run is the sequence of what can be observed: uses of values, tests    *)
(* with their outcome, and the return; runs are cut behind Bound events.   *)
(* Every outcome of a test is possible, but the literal true holds.        *)
(***************************************************************************)
EXTENDS Emitter

CONSTANTS Bound

Event(k, v, w, o) == <<k, v, w, o>>
Outcomes(v) == IF v = "true" THEN {"yes"} ELSE {"yes", "no"}
Run(ev, end, v) == IF Len(ev) >= Bound THEN [ev |-> SubSeq(ev, 1, Bound), end |-> "cut", v |-> ""]
                   ELSE [ev |-> ev, end |-> end, v |-> v]
Go(v) == Run(<<>>, "go", v)
After(r, rs) == IF r.end = "go" THEN {Run(r.ev \o q.ev, q.end, q.v) : q \in rs} ELSE {r}
Does(e, end) == Run(<<e>>, end, "")

-----------------------------------------------------------------------------
(* The source. *)

RECURSIVE Expr(_), Stmt(_), Stmts(_, _), Choice(_, _), Comparison(_, _, _, _), While(_, _), For(_, _),
          Elements(_, _)

(* The statements of a clause from the i-th on, then its last expression.   *)
Stmts(c, i) ==
    IF i <= Len(c.stmts) THEN LET rest == Stmts(c, i + 1) IN
                              UNION {After(r, rest) : r \in Stmt(c.stmts[i])}
    ELSE IF c.last = <<>> THEN {Go("")} ELSE Expr(c.last[1])

(* if from the i-th clause on; `unless' inverts its first condition.        *)
Choice(n, i) ==
    IF i > Len(n.clauses) THEN {Go("")}
    ELSE IF n.clauses[i].when = <<>> THEN Stmts(n.clauses[i], 1)
    ELSE LET taken == IF n.name = "unless" /\ i = 1 THEN "no" ELSE "yes" IN
         UNION {After(r, UNION {After(Does(Event("test", r.v, "", o), "go"),
                                      IF o = taken THEN Stmts(n.clauses[i], 1) ELSE Choice(n, i + 1))
                                : o \in Outcomes(r.v)})
                : r \in Expr(n.clauses[i].when[1])}

(* case of the value v from the j-th comparison of the i-th clause on.      *)
Comparison(n, v, i, j) ==
    IF i > Len(n.clauses) THEN {Go("")}
    ELSE IF n.clauses[i].when = <<>> THEN Stmts(n.clauses[i], 1)
    ELSE IF j > Len(n.clauses[i].when) THEN Comparison(n, v, i + 1, 1)
    ELSE UNION {After(r, UNION {After(Does(Event("test", v, r.v, o), "go"),
                                      IF o = "yes" THEN Stmts(n.clauses[i], 1) ELSE Comparison(n, v, i, j + 1))
                                : o \in {"yes", "no"}})
                : r \in Expr(n.clauses[i].when[j])}

(* Loops, with at most k more rounds; every round has its test.             *)
While(n, k) ==
    IF k = 0 THEN {[ev |-> <<>>, end |-> "cut", v |-> ""]}
    ELSE UNION {After(r, UNION {After(Does(Event("test", r.v, "", o), "go"),
                                      IF o = "no" THEN {Go("")}
                                      ELSE UNION {After(b, While(n, k - 1)) : b \in Stmts(n.clauses[1], 1)})
                                : o \in Outcomes(r.v)})
                : r \in Expr(n.clauses[1].when[1])}
For(n, k) ==
    IF k = 0 THEN {[ev |-> <<>>, end |-> "cut", v |-> ""]}
    ELSE UNION {After(Does(Event("test", n.name, "", o), "go"),
                      IF o = "no" THEN {Go("")}
                      ELSE UNION {After(b, For(n, k - 1)) : b \in Stmts(n.clauses[1], 1)})
                : o \in {"yes", "no"}}
Elements(n, i) ==
    IF i > Len(n.clauses) THEN {Go("")}
    ELSE UNION {After(b, Elements(n, i + 1)) : b \in Stmts(n.clauses[i], 1)}

Expr(n) ==
    CASE n.k = "atom" -> {Go(n.name)}
      [] n.k = "block_expr" -> Stmts(n.clauses[1], 1)
      [] n.k = "if_expr" -> Choice(n, 1)
      [] n.k = "switch_expr" -> UNION {After(r, Comparison(n, r.v, 1, 1)) : r \in Expr(n.exprs[1])}

Stmt(n) ==
    CASE n.k = "use" -> UNION {After(r, {Does(Event("use", r.v, "", ""), "go")}) : r \in Expr(n.exprs[1])}
      [] n.k = "return_stmt" -> UNION {After(r, {Does(Event("ret", r.v, "", ""), "ret")}) : r \in Expr(n.exprs[1])}
      [] n.k = "statement_block" -> Stmts(n.clauses[1], 1)
      [] n.k \in {"if_stmt", "postfix_if"} -> Choice(n, 1)
      [] n.k = "switch_stmt" -> UNION {After(r, Comparison(n, r.v, 1, 1)) : r \in Expr(n.exprs[1])}
      [] n.k = "while_stmt" -> While(n, Bound)
      [] n.k = "for_stmt" -> UNION {After(r, For(n, Bound)) : r \in Expr(n.exprs[1])}
      [] n.k = "tuple_for" -> UNION {After(r, Elements(n, 1)) : r \in Expr(n.exprs[1])}

Ended(rs) == {[ev |-> r.ev, end |-> r.end] : r \in rs}
Meaning ==
    Ended(UNION {After(r, IF program.unit THEN {Does(Event("ret", "unit", "", ""), "ret")}
                          ELSE {Run(<<>>, "unreachable", "")}) : r \in Stmts(program.body.clauses[1], 1)})

-----------------------------------------------------------------------------
(* The emitted function. *)

NameOf(v, env) == IF v.phi = 0 THEN v.name ELSE env[v.phi]
RECURSIVE Exec(_, _, _, _, _)
(* From the i-th instruction of block b, which was entered from `came', with *)
(* the values env of the phis and the events ev so far.                      *)
Exec(b, i, came, env, ev) ==
    IF Len(ev) >= Bound THEN {Run(ev, "cut", "")}
    ELSE IF i > Len(blocks[b].code) THEN {Run(ev, "lost", "")}
    ELSE LET ins == blocks[b].code[i]
             v == NameOf(ins.v, env) IN
      CASE ins.k = "phi" ->
             LET in == {x \in ToSet(ins.from) : x.from = came} IN
             IF in = {} THEN {Run(ev, "lost", "")}
             ELSE Exec(b, i + 1, came, [env EXCEPT ![b] = NameOf((CHOOSE x \in in : TRUE).v, env)], ev)
        [] ins.k = "pass" -> Exec(b, i + 1, came, env, ev)
        [] ins.k = "use" -> Exec(b, i + 1, came, env, Append(ev, Event("use", v, "", "")))
        [] ins.k = "br" -> Exec(ins.to[1], 1, b, env, ev)
        [] ins.k = "condbr" ->
             LET w == IF ins.w = NoValue THEN "" ELSE NameOf(ins.w, env) IN
             UNION {Exec(ins.to[IF o = "yes" THEN 1 ELSE 2], 1, b, env, Append(ev, Event("test", v, w, o)))
                    : o \in IF w = "" THEN Outcomes(v) ELSE {"yes", "no"}}
        [] ins.k = "ret" -> {Run(Append(ev, Event("ret", v, "", "")), "ret", "")}
        [] ins.k = "unreachable" -> {Run(ev, "unreachable", "")}
Behaviour == Ended(Exec(1, 1, 0, [b \in DOMAIN blocks |-> ""], <<>>))

-----------------------------------------------------------------------------
(* unterminated_block_checker of the analyzer. *)

RECURSIVE check_terminated(_)
TerminatedClause(c) == \E i \in DOMAIN c.stmts : check_terminated(c.stmts[i])
check_without_else(n) ==    \* mutant: an `if' without else is looked at like one with else
    CASE n.k = "return_stmt" -> TRUE
      [] n.k \in {"statement_block", "func"} -> TerminatedClause(n.clauses[1])
      [] n.k \in {"if_stmt", "switch_stmt"} -> \A i \in DOMAIN n.clauses : TerminatedClause(n.clauses[i])
      [] OTHER -> FALSE
check_terminated(n) ==
    CASE n.k = "return_stmt" -> TRUE
      [] n.k \in {"statement_block", "func"} -> TerminatedClause(n.clauses[1])
      [] n.k \in {"if_stmt", "switch_stmt"} ->
            HasElse(n) /\ \A i \in DOMAIN n.clauses : TerminatedClause(n.clauses[i])
      [] n.k = "while_stmt" -> n.clauses[1].when[1] = atom("true") /\ TerminatedClause(n.clauses[1])
      [] OTHER -> FALSE

-----------------------------------------------------------------------------
(* The programs that the emitter handles: what an expression that never has *)
(* a value, because every way through it returns, is an operand of a        *)
(* statement of a block only, and no `ret' ends the body of a `for' over a  *)
(* range.  The other programs are the ones whose blocks may fail to verify. *)

HasValue(e) == \E r \in Expr(e) : r.end = "go"

RECURSIVE ReturnsHere(_)
ReturnsHere(n) ==
    \/ n.k = "return_stmt"
    \/ n.k = "use" /\ ReturnsHere(n.exprs[1])
    \/ n.k \in {"statement_block", "block_expr"} /\ \E s \in ToSet(n.clauses[1].stmts) : ReturnsHere(s)

RECURSIVE Supported(_)
Supported(n) ==
    /\ \A e \in ToSet(n.exprs) : Supported(e)
    /\ \A c \in ToSet(n.clauses) :
         /\ \A s \in ToSet(c.stmts) : Supported(s)
         /\ \A e \in ToSet(c.when \o c.last) : Supported(e) /\ HasValue(e)
         /\ n.k \in {"for_stmt", "tuple_for"} => \A s \in ToSet(c.stmts) : ~ReturnsHere(s)
         /\ n.k = "postfix_if" => \A e \in ToSet(c.stmts[1].exprs) : HasValue(e)

-----------------------------------------------------------------------------
(* Emission of a program that the emitter handles does not derail, and      *)
(* blocks that LLVM accepts do what the source says: the same tests in the  *)
(* same order with the same outcomes, the same uses of values, the same     *)
(* return, whether statements are left out because the block before them is *)
(* terminated or an expression is abandoned by emit_skipper.                *)
Preserves ==
    done => /\ Supported(program.body) => ~derailed
            /\ Verifies => Behaviour = Meaning

(* The analyzer's check is enough for the emitter's belief that the end of  *)
(* a function that returns a value is not reached: no run of a function     *)
(* that check_unterminated_block accepts gets to the `unreachable'.         *)
NeverFallsOff ==
    done /\ Verifies /\ ~program.unit /\ check_terminated(program.body) =>
        \A r \in Behaviour : r.end # "unreachable"

=============================================================================
