------------------------------- MODULE Emitter -------------------------------
(***************************************************************************)
(* The control flow that llvm_ir_emitter (ir_emitter.cpp) gives to the     *)
(* body of a function: the basic blocks of if, unless, case, for and begin,*)
(* as statements and as expressions, the values that meet in a phi, the    *)
(* return statements, and the exception emit_skipper that leaves an        *)
(* expression whose value is never used because every way through it       *)
(* returns.                                                                *)
(*                                                                         *)
(* The recursion of emit is the stack `work'.  Instructions are kept as    *)
(* far as control and observable behaviour need: "use" stands for whatever *)
(* a statement does with a value, "pass" for what has no effect of its own *)
(* (allocation, counters, element access).  A value is an atom or a phi.   *)
(***************************************************************************)
EXTENDS Naturals, Sequences, FiniteSets, SequencesExt

CONSTANTS
    Programs,  \* functions
    Nodes(_)   \* the nodes of a syntax tree

(* A node of the syntax tree has clauses; each has conditions (the ones of  *)
(* a `when' are several), statements, and as part of an expression a last   *)
(* expression.  The name is the one of an atom or of the iterated range.    *)
Node(k, name, exprs, clauses) == [k |-> k, name |-> name, exprs |-> exprs, clauses |-> clauses]
Clause(when, stmts, last) == [when |-> when, stmts |-> stmts, last |-> last]
atom(n) == Node("atom", n, <<>>, <<>>)

Conditional == {"if_stmt", "if_expr", "switch_stmt", "switch_expr"}
IsExpr(n) == n.k \in {"if_expr", "switch_expr", "block_expr", "atom"}
IsSwitch(n) == n.k \in {"switch_stmt", "switch_expr"}
HasElse(n) == Last(n.clauses).when = <<>>
Operated == {"return_stmt", "use", "switch_stmt", "switch_expr", "for_stmt", "tuple_for"}
Kinds == Conditional \cup Operated
           \cup {"func", "atom", "statement_block", "block_expr", "while_stmt", "postfix_if"}

(* What the parser builds: conditions and operands are expressions; the     *)
(* clauses of an expression end with one, and one of them is an else.       *)
Clauses(nodes) == Seq([when : Seq(nodes), stmts : Seq(nodes), last : Seq(nodes)])
WellShaped(n) ==
    /\ \A i \in DOMAIN n.clauses :
         /\ \A j \in DOMAIN n.clauses[i].when : IsExpr(n.clauses[i].when[j])
         /\ IF IsExpr(n) THEN Len(n.clauses[i].last) = 1 /\ IsExpr(n.clauses[i].last[1])
            ELSE n.clauses[i].last = <<>>
    /\ n.k \in Operated => n.exprs # <<>> /\ IsExpr(n.exprs[1])
    /\ n.k \notin {"atom", "return_stmt", "use", "tuple_for"} => n.clauses # <<>>
    /\ n.k \in {"if_expr", "switch_expr"} => HasElse(n)
    /\ n.k \in {"while_stmt", "postfix_if"} => n.clauses[1].when # <<>>
    /\ n.k = "postfix_if" => n.clauses[1].stmts # <<>>
ASSUME ProgramsAssumption ==
    \A p \in Programs :
        /\ p \in [body : Nodes(p.body), unit : BOOLEAN] /\ p.body.k = "func"
        /\ \A n \in Nodes(p.body) :
             /\ n \in [k : Kinds, name : STRING, exprs : Seq(Nodes(p.body)), clauses : Clauses(Nodes(p.body))]
             /\ WellShaped(n)

VARIABLES
    program,   \* [body, unit]: the body as a node with one clause, and whether
               \* the function returns unit
    blocks,    \* basic blocks in the order they are created
    cur,       \* insert block of the builder
    work,      \* activations of emit, the innermost last
    val,       \* value that the last expression was emitted as
    done,
    derailed   \* history: a step has gone wrong in one of the ways of Derails

vars == <<program, blocks, cur, work, val, done, derailed>>

-----------------------------------------------------------------------------
(* The builder of LLVM, as block_branch_helper uses it. *)

Value(name, phi) == [name |-> name, phi |-> phi]    \* an atom, or the phi of a block
NoValue == Value("", 0)
Instr(k, v, w, to) == [k |-> k, v |-> v, w |-> w, to |-> to, from |-> <<>>]
Use(v) == Instr("use", v, NoValue, <<>>)
Pass == Instr("pass", NoValue, NoValue, <<>>)
Br(b) == Instr("br", NoValue, NoValue, <<b>>)
CondBr(v, w, t, f) == Instr("condbr", v, w, <<t, f>>)
Ret(v) == Instr("ret", v, NoValue, <<>>)
Unreachable == Instr("unreachable", NoValue, NoValue, <<>>)
Phi(in) == [Instr("phi", NoValue, NoValue, <<>>) EXCEPT !.from = in]
Terminator == {"br", "condbr", "ret", "unreachable"}

(* create_block makes a block that is in no function, append_block puts it  *)
(* there; create_block_for_parent does both.                                *)
NewBlock(placed) == [placed |-> placed, code |-> <<>>]
Put(bs, b, i) == [bs EXCEPT ![b] = [placed |-> bs[b].placed, code |-> Append(bs[b].code, i)]]
append_block(bs, b) == [bs EXCEPT ![b] = [placed |-> TRUE, code |-> bs[b].code]]

(* getTerminator looks at the last instruction only.                        *)
HasTerminator(bs, b) == bs[b].code # <<>> /\ Last(bs[b].code).k \in Terminator
terminate_with_br(bs, dest) == IF HasTerminator(bs, cur) THEN bs ELSE Put(bs, cur, Br(dest))

Frame(do, n) == [do |-> do, node |-> n, clause |-> 1, at |-> 1, end |-> 0,
                 then |-> 0, else |-> 0, target |-> NoValue, in |-> <<>>]
Top == Last(work)
Here == Top.node.clauses[Top.clause]

(* The innermost activation goes on as f; it goes on and calls emit; it     *)
(* returns.                                                                 *)
GoesOn(f) == work' = [work EXCEPT ![Len(work)] = f]
Calls(f, g) == work' = Append([work EXCEPT ![Len(work)] = f], g)
Returns == work' = Front(work)
emit(n) == Frame(n.k, n)
Block(n, c) == [Frame("block", n) EXCEPT !.clause = c]

(* throw emit_skipper: emit_block catches what a statement throws, and      *)
(* emit_inner_block of if_expr and switch_expr what a clause throws, which  *)
(* gives no value then.                                                     *)
Catches(f) == f.do = "block" \/ (f.do = "join" /\ IsExpr(f.node))
Handler == CHOOSE h \in 1..(Len(work) - 1) :
              Catches(work[h]) /\ \A k \in (h + 1)..(Len(work) - 1) : ~Catches(work[k])
Throws ==
    LET f == work[Handler] IN
    work' = Append(SubSeq(work, 1, Handler - 1),
                   IF f.do = "join" THEN [f EXCEPT !.do = "skipped"] ELSE f)

Init ==
    /\ program \in Programs
    /\ blocks = <<NewBlock(TRUE)>> /\ cur = 1
    /\ work = <<Block(program.body, 1)>>
    /\ val = NoValue /\ done = FALSE /\ derailed = FALSE

-----------------------------------------------------------------------------
(* Blocks of statements, and simple statements. *)

(* emit_block stops at a terminated block.                                  *)
EmitStmt ==
    /\ Top.do = "block" /\ Top.at <= Len(Here.stmts) /\ ~HasTerminator(blocks, cur)
    /\ Calls([Top EXCEPT !.at = @ + 1], emit(Here.stmts[Top.at]))
    /\ UNCHANGED <<blocks, cur, val>>

EndOfBlock ==
    /\ Top.do = "block" /\ (Top.at > Len(Here.stmts) \/ HasTerminator(blocks, cur))
    /\ CASE Here.last = <<>> -> Returns
         [] Here.last # <<>> /\ HasTerminator(blocks, cur) -> Throws
         [] OTHER -> GoesOn(emit(Here.last[1]))
    /\ UNCHANGED <<blocks, cur, val>>

(* begin, as a statement and as an expression.                              *)
EmitBegin ==
    /\ Top.do \in {"statement_block", "block_expr"}
    /\ GoesOn(Block(Top.node, 1))
    /\ UNCHANGED <<blocks, cur, val>>

EmitAtom ==
    /\ Top.do = "atom"
    /\ val' = Value(Top.node.name, 0)
    /\ Returns
    /\ UNCHANGED <<blocks, cur>>

(* What starts with an expression.  emit(return_stmt) first looks whether   *)
(* the block is terminated; emit_block has looked before it.                *)
EmitOperand ==
    /\ Top.do \in Operated
    /\ Calls([Top EXCEPT !.do = IF @ \in {"return_stmt", "use"} THEN "operand" ELSE "start"],
             emit(Top.node.exprs[1]))
    /\ UNCHANGED <<blocks, cur, val>>

EmitWithOperand ==
    /\ Top.do = "operand"
    /\ blocks' = Put(blocks, cur, IF Top.node.k = "use" THEN Use(val) ELSE Ret(val))
    /\ Returns
    /\ UNCHANGED <<cur, val>>

-----------------------------------------------------------------------------
(* if, unless and case, as statements and as expressions. *)

Fresh == Len(blocks) + 1       \* the number of the block created next

(* The block behind all clauses is created first, outside the function; a   *)
(* switch keeps the value it compares.  (emit creates the block before the  *)
(* operand, and the block of the next comparison before the value compared: *)
(* if those throw the block is in no function.)                             *)
EmitConditional ==
    /\ \/ Top.do \in {"if_stmt", "if_expr"}
       \/ Top.do = "start" /\ IsSwitch(Top.node)
    /\ blocks' = Append(blocks, NewBlock(FALSE))
    /\ GoesOn([Top EXCEPT !.do = "clause", !.end = Fresh, !.target = val])
    /\ UNCHANGED <<cur, val>>

(* The condition of a clause; a switch creates the blocks of the clause     *)
(* before it compares.                                                      *)
EmitCondition ==
    /\ Top.do \in {"clause", "compare"}
    /\ Top.clause <= Len(Top.node.clauses) /\ Top.at <= Len(Here.when)
    /\ IF IsSwitch(Top.node) /\ Top.do = "clause"
       THEN /\ blocks' = blocks \o <<NewBlock(FALSE), NewBlock(FALSE)>>
            /\ Calls([Top EXCEPT !.do = "test", !.then = Fresh, !.else = Fresh + 1], emit(Here.when[1]))
       ELSE /\ Calls([Top EXCEPT !.do = "test"], emit(Here.when[Top.at]))
            /\ UNCHANGED blocks
    /\ UNCHANGED <<cur, val>>

BranchInverted ==    \* mutant: `unless' inverts the conditions of all its clauses
    LET bs == blocks \o <<NewBlock(TRUE), NewBlock(FALSE)>> IN
    /\ Top.do = "test" /\ ~IsSwitch(Top.node)
    /\ blocks' = Put(bs, cur, IF Top.node.name = "unless" THEN CondBr(val, NoValue, Fresh + 1, Fresh)
                              ELSE CondBr(val, NoValue, Fresh, Fresh + 1))
    /\ cur' = Fresh
    /\ Calls([Top EXCEPT !.do = "join", !.else = Fresh + 1], Block(Top.node, Top.clause))
    /\ UNCHANGED val

(* if: the branch to the clause or behind it.  `unless' inverts the first.  *)
EmitBranch ==
    LET bs == blocks \o <<NewBlock(TRUE), NewBlock(FALSE)>>
        inverted == Top.node.name = "unless" /\ Top.clause = 1 IN
    /\ Top.do = "test" /\ ~IsSwitch(Top.node)
    /\ blocks' = Put(bs, cur, IF inverted THEN CondBr(val, NoValue, Fresh + 1, Fresh)
                              ELSE CondBr(val, NoValue, Fresh, Fresh + 1))
    /\ cur' = Fresh
    /\ Calls([Top EXCEPT !.do = "join", !.else = Fresh + 1], Block(Top.node, Top.clause))
    /\ UNCHANGED val

(* switch: one comparison of a `when', and the block of the next one.       *)
EmitCompare ==
    LET bs == Append(blocks, NewBlock(FALSE)) IN
    /\ Top.do = "test" /\ IsSwitch(Top.node)
    /\ blocks' = append_block(Put(bs, cur, CondBr(Top.target, val, Top.then, Fresh)), Fresh)
    /\ cur' = Fresh
    /\ GoesOn([Top EXCEPT !.do = "compare", !.at = @ + 1])
    /\ UNCHANGED val

(* No comparison held: on to the next clause; the clause itself follows.    *)
EmitWhen ==
    /\ Top.do = "compare" /\ Top.at > Len(Here.when)
    /\ blocks' = append_block(Put(blocks, cur, Br(Top.else)), Top.then)
    /\ cur' = Top.then
    /\ Calls([Top EXCEPT !.do = "join"], Block(Top.node, Top.clause))
    /\ UNCHANGED val

(* A clause is emitted: its end is reached unless the block is terminated,  *)
(* and an expression keeps the value and the block it comes from.           *)
JoinSkippedToo ==    \* mutant: the value of a clause that returned is kept
    /\ Top.do \in {"join", "skipped"} /\ Here.when # <<>>
    /\ blocks' = append_block(terminate_with_br(blocks, Top.end), Top.else)
    /\ cur' = Top.else
    /\ GoesOn([Top EXCEPT !.do = "clause", !.clause = @ + 1, !.at = 1,
                          !.in = Append(@, [v |-> val, from |-> cur])])
    /\ UNCHANGED val

Incoming(f) == IF IsExpr(f.node) /\ f.do = "join" THEN Append(f.in, [v |-> val, from |-> cur]) ELSE f.in
JoinClause ==
    /\ Top.do \in {"join", "skipped"} /\ Here.when # <<>>
    /\ blocks' = append_block(terminate_with_br(blocks, Top.end), Top.else)
    /\ cur' = Top.else
    /\ GoesOn([Top EXCEPT !.do = "clause", !.clause = @ + 1, !.at = 1, !.in = Incoming(Top)])
    /\ UNCHANGED val

(* The else clause, which only a statement may lack.                        *)
EmitElse ==
    /\ Top.do = "clause" /\ Top.clause <= Len(Top.node.clauses) /\ Here.when = <<>>
    /\ Calls([Top EXCEPT !.do = "join"], Block(Top.node, Top.clause))
    /\ UNCHANGED <<blocks, cur, val>>

(* Behind the last clause: the values of an expression meet, if there are   *)
(* any.                                                                     *)
AllJoined ==
    \/ Top.do = "clause" /\ Top.clause > Len(Top.node.clauses)
    \/ Top.do \in {"join", "skipped"} /\ Top.node.k \in Conditional /\ Here.when = <<>>
JoinAll ==
    LET bs == append_block(terminate_with_br(blocks, Top.end), Top.end)
        in == Incoming(Top) IN
    /\ AllJoined
    /\ cur' = Top.end
    /\ IF IsExpr(Top.node) /\ in # <<>>
       THEN blocks' = Put(bs, Top.end, Phi(in)) /\ val' = Value("", Top.end) /\ Returns
       ELSE /\ blocks' = bs /\ UNCHANGED val
            /\ IF IsExpr(Top.node) THEN Throws ELSE Returns

-----------------------------------------------------------------------------
(* Loops and the postfix if: their blocks are created in the function, and  *)
(* the builder goes on behind them.                                         *)

(* for with a condition: while.cond, while.body, while.exit.                *)
EmitWhile ==
    /\ Top.do = "while_stmt"
    /\ blocks' = Put(blocks \o [i \in 1..3 |-> NewBlock(TRUE)], cur, Br(Fresh))
    /\ cur' = Fresh
    /\ Calls([Top EXCEPT !.do = "loop", !.target = NoValue, !.then = Fresh, !.end = Fresh + 2],
             emit(Here.when[1]))
    /\ UNCHANGED val

(* postfixif.then, postfixif.end.                                           *)
EmitPostfixIf ==
    /\ Top.do = "postfix_if"
    /\ blocks' = blocks \o [i \in 1..2 |-> NewBlock(TRUE)]
    /\ Calls([Top EXCEPT !.do = "postfix", !.then = Fresh, !.end = Fresh + 1], emit(Here.when[1]))
    /\ UNCHANGED <<cur, val>>

EmitLoopTest ==
    /\ Top.do = "loop"
    /\ blocks' = Put(blocks, cur, CondBr(val, NoValue, Top.then + 1, Top.end))
    /\ cur' = Top.then + 1
    /\ Calls([Top EXCEPT !.do = "body"], Block(Top.node, 1))
    /\ UNCHANGED val

(* The body of a postfix if is one statement and no block.                  *)
EmitPostfixTest ==
    /\ Top.do = "postfix"
    /\ blocks' = Put(blocks, cur, IF Top.node.name = "unless" THEN CondBr(val, NoValue, Top.end, Top.then)
                                  ELSE CondBr(val, NoValue, Top.then, Top.end))
    /\ cur' = Top.then
    /\ Calls([Top EXCEPT !.do = "body"], emit(Here.stmts[1]))
    /\ UNCHANGED val

LeaveBody ==
    /\ Top.do = "body" /\ Top.node.k \in {"while_stmt", "postfix_if"}
    /\ blocks' = terminate_with_br(blocks, IF Top.node.k = "while_stmt" THEN Top.then ELSE Top.end)
    /\ cur' = Top.end
    /\ Returns
    /\ UNCHANGED val

(* for over an array or a container: for.header, for.body, for.footer, and  *)
(* a counter that the header tests.                                         *)
EmitFor ==
    LET bs == Put(Put(blocks \o [i \in 1..3 |-> NewBlock(TRUE)], cur, Pass), cur, Br(Fresh)) IN
    /\ Top.do = "start" /\ Top.node.k = "for_stmt"
    /\ blocks' = Put(Put(bs, Fresh, CondBr(Value(Top.node.name, 0), NoValue, Fresh + 1, Fresh + 2)),
                     Fresh + 1, Pass)
    /\ cur' = Fresh + 1
    /\ Calls([Top EXCEPT !.do = "body", !.then = Fresh, !.end = Fresh + 2], Block(Top.node, 1))
    /\ UNCHANGED val

(* The counter is incremented and the branch emitted whether or not the     *)
(* body ends with a terminator.                                             *)
LeaveFor ==
    /\ Top.do = "body" /\ Top.node.k = "for_stmt"
    /\ blocks' = Put(Put(blocks, cur, Pass), cur, Br(Top.then))
    /\ cur' = Top.end
    /\ Returns
    /\ UNCHANGED val

(* for over a tuple: the access to each element and a copy of the body.     *)
EmitElement ==
    /\ Top.do = "start" /\ Top.node.k = "tuple_for" /\ Top.clause <= Len(Top.node.clauses)
    /\ blocks' = Put(blocks, cur, Pass)
    /\ Calls([Top EXCEPT !.clause = @ + 1], Block(Top.node, Top.clause))
    /\ UNCHANGED <<cur, val>>

LeaveTuple ==
    /\ Top.do = "start" /\ Top.node.k = "tuple_for" /\ Top.clause > Len(Top.node.clauses)
    /\ Returns
    /\ UNCHANGED <<blocks, cur, val>>

-----------------------------------------------------------------------------
(* The end of the function: unit is returned implicitly, elsewhere the      *)
(* analyzer has seen to it that the end is not reached.                     *)
Finish ==
    /\ work = <<>> /\ ~done
    /\ blocks' = IF HasTerminator(blocks, cur) THEN blocks
                 ELSE Put(blocks, cur, IF program.unit THEN Ret(Value("unit", 0)) ELSE Unreachable)
    /\ done' = TRUE
    /\ UNCHANGED <<program, cur, work, val, derailed>>

(* Where the emitter goes wrong.  emit_skipper cuts off more than operands, *)
(* whose statement is given up: the test of a branch or a loop, whose       *)
(* blocks stay without an end.  It leaves an `if' or `case' without values  *)
(* for the clause around it, whose end is reached without a value.  Or the  *)
(* body of a `for' has ended with a terminator and the loop goes on behind  *)
(* it.                                                                      *)
ThrowsInBlock == Top.do = "block" /\ Here.last # <<>> /\ HasTerminator(blocks, cur)
ThrowsAtJoin == AllJoined /\ IsExpr(Top.node) /\ Incoming(Top) = <<>>
Derails ==
    \/ /\ ThrowsInBlock \/ ThrowsAtJoin
       /\ \E h \in (Handler + 1)..(Len(work) - 1) : work[h].do \notin {"operand", "start"}
    \/ ThrowsAtJoin /\ work[Handler].do = "join"
    \/ /\ HasTerminator(blocks, cur)
       /\ \/ Top.do = "body" /\ Top.node.k = "for_stmt"
          \/ Top.do = "start" /\ Top.node.k = "tuple_for" /\ Top.clause <= Len(Top.node.clauses)

Emit ==
    /\ work # <<>>
    /\ \/ EmitStmt \/ EndOfBlock \/ EmitBegin \/ EmitAtom \/ EmitOperand \/ EmitWithOperand
       \/ EmitConditional \/ EmitCondition \/ EmitBranch \/ EmitCompare \/ EmitWhen
       \/ JoinClause \/ EmitElse \/ JoinAll
       \/ EmitWhile \/ EmitPostfixIf \/ EmitLoopTest \/ EmitPostfixTest \/ LeaveBody
       \/ EmitFor \/ LeaveFor \/ EmitElement \/ LeaveTuple
    /\ derailed' = (derailed \/ Derails)
    /\ UNCHANGED <<program, done>>

Next == Emit \/ Finish \/ (done /\ UNCHANGED vars)
Spec == Init /\ [][Next]_vars /\ WF_vars(Next)

-----------------------------------------------------------------------------
Placed == {b \in DOMAIN blocks : blocks[b].placed}
Preds(b) == {p \in Placed : \E i \in DOMAIN blocks[p].code : b \in ToSet(blocks[p].code[i].to)}

(* What llvm::verifyModule asks of a function's blocks: exactly one         *)
(* terminator, at the end; branches stay in the function; a phi is at the   *)
(* start and has one value for each predecessor.                            *)
VerifiesBlock(b) ==
    LET code == blocks[b].code IN
    /\ HasTerminator(blocks, b)
    /\ \A i \in 1..(Len(code) - 1) : code[i].k \notin Terminator
    /\ ToSet(Last(code).to) \subseteq Placed
    /\ \A i \in DOMAIN code : code[i].k = "phi" =>
         /\ i = 1
         /\ {in.from : in \in ToSet(code[i].from)} = Preds(b)
         /\ Cardinality({in.from : in \in ToSet(code[i].from)}) = Len(code[i].from)
Verifies == \A b \in Placed : VerifiesBlock(b)
(* A function is emitted as blocks that LLVM accepts unless emission has    *)
(* derailed, whatever mixture of returns and values its clauses have: each  *)
(* is terminated once, every branch goes to a block of the function, and    *)
(* the phi of an `if' or `case' expression has exactly the blocks that      *)
(* branch to it although clauses that return give it no value.              *)
WellFormed == done /\ ~derailed => Verifies

=============================================================================
