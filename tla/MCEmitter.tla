------------------------------ MODULE MCEmitter ------------------------------
(***************************************************************************)
(* Bodies of functions for Emitter: nests of two levels of every           *)
(* conditional, loop and block, as statements and as expressions, with     *)
(* `ret' at every place, in functions that return unit and in others.      *)
(***************************************************************************)
EXTENDS EmitterMeaning

A == atom("a")
B == atom("b")
C == atom("c")
True == atom("true")
ret(e) == Node("return_stmt", "", <<e>>, <<>>)
use(e) == Node("use", "", <<e>>, <<>>)
begin(s) == Node("statement_block", "", <<>>, <<Clause(<<>>, s, <<>>)>>)
begin_expr(s, e) == Node("block_expr", "", <<>>, <<Clause(<<>>, s, <<e>>)>>)

Functions(bodies) ==
    [body : {Node("func", "", <<>>, <<Clause(<<>>, s, <<>>)>>) : s \in bodies}, unit : BOOLEAN]

-----------------------------------------------------------------------------
(* Expressions: clauses that may return before their last expression. *)

MayReturn == {<<>>, <<ret(B)>>}
Value1 == {A} \cup {begin_expr(s, B) : s \in {<<use(A)>>, <<ret(B)>>}}
ExprClauses(when, last) == {Clause(when, s, <<e>>) : s \in MayReturn, e \in last}
IfExprs(last) ==
    {Node("if_expr", k, <<>>, <<c, d>>) :
        k \in {"if", "unless"}, c \in ExprClauses(<<C>>, last), d \in ExprClauses(<<>>, last)}
ElseifExprs ==
    {Node("if_expr", "unless", <<>>, <<c, d, e>>) :
        c \in ExprClauses(<<C>>, {A}), d \in ExprClauses(<<B>>, {B}), e \in ExprClauses(<<>>, {C})}
SwitchExprs(target) ==
    {Node("switch_expr", "", <<t>>, <<c, d>>) :
        t \in target, c \in ExprClauses(<<B, C>>, {A}), d \in ExprClauses(<<>>, {B})}

Level1 == Value1 \cup IfExprs({A}) \cup SwitchExprs({A})
Level2 == IfExprs(Level1) \cup ElseifExprs \cup SwitchExprs(Level1)

-----------------------------------------------------------------------------
(* Statements. *)

Simple == {use(A), ret(B)}
Short == SeqOf(Simple, 1)
Else(bodies) == {<<>>} \cup {<<Clause(<<>>, s, <<>>)>> : s \in bodies}
Ifs(bodies, conds) ==
    {Node("if_stmt", k, <<>>, <<Clause(<<e>>, s, <<>>)>> \o d) :
        k \in {"if", "unless"}, e \in conds, s \in bodies, d \in Else(bodies)}
Elseifs(bodies) ==
    {Node("if_stmt", "unless", <<>>, <<Clause(<<C>>, s, <<>>), Clause(<<A>>, t, <<>>)>> \o d) :
        s \in bodies, t \in bodies, d \in Else(bodies)}
Switches(bodies, targets) ==
    {Node("switch_stmt", "", <<e>>, <<Clause(w, s, <<>>)>> \o d) :
        e \in targets, w \in {<<B>>, <<B, C>>}, s \in bodies, d \in Else(bodies)}
Whiles(bodies, conds) ==
    {Node("while_stmt", "", <<>>, <<Clause(<<e>>, s, <<>>)>>) : e \in conds, s \in bodies}
Fors(bodies, ranges) ==
    {Node("for_stmt", "more", <<e>>, <<Clause(<<>>, s, <<>>)>>) : e \in ranges, s \in bodies}
Tuples(bodies, ranges) ==
    {Node("tuple_for", "", <<e>>, <<Clause(<<>>, s, <<>>), Clause(<<>>, s, <<>>)>>) :
        e \in ranges, s \in bodies}
Postfixes(stmts, conds) ==
    {Node("postfix_if", k, <<>>, <<Clause(<<e>>, <<s>>, <<>>)>>) :
        k \in {"if", "unless"}, e \in conds, s \in stmts}

Compound(bodies) ==
    Ifs(bodies, {C}) \cup Switches(bodies, {A}) \cup Whiles(bodies, {C, True}) \cup Fors(bodies, {A})
    \cup Tuples(bodies, {A}) \cup {begin(s) : s \in bodies}
Inner == {<<s>> : s \in Compound({<<>>, <<ret(B)>>}) \cup Postfixes(Simple, {C})}
WithExprs ==
    LET es == IfExprs({A}) \cup {begin_expr(<<ret(B)>>, A)} IN
    Ifs({<<use(A)>>}, es) \cup Switches({<<use(A)>>}, es) \cup Whiles({<<use(A)>>}, es)
    \cup Fors({<<use(A)>>}, es) \cup Tuples({<<use(A)>>}, es)
    \cup Postfixes({use(A)}, es) \cup Postfixes({use(e) : e \in es}, {C})

MCPrograms ==
    Functions({<<use(e), ret(B)>> : e \in Level2} \cup {<<ret(e)>> : e \in Level2}
              \cup {<<s, t>> : s \in Compound(Short \cup Inner) \cup Elseifs(Short) \cup WithExprs, t \in Simple}
              \cup {<<s>> : s \in Compound(Short)})

(* The parts of a syntax tree.                                              *)
RECURSIVE MCNodes(_)
MCNodes(n) ==
    {n} \cup UNION {MCNodes(m) : m \in ToSet(n.exprs \o FlattenSeq([i \in DOMAIN n.clauses |->
                         n.clauses[i].when \o n.clauses[i].stmts \o n.clauses[i].last]))}
=============================================================================
