------------------------------ MODULE MCScopes ------------------------------
(***************************************************************************)
(* Programs over the names x, y, f and g: a lambda, with or without a type *)
(* for its parameter, between declarations before, around, in and behind   *)
(* it, called or not; and statements that open scopes.                     *)
(***************************************************************************)
EXTENDS ScopesMeaning

Ref(v) == Node("var_ref", <<v>>, <<>>)
One == Node("int", <<"1">>, <<>>)
Half == Node("float", <<"1.">>, <<>>)
DeclN(v) == Node("var_decl", <<v>>, <<>>)
Set(v, e) == Node("init", <<>>, <<DeclN(v), Node("rhs", <<>>, <<e>>)>>)
Body(ss) == Node("block", <<>>, ss)
Begin(ss, e) == Node("block_expr", <<>>, Append(ss, e))
Param(v, typed) == Node("param", <<v>>, IF typed THEN <<Node("primary_type", <<"int">>, <<>>)>> ELSE <<>>)
Lambda(ps, ss) == Node("lambda", <<>>, <<Node("function", <<>>, Append(ps, Body(ss)))>>)
CallOf(v, e) == Node("call", <<>>, <<Ref(v), e>>)
CallF0(v) == Node("call", <<>>, <<Ref(v)>>)
Fun(name, ps, blocks) == Node("function", <<name>>, ps \o blocks)
Program(ss) == Node("inu", <<>>, <<Fun("main", <<>>, <<Body(ss)>>)>>)
Assign(op, ls, rs) == Node("assign", op, <<Node("lhs", <<>>, ls), Node("rhs", <<>>, rs)>>)
Ret(e) == Node("return", <<>>, <<e>>)
Sum(a, b) == Node("binary", <<"+">>, <<a, b>>)
For(v, r, ss) == Node("for", <<>>, <<Param(v, FALSE), r, Body(ss)>>)
IfElse(c, ss, ts) == Node("if_stmt", <<"if">>, <<c, Body(ss), Body(ts)>>)

(* What stands in the body of a lambda called f.                            *)
Inner == {
    <<Ret(Ref("x"))>>,
    <<Set("x", One), Ret(Ref("x"))>>,
    <<Set("x", Ref("x")), Ret(Ref("x"))>>,
    <<Set("z", Ref("x")), Ret(Sum(Ref("z"), Ref("y")))>>,
    <<Set("z", Begin(<<Set("x", Ref("y"))>>, Ref("x"))), Ret(Sum(Ref("x"), Ref("z")))>>,
    <<Set("g", Lambda(<<Param("y", TRUE)>>, <<Ret(Sum(Ref("x"), Ref("y")))>>)), Ret(CallOf("g", One))>>,
    <<Set("g", Lambda(<<Param("a", FALSE)>>, <<Ret(Sum(Ref("y"), Sum(Ref("x"), Ref("a"))))>>)), Ret(CallOf("g", One))>>,
    <<Set("g", Lambda(<<>>, <<Set("h", Lambda(<<>>, <<Ret(Ref("x"))>>)), Ret(CallF0("h"))>>)), Ret(CallF0("g"))>>,
    <<Assign(<<"+", "=">>, <<Ref("x")>>, <<Ref("y")>>), Ret(Ref("w"))>>
}
Declared == {<<Set("x", One)>>, <<Set("y", One), Set("x", Ref("y"))>>}
Between == {<<>>, <<Set("x", One)>>}
CallF(e) == CallOf("f", e)
Uses == {<<>>, <<CallF(One)>>, <<CallF(One), CallF(Half)>>,
         <<Set("h", Ref("f")), CallOf("h", One)>>,
         <<Body(<<Set("x", One), CallF(One), Ref("x")>>)>>,
         <<For("x", One, <<CallF(One)>>)>>}
ParamNames == {"x", "a"}

AroundLambda ==
    {Program(pre \o <<Body(f \o mid \o use)>>) :
        pre \in Declared, mid \in Between, use \in Uses,
        f \in {<<Set("f", Lambda(<<Param(p, typed)>>, b))>> : p \in ParamNames, typed \in BOOLEAN, b \in Inner}}

Statements ==
    {Program(<<Set("x", One), Set("y", One)>> \o s) : s \in {
        <<For("x", Ref("x"), <<Ref("x")>>)>>,
        <<For("x", Ref("y"), <<Set("x", One)>>)>>,
        <<For("_", Ref("_"), <<Ref("x")>>)>>,
        <<For("x", Ref("y"), <<Set("f", Lambda(<<>>, <<Ret(Ref("x"))>>)), CallF0("f")>>)>>,
        <<IfElse(Ref("x"), <<Set("x", Ref("x"))>>, <<Set("z", Ref("x"))>>), Ref("z")>>,
        <<Set("z", Begin(<<Set("x", Ref("x"))>>, Ref("x"))), Ref("x")>>,
        <<Assign(<<"=">>, <<Ref("_"), Ref("x")>>, <<Ref("y"), Ref("x")>>)>>,
        <<Assign(<<"=">>, <<Ref("_")>>, <<Ref("y"), Ref("x")>>)>>,
        <<Assign(<<"=">>, <<Ref("x"), Ref("y")>>, <<Begin(<<>>, Ref("x"))>>)>>,
        <<Assign(<<"=">>, <<Ref("x"), Ref("y")>>, <<Begin(<<Set("z", Ref("x"))>>, Ref("z"))>>)>>,
        <<Assign(<<"=">>, <<Ref("x"), Ref("y")>>, <<Lambda(<<>>, <<Ret(Ref("x"))>>)>>)>>,
        <<Assign(<<"=">>, <<Ref("x"), Ref("y")>>, <<Begin(<<Ref("y")>>, Lambda(<<>>, <<Ret(Ref("x"))>>))>>)>>,
        <<Assign(<<"=">>, <<Ref("x"), Ref("y")>>, <<Lambda(<<Param("a", TRUE)>>, <<Ret(Ref("x"))>>)>>)>>,
        <<Assign(<<"=">>, <<Ref("x"), Ref("y")>>, <<Lambda(<<>>, <<Ret(Ref("x"))>>), Ref("y")>>)>>,
        <<Set("f", Lambda(<<>>, <<Ret(Ref("f"))>>))>>,
        <<Assign(<<"+", "=">>, <<Ref("_")>>, <<Ref("y")>>)>>,
        <<Set("_", Ref("x")), Set("_", Ref("y"))>>,
        <<Set("f", Lambda(<<Param("_", TRUE), Param("_", TRUE)>>, <<Ret(Ref("x"))>>))>>,
        <<Set("f", Lambda(<<Param("a", TRUE), Param("a", TRUE)>>, <<Ret(Ref("x"))>>))>>}}

Main(ss) == Fun("main", <<>>, <<Body(ss)>>)
Modules ==
    {Node("inu", <<>>, ns) : ns \in {
        <<Main(<<CallOf("k", One), CallOf("k", Half)>>), Fun("k", <<Param("x", FALSE)>>, <<Body(<<Ret(Ref("x"))>>)>>)>>,
        <<Main(<<CallOf("k", One)>>), Fun("k", <<Param("x", TRUE)>>, <<Body(<<Set("f", Lambda(<<>>, <<Ret(Ref("x"))>>)), CallF0("f")>>)>>)>>,
        <<Main(<<CallOf("k", One), CallOf("k", Half)>>),
          Fun("k", <<Param("x", FALSE)>>, <<Body(<<Set("f", Lambda(<<Param("a", FALSE)>>, <<Ret(Ref("x"))>>)), CallF(One)>>)>>)>>,
        <<Main(<<Ref("c")>>), Set("c", One)>>,
        <<Main(<<>>), Set("c", One), Set("d", Ref("c"))>>,
        <<Main(<<>>), Set("c", One), Set("d", Lambda(<<>>, <<Ret(Ref("c"))>>))>>,
        <<Main(<<>>), Set("c", Begin(<<>>, One))>>,
        <<Main(<<>>), Fun("k", <<>>, <<Body(<<>>), Body(<<>>)>>)>> }}

MCPrograms == AroundLambda \cup Statements \cup Modules
=============================================================================
