------------------------------ MODULE MCParser ------------------------------
(***************************************************************************)
(* The parser on every shape of expression around every kind of leaf, on   *)
(* pairs of operators, on shapes nested in shapes, and on the statements,  *)
(* types and definitions around them.                                      *)
(***************************************************************************)
EXTENDS Parser

x == <<"x">>
y == <<"y">>
V(n) == Node("var_ref", n, <<>>)
X == V(x)
Y == V(y)
F == V(<<"f">>)
Bin(op, a, b) == Node("binary", op, <<a, b>>)
Un(op, a) == Node("unary", op, <<a>>)
T(n) == Node("primary_type", n, <<>>)
Param(n) == Node("param", n, <<>>)
Blk(ss) == Node("block", <<>>, ss)
Lam(ps, b) == Node("lambda", <<>>, <<Node("function", <<>>, Append(ps, b))>>)
Ret(e) == Node("return", <<>>, <<e>>)
Bl(ss, e) == Node("block_expr", <<>>, Append(ss, e))
Call(f, as) == Node("call", <<>>, <<f>> \o as)
Ufcs(e, as) == Node("call", <<"ufcs">>, <<F, e>> \o as)
New(t, as) == Node("new", <<>>, <<t>> \o as)
Range3(a, b, closed) == New(T(<<"range">>), <<a, b, Node("bool", <<closed>>, <<>>)>>)

Names == {x, <<"do", "g">>, <<"end", "s">>, <<"in", "f", "o">>, <<"if", "x">>, <<"x", "?">>, <<"case", "x">>, <<"@", "x">>,
          <<"string">>}
Leaves == {V(n) : n \in Names}
    \cup {Node(k, <<"1">>, <<>>) : k \in {"int", "uint"}} \cup {Node("float", <<"1", ".", "2">>, <<>>)}
    \cup {Node("bool", <<"true">>, <<>>)} \cup {Node(k, x, <<>>) : k \in {"char", "string", "symbol"}}
    \cup {Node("symbol", <<"array">>, <<>>)}

(* The shapes of expressions around e. *)
Operators(e) ==
    {Bin(<<"+">>, e, X), Bin(<<"-">>, X, e), Bin(<<"!", "=">>, e, X), Un(<<"-">>, e), Un(<<"!">>, e),
     Node("cast", <<>>, <<e, T(x)>>), Node("typed", <<>>, <<e, T(x)>>), Range3(e, X, "true"), Range3(X, e, "false")}
Postfixes(e) ==
    {Node("index", <<>>, <<e, X>>), Node("index", <<>>, <<X, e>>), Node("ufcs", <<"f">>, <<e>>),
     Call(e, <<>>), Call(X, <<e>>), Ufcs(e, <<>>), Ufcs(X, <<e>>), Ufcs(X, <<Y, e>>),
     Call(X, <<Lam(<<Param(y)>>, Blk(<<Ret(e)>>))>>), Call(X, <<e, Lam(<<>>, Blk(<<X, Ret(e)>>))>>),
     Ufcs(X, <<Lam(<<>>, Blk(<<X, Ret(e)>>))>>), Ufcs(X, <<e, Lam(<<>>, Blk(<<X, Ret(e)>>))>>)}
Primaries(e) ==
    {New(T(x), <<e>>), New(T(x), <<Lam(<<>>, Blk(<<e, Ret(X)>>))>>), New(T(x), <<Y, Lam(<<>>, Blk(<<e, Ret(X)>>))>>),
     Node("array", <<>>, <<e>>), Node("tuple", <<>>, <<e, X>>), Node("dict", <<>>, <<Node("pair", <<>>, <<e, X>>)>>),
     Lam(<<Param(x)>>, Blk(<<Ret(e)>>)), Lam(<<>>, Blk(<<Ret(e)>>)), Lam(<<Param(x), Param(y)>>, Blk(<<e, Ret(Y)>>)),
     Bl(<<e>>, X), Bl(<<X>>, e)}
Branches(e) ==
    {Node("if_expr", <<"if">>, <<e, Bl(<<>>, X), Bl(<<>>, Y)>>),
     Node("if_expr", <<"if">>, <<X, Bl(<<Y>>, e), X, Bl(<<>>, Y), Bl(<<>>, e)>>),
     Node("if_expr", <<"case">>, <<X, Bl(<<Y>>, e), Bl(<<>>, e)>>),
     Node("switch_expr", <<>>, <<e, Node("values", <<>>, <<X, e>>), Bl(<<Y>>, e), Bl(<<>>, e)>>)}
Shapes(e) == {e} \cup Operators(e) \cup Postfixes(e) \cup Primaries(e) \cup Branches(e)

Body(ss) == Node("inu", <<>>, <<Node("function", <<"f">>, <<Node("kind", <<"func">>, <<>>), Blk(ss)>>)>>)

(* Statements around an expression. *)
Decl(n, parts) == Node("var_decl", n, parts)
Mut == Node("mut", <<>>, <<>>)
Rhs(es) == Node("rhs", <<>>, es)
Init1(ds, es) == Node("init", <<>>, Append(ds, Rhs(es)))
Assign(op, e) == Node("assign", op, <<Node("lhs", <<>>, <<X>>), Rhs(<<e>>)>>)
Statements(e) ==
    {Init1(<<Decl(x, <<>>)>>, <<e>>), Init1(<<Decl(x, <<Mut>>), Decl(y, <<T(x)>>)>>, <<X, e>>),
     Node("init", <<>>, <<Decl(x, <<Mut, T(y)>>)>>),
     Init1(<<Decl(x, <<T(<<"string">>)>>), Decl(y, <<T(<<"array">>)>>)>>, <<e, Y>>),
     Node("typed", <<>>, <<e, T(<<"string">>)>>), Node("cast", <<>>, <<e, T(<<"array">>)>>), Assign(<<"=">>, e), Assign(<<"<", "<", "=">>, e), Ret(e),
     Node("return", <<>>, <<X, e>>), Node("return", <<>>, <<>>),
     Node("postfix_if", <<"if">>, <<Ret(X), e>>), Node("postfix_if", <<"unless">>, <<Assign(<<"=">>, X), e>>),
     Node("postfix_if", <<"if">>, <<e, X>>), Node("postfix_if", <<"if">>, <<Node("ufcs", y, <<X>>), e>>),
     Node("for", <<>>, <<Param(x), e, Blk(<<X>>)>>), Node("for", <<>>, <<Param(x), Param(<<"in", "dex">>), X, Blk(<<e>>)>>),
     Node("while", <<>>, <<e, Blk(<<X>>)>>), Blk(<<e>>),
     Node("if_stmt", <<"if">>, <<e, Blk(<<X>>)>>), Node("if_stmt", <<"unless">>, <<X, Blk(<<e>>), Y, Blk(<<>>), Blk(<<e>>)>>),
     Node("if_stmt", <<"case">>, <<e, Blk(<<X>>), X, Blk(<<e>>)>>),
     Node("switch_stmt", <<>>, <<e, Node("values", <<>>, <<X, Y>>), Blk(<<e>>), Blk(<<X>>)>>)}

(* Types, as the type of a parameter, of a result and of a new object. *)
Types ==
    LET in(t) == {t, Node("primary_type", <<"array">>, <<Node("pointer_type", <<>>, <<t>>)>>), Node("maybe_type", <<>>, <<t>>),
                  Node("tuple_type", <<>>, <<t, T(y)>>), Node("dict_type", <<>>, <<T(y), t>>),
                  Node("func_type", <<>>, <<t, Node("returns", <<>>, <<T(y)>>)>>), Node("func_type", <<>>, <<t>>),
                  Node("primary_type", x, <<t>>), Node("array_type", <<>>, <<t>>), Node("pointer_type", <<>>, <<t>>)}
    IN  UNION {in(T(n)) : n \in {x, <<"pointer", "x">>, <<"string">>, <<"array">>, <<"string", "x">>}} \cup
        {Node("primary_type", n, <<T(x)>>) : n \in {<<"array">>, <<"string">>, <<"array", "x">>}} \cup {Node("any_func_type", <<>>, <<>>), Node("typeof_type", <<>>, <<X>>),
                           Node("array_type", <<>>, <<>>), Node("tuple_type", <<>>, <<>>)}

Func(kind, name, parts, b) == Node("function", name, <<Node("kind", kind, <<>>)>> \o Append(parts, b))
Returns(t) == Node("returns", <<>>, <<t>>)
WithTypes(t) ==
    {Node("inu", <<>>, <<Func(<<"func">>, <<"main">>, <<Node("param", x, <<t>>), Returns(t)>>, Blk(<<New(t, <<Y>>)>>))>>)}
Public(n) == [n EXCEPT !.c = Append(@, Node("public", <<>>, <<>>))]
Private(n) == [n EXCEPT !.c = Append(@, Node("private", <<>>, <<>>))]
Class(parts) == Node("class", x, parts)
Definitions ==
    {<<Func(<<"proc">>, op, <<Param(x)>>, Blk(<<Ret(X)>>))>> : op \in {<<"+">>, <<"[", "]">>, <<"[", "]", "=">>, <<"=", "=">>, <<"x", "?">>}}
    \cup {<<Func(<<"func">>, <<"main">>, <<>>, Blk(<<>>)), Node("import", <<"x", ".", "y">>, <<>>)>>,
          <<Node("function", <<"f">>, <<Node("kind", <<"func">>, <<>>), Blk(<<X>>), Blk(<<Y>>)>>)>>,
          <<Init1(<<Decl(x, <<T(y)>>), Decl(y, <<>>)>>, <<X, Y>>)>>,
          <<Class(<<Public(Decl(x, <<Mut, T(y)>>)), Private(Decl(y, <<Mut>>)),
                    Node("function", <<"dachs.init">>, <<Param(<<"@", "x">>), Blk(<<Y>>)>>),
                    Node("function", <<"dachs.copy">>, <<Blk(<<X>>)>>),
                    Node("function", <<"dachs.conv">>, <<Returns(T(y)), Blk(<<X>>)>>),
                    Public(Func(<<"func">>, y, <<>>, Blk(<<X>>))), Private(Func(<<"proc">>, <<"main">>, <<Param(x)>>, Blk(<<>>)))>>),
            Node("import", x, <<>>)>>}

L1(sp, nl, cmd, blk) == [sp |-> sp, nl |-> nl, cmd |-> cmd, blk |-> blk]
Tight == L1(FALSE, ";", FALSE, "arg")
Wide == L1(TRUE, "\n", FALSE, "brace")
Command == L1(TRUE, ";", TRUE, "do")
All == {Tight, Wide, Command}

BinaryOps == UNION {Levels[i] : i \in DOMAIN Levels}
Pairs ==
    {Bin(p, Bin(q, X, Y), X) : p \in BinaryOps, q \in BinaryOps} \cup {Bin(p, X, Bin(q, X, Y)) : p \in BinaryOps, q \in BinaryOps}
Inner == {Bin(<<"+">>, X, Y), Un(<<"-">>, X), Node("typed", <<>>, <<X, T(x)>>), Ufcs(X, <<Y>>), Lam(<<Param(x)>>, Blk(<<Ret(Y)>>)),
          Call(X, <<Lam(<<>>, Blk(<<Y, Ret(X)>>))>>), Node("tuple", <<>>, <<>>),
          Node("if_expr", <<"if">>, <<X, Bl(<<>>, X), Bl(<<>>, Y)>>)}
Few == {X, V(<<"do", "g">>), V(<<"end", "s">>), V(<<"as", "x">>), Node("string", x, <<>>), Node("int", <<"1">>, <<>>)}
Trees ==
    ({Body(<<e>>) : e \in UNION {Shapes(l) : l \in Leaves}} \X {Tight})
    \cup ({Body(<<e>>) : e \in UNION {Shapes(l) : l \in Few}} \X {Command})
    \cup ({Body(<<e>>) : e \in Pairs \cup UNION {Shapes(l) : l \in {X} \cup Inner}} \X {Wide})
    \cup ({Body(<<s, Y>>) : s \in UNION {Statements(e) : e \in {X, V(<<"end", "s">>), Ufcs(X, <<Y>>), Node("symbol", <<"string">>, <<>>)}}}
          \X All)
    \cup ((UNION {WithTypes(t) : t \in Types}) \X {Tight, Wide})
Defined == {Node("inu", <<>>, d) : d \in Definitions}
MCSources ==
    {Append(s, "parse") : s \in Trees} \cup (Defined \X {Tight, Wide} \X {"parse", "check"})
=============================================================================
