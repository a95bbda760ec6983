----------------------------- MODULE MCClasses -----------------------------
(***************************************************************************)
(* Four families of programs: constructors of a class with declared types, *)
(* with all bodies of up to MaxBody statements, for the order of           *)
(* initializations and uses; the same with one type left open, inferred or *)
(* specified by the construction; the same with two open types, one of     *)
(* them a class; and two class templates that construct each other, with   *)
(* all sequences of up to MaxMain constructions.                           *)
(***************************************************************************)
EXTENDS ClassesMeaning

CONSTANTS MaxBody, MaxMain

Var(name, written) == [name |-> name, written |-> written]
Param(name, written) == [name |-> name, init |-> FALSE, written |-> written]
InitParam(name, written) == [name |-> name, init |-> TRUE, written |-> written]
Ctor(params, body) == [params |-> params, body |-> body]
Class(name, variables, ctors) == [name |-> name, vars |-> variables, ctors |-> ctors]

Ref(name) == Node("var_ref", <<name>>, <<>>)
Self == Ref("self")
At(name) == Node("ufcs", <<name>>, <<Self>>)
Plus(l, r) == Node("binary", <<"+">>, <<l, r>>)
Call(name, args) == Node("call", <<name>>, args)
New(name, args) == Node("new", <<name>>, args)
NewOf(name, types, args) == Node("new", <<name>> \o types, args)
One == Node("int", <<>>, <<>>)
Half == Node("float", <<>>, <<>>)
Set(name, e) == Node("init", <<"@", name>>, <<e>>)
Let(name, e) == Node("init", <<name>>, <<e>>)
If(s) == Node("if", <<>>, <<s>>)
Return == Node("return", <<>>, <<>>)

-----------------------------------------------------------------------------
(* class C: n, k : int and d : D, constructed with an int p.                *)
Statements ==
    {Set("n", One), Set("k", At("n")), Set("k", Plus(At("n"), Ref("p"))), Set("d", New("D", <<>>)),
     Let("x", At("n")), Let("x", Plus(At("n"), At("k"))), Let("x", Call("g", <<Ref("p"), At("n")>>)),
     Let("y", Self), Let("z", Call("get", <<Self>>)), Let("w", At("d")), If(Set("n", One)), If(Set("n", Half)), If(Return)}
Stmts(n) == UNION {[1..m -> Statements] : m \in 0..n}
CheckedClasses ==
    {<<Class("E", <<Var("e", "int")>>, <<Ctor(<<>>, <<Set("e", One)>>)>>),
       Class("D", dvars, dctors),
       Class("C", <<Var("n", "int"), Var("k", "int"), Var("d", "D")>>, <<Ctor(params, body)>>)>> :
         dvars \in {<<Var("v", "int")>>}, dctors \in {<<Ctor(<<>>, <<Set("v", One)>>)>>},
         params \in {<<Param("p", "int")>>, <<InitParam("n", ""), Param("p", "")>>}, body \in Stmts(MaxBody)}
    \cup
    {<<Class("E", <<Var("e", "int")>>, <<Ctor(<<>>, <<Set("e", One)>>)>>),
       Class("D", <<Var("v", "E")>>, dctors),
       Class("C", <<Var("n", "int"), Var("d", "D")>>, <<Ctor(<<Param("p", "int")>>, body)>>)>> :
         dctors \in {<<>>, <<Ctor(<<Param("v", "int")>>, <<>>)>>}, body \in {<<>>, <<Set("d", New("D", <<>>))>>, <<Set("d", New("D", <<One>>))>>}}
Checked ==
    {[classes |-> classes, funcs |-> {[name |-> "get", reads |-> "k"]},
      main |-> <<New("C", IF Len(Last(classes).ctors[1].params) = 2 THEN <<One, One>> ELSE <<One>>)>>] : classes \in CheckedClasses}

(* class C: n, k : int and d : D, where n may be an int or a float.         *)
OpenStatements ==
    {Set("n", One), Set("n", Ref("p")), Set("k", At("n")), Set("d", New("D", <<>>)), Let("x", At("n")), Let("w", At("d")), If(Return)}
OpenClasses ==
    {<<Class("D", <<Var("v", "int")>>, dctors),
       Class("C", <<Var("n", ""), Var("k", "int"), Var("d", "D")>>, <<Ctor(params, body)>>)>> :
         dctors \in {<<>>, <<Ctor(<<>>, <<Set("v", One)>>)>>},
         params \in {<<Param("p", "int")>>, <<Param("p", "")>>, <<InitParam("n", ""), Param("p", "")>>},
         body \in UNION {[1..m -> OpenStatements] : m \in 0..MaxBody}}
Given(class) == [a \in DOMAIN class.ctors[1].params |-> One]
OpenMains(class) ==
    {<<New("C", Given(class)), New("C", [a \in DOMAIN class.ctors[1].params |-> e])>> : e \in {One, Half}}
    \cup {<<NewOf("C", <<"int">>, Given(class))>>,
          <<NewOf("C", <<"int">>, Given(class)), New("C", Given(class))>>,
          <<New("C", Given(class)), NewOf("C", <<"float">>, Given(class))>>}
Open == UNION {{[classes |-> classes, funcs |-> {}, main |-> main] : main \in OpenMains(classes[2])} : classes \in OpenClasses}

(* class C: a and b, whose types the construction gives when no statement   *)
(* of the constructor does.                                                 *)
GivenStatements == {Set("a", One), Set("b", New("D", <<>>)), Let("x", At("a")), Let("w", At("b")), If(Return)}
GivenClasses ==
    {<<Class("D", <<Var("v", "int")>>, dctors), Class("C", <<Var("a", ""), Var("b", "")>>, <<Ctor(<<>>, body)>>)>> :
       dctors \in {<<>>, <<Ctor(<<Param("v", "int")>>, <<Set("v", Ref("v"))>>)>>},
       body \in UNION {[1..m -> GivenStatements] : m \in 0..MaxBody}}
GivenMains ==
    {<<NewOf("C", types, <<>>)>> : types \in {<<"int", "D">>, <<"int", "int">>, <<"D", "D">>, <<"int">>}}
    \cup {<<New("C", <<>>), NewOf("C", <<"int", "D">>, <<>>)>>, <<NewOf("C", <<"int", "D">>, <<>>), New("C", <<>>)>>}
GivenTypes == UNION {{[classes |-> classes, funcs |-> {}, main |-> main] : main \in GivenMains} : classes \in GivenClasses}

-----------------------------------------------------------------------------
(* class A: a, and class B: v.                                              *)
ACtors ==
    {<<>>,
     <<Ctor(<<InitParam("a", "")>>, <<>>)>>,
     <<Ctor(<<Param("x", "")>>, <<Set("a", Ref("x")), Let("z", Plus(At("a"), Ref("x")))>>)>>,
     <<Ctor(<<>>, <<Set("a", One)>>), Ctor(<<InitParam("a", "")>>, <<>>)>>,
     <<Ctor(<<Param("x", "")>>, <<Set("a", New("B", <<Ref("x")>>))>>)>>,
     <<Ctor(<<Param("x", "int")>>, <<Set("a", Half)>>), Ctor(<<Param("x", "")>>, <<Set("a", Ref("x"))>>)>>,
     <<Ctor(<<InitParam("a", "")>>, <<>>), Ctor(<<InitParam("a", ""), Param("x", "")>>, <<Let("y", New("B", <<Ref("x")>>))>>)>>,
     <<Ctor(<<InitParam("a", "")>>, <<>>), Ctor(<<InitParam("a", ""), Param("x", "")>>, <<Let("y", New("A", <<Half>>))>>)>>,
     <<Ctor(<<InitParam("a", "")>>, <<>>), Ctor(<<Param("x", "")>>, <<>>)>>,
     <<Ctor(<<InitParam("a", "int")>>, <<>>), Ctor(<<InitParam("a", "float"), Param("x", "int")>>, <<>>)>>,
     <<Ctor(<<Param("x", "")>>, <<Let("y", New("B", <<Ref("x")>>)), Set("a", Ref("y"))>>)>>}
BClasses ==
    {Class("B", <<Var("v", "")>>, <<>>), Class("B", <<Var("v", "int")>>, <<>>),
     Class("B", <<Var("v", ""), Var("u", "int")>>, <<Ctor(<<Param("x", "")>>, <<Set("v", Ref("x"))>>)>>),
     Class("B", <<Var("v", "")>>, <<Ctor(<<Param("x", "")>>, <<Set("v", New("A", <<Ref("x")>>))>>)>>)}
Constructions ==
    {New("A", <<One>>), New("A", <<Half>>), New("A", <<>>), New("A", <<One, One>>), New("B", <<One>>), New("B", <<Half>>),
     New("A", <<New("B", <<One>>)>>), NewOf("A", <<"int">>, <<One>>), NewOf("A", <<"float">>, <<One>>)}
(* When both construct each other from one argument the type has no end.   *)
Endless(ctors, b) ==
    /\ \E c \in ToSet(b.ctors) : "A" \in UNION {Constructs(s) : s \in ToSet(c.body)}
    /\ \E c \in ToSet(ctors) : Len(c.params) = 1 /\ "B" \in UNION {Constructs(s) : s \in ToSet(c.body)}
Templates ==
    {[classes |-> <<Class("A", <<Var("a", "")>>, pair[1]), pair[2]>>, funcs |-> {}, main |-> main] :
       pair \in {q \in ACtors \X BClasses : ~ Endless(q[1], q[2])},
       main \in UNION {[1..m -> Constructions] : m \in 0..MaxMain}}

MCPrograms == <<Checked, Open, GivenTypes, Templates>>
=============================================================================
