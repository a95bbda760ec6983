--------------------------- MODULE MCFuncAnalysis ---------------------------
(***************************************************************************)
(* Programs for FuncAnalysis.                                              *)
(***************************************************************************)
EXTENDS FuncAnalysis

MCBases == {"none", "param", "unit", "bool", "template", "int"}
int == any_type("int", 0)
T == any_type("template", 0)
Ptr(t) == any_type(t.base, t.ptr + 1)

Lit(form, t) == [form |-> form, call |-> "none", args |-> <<t>>]
Call(form, name, args) == [form |-> form, call |-> name, args |-> args]
Func(name, params, body) ==
    [name |-> name, kind |-> "func", params |-> params, declared |-> NoType,
     query |-> FALSE, body |-> body]
Main(body) == Func("main", <<>>, body)

(* Two functions without parameters that return, or may return, a literal  *)
(* or what f or g returns, with every way to declare them: direct and      *)
(* mutual recursion, before and behind the return that decides.            *)
Early == {<<>>, <<Lit("maybe", int)>>, <<Call("maybe", "f", <<>>)>>,
          <<Call("maybe", "g", <<>>)>>, <<Call("do", "f", <<>>)>>}
Late == {<<>>, <<Lit("ret", int)>>, <<Lit("ret", Ptr(int))>>,
         <<Call("ret", "f", <<>>)>>, <<Call("ret", "g", <<>>)>>}
Bodies == {a \o b : a \in Early, b \in Late}
Declared(f, types) ==
    {[f EXCEPT !.declared = t] : t \in types} \cup {[f EXCEPT !.kind = "proc"]}
Recursive(types) ==
    {<<f, g, Main(<<Call("do", "f", <<>>)>>)>> :
        f \in UNION {Declared(Func("f", <<>>, b), types) : b \in Bodies},
        g \in UNION {Declared(Func("g", <<>>, b), types) : b \in Bodies}}

(* Two overloads of f, a template g, and calls of both with several types   *)
(* from main, from each other and from themselves.                          *)
Params1 == {<<T>>, <<Ptr(T)>>, <<Ptr(Ptr(T))>>, <<int>>, <<Ptr(int)>>}
TemplateBodies == {<<Lit("ret", Param)>>, <<Lit("maybe", int), Call("ret", "f", <<Param>>)>>,
                   <<Call("ret", "g", <<Param>>)>>}
Template ==
    {<<Main(<<Call("do", "f", <<a>>), Call("do", n, <<b>>)>>), Func("f", p, fb),
       Func("f", q, <<Lit("ret", int)>>), Func("g", <<T>>, gb)>> :
        a \in {int, Ptr(int)}, b \in {int, Ptr(Ptr(int))}, n \in {"f", "g"},
        p \in Params1, q \in Params1, fb \in TemplateBodies, gb \in TemplateBodies}

(* Three overloads with two parameters, in every order.                     *)
Params2 == {<<p, q>> : p \in {T, Ptr(T), Ptr(Ptr(T)), Ptr(Ptr(int))}, q \in {T, Ptr(T), int}}
Overloads ==
    {<<Func("f", p, <<>>), Func("f", q, <<>>), Func("f", r, <<>>),
       Main(<<Call("do", "f", <<Ptr(Ptr(int)), a>>)>>)>> :
        p \in Params2, q \in Params2, r \in Params2, a \in {int, Ptr(int)}}

(* Programs without main, with two, with a wrong one, that call main or a  *)
(* function that is not there, procedures that return, names with `?'.     *)
Query(f, k) == [f EXCEPT !.query = TRUE, !.kind = k]
Proc(body) == [Func("f", <<>>, body) EXCEPT !.kind = "proc"]
Odd ==
    LET empty == Main(<<>>)
        callsMain == Func("f", <<>>, <<Call("ret", "main", <<>>)>>)
    IN  {<<Func("f", <<>>, <<>>)>>, <<empty, Func("main", <<int>>, <<>>)>>, <<Func("main", <<int>>, <<>>)>>,
         <<callsMain, empty>>, <<Proc(<<Lit("ret", unit)>>), empty>>,
         <<Proc(<<Lit("maybe", unit), Lit("ret", unit)>>), empty>>, <<Main(<<Call("do", "h", <<>>)>>)>>,
         <<Main(<<Call("do", "f?", <<>>)>>), Query(Func("f?", <<>>, <<>>), "proc")>>,
         <<Main(<<Call("do", "f?", <<int>>)>>), Query(Func("f?", <<T>>, <<>>), "proc")>>,
         <<Query(Func("f?", <<>>, <<Lit("ret", boolean)>>), "func"), empty>>,
         <<Query(Func("f?", <<>>, <<Lit("ret", int)>>), "func"), empty>>}

Distinct(S) == {p \in S : IsProgram(p)}
MCPrograms == Recursive({NoType, int, Ptr(T)}) \cup Distinct(Template)
              \cup Distinct(Overloads) \cup Odd
=============================================================================
