---------------------------- MODULE MCConstCheck ----------------------------
(***************************************************************************)
(* main, two member functions of C and one of D.  The first member         *)
(* function has all bodies of up to MaxBody different statements, the      *)
(* second all bodies of one behind an optional return.  And main with      *)
(* three member functions of C, for functions that call each other while   *)
(* one is walked.                                                          *)
(***************************************************************************)
EXTENDS ConstMeaning

CONSTANT MaxBody

Ref(name) == Node("var_ref", <<name>>, <<>>)
Self == Ref("self")
One == Node("int", <<>>, <<>>)
Dot(e, member) == Node("ufcs", <<member>>, <<e>>)
At(e) == Node("index", <<>>, <<e, One>>)
Call(name, e) == Node("call", <<name>>, <<e>>)
Assign(l, r) == Node("assign", <<>>, <<l, r>>)
Return == Node("return", <<>>, <<One>>)
Func(name, class, declared, body) == [name |-> name, class |-> class, declared |-> declared, body |-> body]

Common(other) ==
    {Assign(Dot(Self, "n"), One), Assign(Dot(Dot(Self, "d"), "m"), One), Assign(Dot(Ref("v"), "n"), One),
     Assign(At(Dot(Self, "a")), One), Assign(Dot(Self, "n"), Call(other, Self)),
     Call(other, Self), Dot(Self, other), Call("print", Call(other, Self)), Call(other, Ref("v")),
     Call("set", Dot(Self, "d")), Return}
Bodies(statements, n) == {b \in UNION {[1..m -> statements] : m \in 0..n} : IsInjective(b)}
Fs == {Func("f", "C", declared, body) : declared \in BOOLEAN, body \in Bodies(Common("g") \cup {Call("f", Self)}, MaxBody)}
Gs == {Func("g", "C", declared, body) :
         declared \in BOOLEAN,
         body \in {<<s>> : s \in Common("f")} \cup {<<Return, s>> : s \in Common("f") \ {Return}} \cup {<<>>}}
Set == Func("set", "D", FALSE, <<Assign(Dot(Self, "m"), One)>>)
Mains ==
    {<<Call("f", Ref("c"))>>, <<Call("g", Ref("v")), Dot(Ref("c"), "f")>>, <<Call("set", Dot(Ref("c"), "d"))>>,
     <<Call("f", Call("make", Ref("v")))>>}

Mixed == {<<Func("main", "", FALSE, main), f, g, Set>> : main \in Mains, f \in Fs, g \in Gs}

Nested(name, others) ==
    {Func(name, "C", declared, body) :
       declared \in BOOLEAN,
       body \in Bodies({Call(other, Self) : other \in others} \cup {Return, Assign(Dot(Self, "n"), One)}, MaxBody + 1)}
Modify == Func("h", "C", FALSE, <<Assign(Dot(Self, "n"), One)>>)
Circles ==
    {<<Func("main", "", FALSE, <<Call(called, Ref(on))>>), f, g, Modify>> :
       called \in {"f", "g"}, on \in {"c", "v"}, f \in Nested("f", {"g", "h"}), g \in Nested("g", {"f", "h"})}

MCPrograms == <<Mixed, Circles>>
=============================================================================
