--------------------------- MODULE ScopesMeaning ---------------------------
(***************************************************************************)
(* What the names of a program mean, read off the tree in one pass, and    *)
(* what the code generator makes of the scopes, captures and receivers     *)
(* that the analyzers leave behind.                                        *)
(***************************************************************************)
EXTENDS Scopes

(* ---- the reference: static scoping ----                                  *)
(* e.env binds the names in sight, e.own are those of the innermost scope,  *)
(* e.refs collects what every reference means, e.dup is set by a second     *)
(* declaration in one scope.                                                *)
Declare(e, name, n) ==
    IF name = <<"_">> THEN e
    ELSE Eager(LAMBDA x : [x EXCEPT !.env = Put(@, name, n), !.own = @ \cup {name}, !.dup = @ \/ name \in x.own], e)
Refer(e, name, n) ==
    [e EXCEPT !.refs = Put(@, n, IF name \in DOMAIN e.env THEN e.env[name] ELSE None)]

RECURSIVE Lex(_, _, _)
LexOf(t, n, e) ==
    LET child(i) == Append(n, i)
        some(ks, e0) == FoldLeft(LAMBDA x, i : IF t.c[i].k \in ks THEN Lex(t.c[i], child(i), x) ELSE x, e0, InOrder(t))
        others(ks, e0) == FoldLeft(LAMBDA x, i : IF t.c[i].k \notin ks THEN Lex(t.c[i], child(i), x) ELSE x, e0, InOrder(t))
        back(x) == [x EXCEPT !.env = e.env, !.own = e.own]
        params(e0) == FoldLeft(LAMBDA x, i : IF t.c[i].k = "param" THEN Declare(x, t.c[i].v, child(i)) ELSE x, e0, InOrder(t))
        fresh(x) == [x EXCEPT !.own = {}]
        body  == Len(t.c)
    IN  CASE t.k = "var_ref" -> IF Ignored(n) THEN e ELSE Refer(e, t.v, n)
          [] t.k = "init" ->
               FoldLeft(LAMBDA x, i : IF t.c[i].k = "var_decl" THEN Declare(x, t.c[i].v, child(i)) ELSE x,
                        some({"rhs"}, e), InOrder(t))
          [] t.k \in {"block", "block_expr"} -> back(others({}, fresh(e)))
          [] t.k = "function" -> back(some({"block"}, params(fresh(e))))
          [] t.k = "for" ->
               LET range == others({"param", "block"}, e)
                   b     == t.c[body]
               IN  back(FoldLeft(LAMBDA x, i : Lex(b.c[i], Append(child(body), i), x), params(fresh(range)), InOrder(b)))
          [] t.k = "inu" ->
               LET fs == FoldLeft(LAMBDA x, i : IF t.c[i].k = "function" THEN [x EXCEPT !.env = Put(@, t.c[i].v, child(i))] ELSE x,
                                  e, InOrder(t))
               IN  some({"function"}, some({"init"}, fs))
          [] OTHER -> others({}, e)
Lex(t, n, e) == Eager(LAMBDA x : LexOf(t, n, x), e)
Meaning == Lex(roots[1], <<1>>, [env |-> <<>>, own |-> {}, refs |-> <<>>, dup |-> FALSE])

(* A node of a copy, back in the program.                                   *)
RECURSIVE Original(_)
Original(n) == IF n[1] <= 1 THEN n ELSE Original(copies[n[1]].of \o Tail(n))

(* ---- the code generator ----                                             *)
Functions == {n \in DOMAIN scopes : scopes[n].kind = "func"}
FrameOf(n) ==
    LET around == {f \in Functions : f = n \/ Under(n, f)}
    IN  IF around = {} THEN Global ELSE CHOOSE f \in around : \A g \in around : Len(g) <= Len(f)

(* A reference stands for a variable of the function it is in, for a        *)
(* function, or for an element of the receiver, which was filled in where   *)
(* the lambda is.  An access the captures of the lambda's type do not list  *)
(* is the unit value; a variable of another function is no value at all.    *)
Unit == <<0, 1>>
Foreign == <<0, 2>>
EmitVarRef(n) ==
    LET place == IF Len(n) > 2 /\ n[Len(n) - 1] = 0 THEN SubSeq(n, 1, Len(n) - 2) ELSE n
    IN  IF is_global(bound[n]) \/ FrameOf(place) = FrameOf(bound[n]) THEN bound[n] ELSE Foreign
RECURSIVE Value(_)
Value(n) ==
    LET a == access[n]
    IN  CASE n \notin DOMAIN access -> EmitVarRef(n)
          [] n \in DOMAIN access /\ captures[a.lambda].def # a.def -> Unit
          [] OTHER -> Value(Element(a.lambda, a.offset))

(* ---- what the code does not get right ----                               *)
Nodes(t) ==
    LET RECURSIVE below(_, _)
        below(u, n) == {n} \cup UNION {below(u.c[i], Append(n, i)) : i \in DOMAIN u.c}
    IN  below(t, <<1>>)
AllNodes == Nodes(roots[1])
Ofkind(k) == {n \in AllNodes : Tree(n).k = k}
Before(n, m) ==    \* in the order of the text
    \E i \in 1..Len(n) : i <= Len(m) /\ n[i] < m[i] /\ SubSeq(n, 1, i - 1) = SubSeq(m, 1, i - 1)
Lambdas == Ofkind("lambda")

(* An undeclared name, two declarations in one scope, or an assignment that *)
(* does not come out even.                                                  *)
IllFormed(M) ==
    \/ M.dup
    \/ \E n \in DOMAIN M.refs : M.refs[n] = None
    \/ \E n \in Ofkind("assign") : Len(Tree(n).c[2].c) \notin {1, Len(Tree(n).c[1].c)}

Free(M, l) == {n \in DOMAIN M.refs : Under(n, l) /\ ~ Under(M.refs[n], l)}
CaptureOf(M, l) == {n \in Free(M, l) : M.refs[n] # None /\ ~ is_global(M.refs[n])}
BlockOf(n) == {b \in Ofkind("block") \cup Ofkind("block_expr") : Under(n, b)}
DeclaredIn(b, name) ==
    {d \in Ofkind("var_decl") \cup Ofkind("param") :
        Tree(d).v = name /\ (Parent(Parent(d)) = b \/ (Parent(d) = Parent(b) /\ Tree(Parent(b)).k = "for"))}

(* A captured name is declared in a scope of the lambda behind its use:     *)
(* capture_checker goes by the name alone.                                  *)
RedeclaredBehind(M) ==
    \E l \in Lambdas : \E r \in Free(M, l) : \E b \in BlockOf(r) : Under(b, l) /\ DeclaredIn(b, Tree(r).v) # {}
(* A template lambda is bound when it is called, so that it sees what has   *)
(* been declared around it since.                                           *)
DeclaredSince(M) ==
    \E l \in Lambdas : \E r \in Free(M, l) : \E b \in BlockOf(l) :
        is_template(Append(l, 1)) /\ \E d \in DeclaredIn(b, Tree(r).v) : ~ Before(d, l)
(* The captures of a template lambda with two instances are those of the    *)
(* last one.                                                                *)
SharedCaptures(M) ==
    \E l \in Lambdas : Cardinality({k \in 2..Len(roots) : Original(copies[k].of) = Append(l, 1)}) > 1 /\ CaptureOf(M, l) # {}
(* Functions are walked before the constants they use are declared.         *)
UsesConstant(M) ==
    \E n \in DOMAIN M.refs :
        LET d == M.refs[n]
        IN  d # None /\ FrameOf(n) # Global /\ Len(d) = 3 /\ Tree(d).k = "var_decl"
(* One expression is assigned to several variables: it is walked, and       *)
(* declares, once for each.                                                 *)
SharedTuple ==
    \E n \in Ofkind("assign") : Len(Tree(n).c[1].c) > 1 /\ Len(Tree(n).c[2].c) = 1
        /\ \E m \in Ofkind("var_decl") \cup Lambdas : Under(m, n)
(* The scope of a function's body goes when it has an ensure clause, the    *)
(* scope of a block in the value of a constant at once.                     *)
UnownedScope ==
    \/ \E n \in Ofkind("function") : Cardinality(Kids(Tree(n), {"block"})) = 2
    \/ \E n \in Ofkind("block_expr") : FrameOf(n) = Global

-----------------------------------------------------------------------------
(* Properties *)

(* In the code that is generated for an accepted program every reference    *)
(* that was analyzed, through whatever receivers it has to go, is the       *)
(* variable that static scoping gives it.                                   *)
RefersLexically ==
    stage = "done" => \A M \in {Meaning} :
        ~ RedeclaredBehind(M) /\ ~ DeclaredSince(M) /\ ~ SharedCaptures(M) =>
            \A n \in DOMAIN bound : Original(n) \in DOMAIN M.refs => Original(Value(n)) = M.refs[Original(n)]

(* Only programs with an undeclared name, a second declaration in one scope *)
(* or an uneven assignment are rejected.                                    *)
RejectsOnlyIllFormed ==
    stage = "rejected" => \A M \in {Meaning} : ~ UsesConstant(M) /\ ~ SharedTuple => IllFormed(M)

(* The analyzers never follow a pointer to a scope or a definition that is  *)
(* gone.                                                                    *)
PointersLive == stage = "crashed" => UnownedScope \/ SharedTuple
=============================================================================
