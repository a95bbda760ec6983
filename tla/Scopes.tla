------------------------------- MODULE Scopes -------------------------------
(***************************************************************************)
(* Names, scopes and lambdas in the C++ compiler: the forward analyzer     *)
(* builds the scope tree, the symbol analyzer walks the syntax tree and    *)
(* binds every name at the moment it meets it, templates are copied and    *)
(* walked when they are called, and in the end the lambda resolver turns   *)
(* the variables a lambda uses from outside into elements of a receiver.   *)
(*                                                                         *)
(* A node is identified by the tree it is in (1 is the program, the others *)
(* are instances of templates) and its path.  A scope is identified by its *)
(* node, a symbol by the node that declares it.                            *)
(***************************************************************************)
EXTENDS SyntaxTree, FiniteSets, TLC

CONSTANT Programs          \* trees of kind inu

VARIABLES
    roots,      \* the program and the copies copy_ast made of templates
    copies,     \* for each of them the definition it is a copy of and the argument types
    stage,
    todo,       \* what the walk of the symbol analyzer has still to visit
    cur,        \* symbol_analyzer::current_scope
    scopes,     \* the scope tree
    lost,       \* scopes nothing owns: the weak pointer in the node has expired
    failed,
    visited,    \* already_visited_functions
    bound,      \* var_ref::symbol
    funcs,      \* the function a symbol of generic function type stands for
    lambdas,    \* symbol_analyzer::lambdas
    captures,   \* lambda_captures_type
    access,     \* the references that became accesses to a capture
    receiver    \* lambda_expr::receiver
vars == <<roots, copies, stage, todo, cur, scopes, lost, failed, visited, bound, funcs, lambdas,
          captures, access, receiver>>

Global == <<>>
None == <<0>>
Put(f, k, v) == (k :> v) @@ f
Eager(F(_), v) == CHOOSE r \in {F(w) : w \in {v}} : TRUE    \* F(v), with v evaluated once
Under(n, m) == Len(n) > Len(m) /\ SubSeq(n, 1, Len(m)) = m
Tree(n) == FoldLeft(LAMBDA t, i : t.c[i], roots[n[1]], Tail(n))
Kids(t, ks) == {i \in DOMAIN t.c : t.c[i].k \in ks}

-----------------------------------------------------------------------------
(* The order in which the walker visits the children of a node.  When      *)
(* several variables are assigned from one expression, every element of    *)
(* the tuple is taken from the same node, which is visited for each.       *)
InOrder(t) == [i \in DOMAIN t.c |-> i]
break_up_always(t) ==    \* mutant: also when every variable has an expression of its own
    [i \in DOMAIN t.c[1].c |-> 2]
break_up_tuple_access(t) ==
    IF Len(t.c[2].c) = 1 THEN [i \in DOMAIN t.c[1].c |-> 2] ELSE <<2>>
Order(t) ==
    CASE t.k = "binary" -> <<2, 1>>
      [] t.k = "init" /\ Last(t.c).k = "rhs" -> <<Len(t.c)>> \o [i \in 1..Len(t.c) - 1 |-> i]
      [] t.k = "assign" -> break_up_tuple_access(t) \o <<1>>
      [] OTHER -> InOrder(t)
Event(op, at) == [op |-> op, at |-> at]

(* The visits of a walk.  The walker does not look into a lambda.           *)
RECURSIVE Walk(_, _)
Walk(t, n) ==
    LET kids == FlattenSeq([i \in DOMAIN Order(t) |-> Walk(t.c[Order(t)[i]], Append(n, Order(t)[i]))])
    IN  CASE t.k \in {"function", "block", "block_expr"} -> <<Event("enter", n)>> \o kids \o <<Event("leave", n)>>
          [] t.k = "var_decl" -> <<Event("decl", n)>> \o kids
          [] t.k = "var_ref" -> <<Event("ref", n)>>
          [] t.k = "lambda" -> <<Event("lambda", n)>>
          [] t.k = "call" -> kids \o <<Event("call", n)>>
          [] OTHER -> kids

(* x += e has become x = x + e before it is walked, with a copy of x.       *)
RECURSIVE solve_compound_assign(_)
solve_compound_assign(t) ==
    LET c == [i \in DOMAIN t.c |-> solve_compound_assign(t.c[i])]
    IN  IF t.k = "assign" /\ t.v # <<"=">>
        THEN Node("assign", <<"=">>, <<c[1], Node("rhs", <<>>,
                 [i \in DOMAIN c[2].c |-> Node("binary", Front(t.v), <<c[1].c[i], c[2].c[i]>>)])>>)
        ELSE [t EXCEPT !.c = c]

-----------------------------------------------------------------------------
(* Scopes: the variables of a scope in the order they were defined.         *)
Var(name, n) == [name |-> name, sym |-> n]
Names(scope) == {scope.vars[i].name : i \in DOMAIN scope.vars}
define_symbol(scope, name, n) == [scope EXCEPT !.vars = Append(@, Var(name, n))]

RECURSIVE resolve_var(_, _)
resolve_var(name, s) ==
    LET hits == SelectSeq(scopes[s].vars, LAMBDA v : v.name = name)
    IN  CASE hits # <<>> -> hits[1].sym
          [] hits = <<>> /\ s = Global -> None
          [] OTHER -> resolve_var(name, scopes[s].up)

(* A parameter called _ gets a name no program can write.                   *)
Define_underscore(S, s, name, n) ==    \* mutant: _ is a name like any other
    IF name \in Names(S.scopes[s]) THEN [S EXCEPT !.failed = TRUE]
    ELSE [S EXCEPT !.scopes[s] = define_symbol(@, name, n)]
Define(S, s, name, n) ==
    CASE name = <<"_">> -> S
      [] name # <<"_">> /\ name \in Names(S.scopes[s]) -> [S EXCEPT !.failed = TRUE]
      [] OTHER -> [S EXCEPT !.scopes[s] = define_symbol(@, name, n)]

(* A new scope.  A node that is visited again gets a new one, and so does   *)
(* all that is below it.  A function keeps one body alive, a local scope    *)
(* the blocks and functions in it: a second function without parameters    *)
(* and of the same name is not kept.                                        *)
Fresh(kind, up) == [kind |-> kind, up |-> up, vars |-> <<>>, body |-> None]
IntroduceScope(t, n, up, S) ==
    LET again == n \in DOMAIN S.scopes
        under == {m \in DOMAIN S.scopes : Under(m, n)}
        old   == [m \in DOMAIN S.scopes \ under |-> S.scopes[m]]
        kind  == S.scopes[up].kind
    IN  CASE t.k = "function" ->
               [S EXCEPT !.scopes = Put(IF kind = "global" /\ t.v # <<>>
                                          THEN [old EXCEPT ![up] = define_symbol(@, t.v, n)] ELSE old,
                                        n, Fresh("func", up)),
                         !.lost = IF again /\ kind = "local" /\ Kids(t, {"param"}) = {} THEN @ \cup {n} ELSE @]
          [] t.k = "block" ->
               [S EXCEPT !.scopes = Put(IF kind = "func" THEN [old EXCEPT ![up].body = n] ELSE old,
                                        n, Fresh("local", up)),
                         !.lost = IF kind = "func" THEN @ \cup ({S.scopes[up].body} \ {None}) ELSE @]
          [] t.k = "block_expr" ->
               [S EXCEPT !.scopes = Put(old, n, Fresh("local", up)),
                         !.lost = IF kind = "local" THEN @ ELSE @ \cup {n}]

(* forward_symbol_analyzer: the scopes of the tree t at n, with the        *)
(* parameters of functions and the variables of for statements in them.    *)
RECURSIVE ForwardWalk(_, _, _, _)
ForwardVisit(t, n, up, S) ==
    LET scoped == t.k \in {"function", "block", "block_expr"}
        inner  == IF scoped THEN n ELSE up
        order  == IF t.k = "lambda" THEN <<1>> ELSE Order(t)
        walked == FoldLeft(LAMBDA s, i : ForwardWalk(t.c[i], Append(n, i), inner, s),
                           IF scoped THEN IntroduceScope(t, n, up, S) ELSE S, order)
    IN  CASE t.k = "param" /\ S.scopes[up].kind = "func" -> Eager(LAMBDA w : Define(w, up, t.v, n), walked)
          [] t.k = "for" ->
               FoldLeft(LAMBDA s, i : IF t.c[i].k # "param" THEN s
                                      ELSE Eager(LAMBDA w : Define(w, Append(n, Len(t.c)), t.c[i].v, Append(n, i)), s),
                        walked, InOrder(t))
          [] t.k = "assign" ->
               IF Len(t.c[1].c) # Len(t.c[2].c) /\ Len(t.c[2].c) # 1 THEN [S EXCEPT !.failed = TRUE] ELSE walked
          [] OTHER -> walked
ForwardWalk(t, n, up, S) == Eager(LAMBDA w : ForwardVisit(t, n, up, w), S)

dispatch_forward_analyzer(t, n, up) ==
    ForwardWalk(t, n, up, [scopes |-> scopes, lost |-> lost, failed |-> failed])

analyze_ast_node_forward ==
    /\ stage = "forward"
    /\ LET prog == solve_compound_assign(roots[1])
           S == dispatch_forward_analyzer(prog, <<1>>, Global)
       IN  /\ roots' = <<prog>>
           /\ scopes' = S.scopes
           /\ lost' = S.lost
           /\ failed' = S.failed
           /\ stage' = IF S.failed THEN "rejected" ELSE "analyze"
           /\ todo' = IF S.failed THEN <<>> ELSE Walk(prog, <<1>>)
    /\ UNCHANGED <<copies, cur, visited, bound, funcs, lambdas, captures, access, receiver>>

-----------------------------------------------------------------------------
(* symbol_analyzer *)
At(op) == stage = "analyze" /\ todo # <<>> /\ Head(todo).op = op
here == Head(todo).at
unresolved == <<captures, access, receiver>>

is_template(n) ==
    LET t == Tree(n)
    IN  n \notin {<<k>> : k \in 2..Len(roots)} /\ \E i \in Kids(t, {"param"}) : Kids(t.c[i], {"primary_type"}) = {}
Behind(n) ==    \* the rest of the walk behind the scope of n
    LET i == CHOOSE j \in DOMAIN todo : todo[j] = Event("leave", n) /\ \A k \in 1..j - 1 : todo[k] # Event("leave", n)
    IN  SubSeq(todo, i + 1, Len(todo))

(* introduce_scope_and_walk, with the pointer to the scope locked first.    *)
EnterScope ==
    /\ At("enter")
    /\ Tree(here).k = "function" => here \notin visited /\ ~ is_template(here)
    /\ stage' = IF here \in lost THEN "crashed" ELSE stage
    /\ cur' = here
    /\ todo' = Tail(todo)
    /\ visited' = IF Tree(here).k = "function" THEN visited \cup {here} ELSE visited
    /\ UNCHANGED <<roots, copies, scopes, lost, failed, bound, funcs, lambdas, unresolved>>

(* A function that was visited before, or a template, is not walked.        *)
SkipFunction ==
    /\ At("enter")
    /\ Tree(here).k = "function"
    /\ here \in visited \/ is_template(here)
    /\ visited' = visited \cup {here}
    /\ todo' = Behind(here)
    /\ UNCHANGED <<roots, copies, stage, cur, scopes, lost, failed, bound, funcs, lambdas, unresolved>>

LeaveScope ==
    /\ At("leave")
    /\ cur' = scopes[here].up
    /\ todo' = Tail(todo)
    /\ UNCHANGED <<roots, copies, stage, scopes, lost, failed, visited, bound, funcs, lambdas, unresolved>>

(* walk_recursively_with puts the scope of the caller back.                 *)
Return ==
    /\ At("back")
    /\ cur' = here
    /\ todo' = Tail(todo)
    /\ UNCHANGED <<roots, copies, stage, scopes, lost, failed, visited, bound, funcs, lambdas, unresolved>>

(* The function a variable gets from its initializer: a lambda, or what     *)
(* another variable stands for.                                             *)
Parent(n) == Front(n)
FunctionOf(n) ==
    LET t == Tree(n)
    IN  CASE t.k = "lambda" -> Append(n, 1)
          [] t.k = "var_ref" /\ n \in DOMAIN bound ->
               CASE Tree(bound[n]).k = "function" -> bound[n]
                 [] bound[n] \in DOMAIN funcs -> funcs[bound[n]]
                 [] OTHER -> None
          [] OTHER -> None
Initializer(n) ==
    LET init == Tree(Parent(n))
        rhs  == Append(Parent(n), Len(init.c))
    IN  IF Tree(rhs).k = "rhs" /\ Len(Tree(rhs).c) >= Last(n) THEN FunctionOf(Append(rhs, Last(n))) ELSE None

visit_variable_decl ==
    LET name == Tree(here).v
        S    == Define([scopes |-> scopes, failed |-> failed], cur, name, here)
    IN  /\ At("decl")
        /\ scopes' = S.scopes
        /\ failed' = S.failed
        /\ funcs' = IF Initializer(here) = None THEN funcs ELSE Put(funcs, here, Initializer(here))
        /\ todo' = Tail(todo)
        /\ UNCHANGED <<roots, copies, stage, cur, lost, visited, bound, lambdas, unresolved>>

(* The _ on the left of an assignment is not a variable.                    *)
Ignored(n) == Tree(n).v = <<"_">> /\ Tree(Parent(n)).k = "lhs"
visit_var_ref ==
    LET sym == resolve_var(Tree(here).v, cur)
    IN  /\ At("ref")
        /\ bound' = IF Ignored(here) \/ sym = None THEN bound ELSE Put(bound, here, sym)
        /\ failed' = (failed \/ (~ Ignored(here) /\ sym = None))
        /\ todo' = Tail(todo)
        /\ UNCHANGED <<roots, copies, stage, cur, scopes, lost, visited, funcs, lambdas, unresolved>>

(* The definition of a lambda is walked, then the lambda is registered.     *)
visit_lambda_expr ==
    /\ At("lambda")
    /\ todo' = Walk(Tree(Append(here, 1)), Append(here, 1)) \o <<Event("made", here)>> \o Tail(todo)
    /\ UNCHANGED <<roots, copies, stage, cur, scopes, lost, failed, visited, bound, funcs, lambdas, unresolved>>
LambdaMade ==
    /\ At("made")
    /\ lambdas' = Append(lambdas, here)
    /\ todo' = Tail(todo)
    /\ UNCHANGED <<roots, copies, stage, cur, scopes, lost, failed, visited, bound, funcs, unresolved>>

(* The types of literal arguments tell instances apart.                     *)
ArgTypes(t) == [i \in 1..Len(t.c) - 1 |-> t.c[i + 1].k]
Instances(f) == {k \in 2..Len(roots) : copies[k].of = f}
Callee(n) == FunctionOf(Append(n, 1))

(* A copy has nodes, and so scopes and symbols, of its own.                 *)
copy_ast(n) == Append(roots, Tree(n))

(* A call analyzes what it calls first, if that has not been done: a        *)
(* template is copied, the copy gets its scopes in the scope around the     *)
(* template and is walked there.                                            *)
instantiate_function_from_template ==
    LET f == Callee(here)
        k == Len(roots) + 1
        S == dispatch_forward_analyzer(Tree(f), <<k>>, scopes[f].up)
    IN  /\ At("call")
        /\ f # None /\ is_template(f)
        /\ \A i \in Instances(f) : copies[i].args # ArgTypes(Tree(here))
        /\ roots' = copy_ast(f)
        /\ copies' = Append(copies, [of |-> f, args |-> ArgTypes(Tree(here))])
        /\ scopes' = S.scopes
        /\ lost' = S.lost
        /\ failed' = S.failed
        /\ cur' = scopes[f].up
        /\ todo' = Walk(Tree(f), <<k>>) \o <<Event("back", cur)>> \o Tail(todo)
        /\ UNCHANGED <<stage, visited, bound, funcs, lambdas, unresolved>>

visit_func_invocation ==
    LET f == Callee(here)
        walk == f # None /\ ~ is_template(f) /\ f \notin visited
    IN  /\ At("call")
        /\ (f # None /\ is_template(f)) => \E i \in Instances(f) : copies[i].args = ArgTypes(Tree(here))
        /\ cur' = IF walk THEN Global ELSE cur
        /\ todo' = IF walk THEN Walk(Tree(f), f) \o <<Event("back", cur)>> \o Tail(todo) ELSE Tail(todo)
        /\ UNCHANGED <<roots, copies, stage, scopes, lost, failed, visited, bound, funcs, lambdas, unresolved>>

check_semantics ==
    /\ stage = "analyze"
    /\ todo = <<>>
    /\ stage' = IF failed THEN "rejected" ELSE "resolve"
    /\ todo' = IF failed THEN <<>> ELSE lambdas
    /\ UNCHANGED <<roots, copies, cur, scopes, lost, failed, visited, bound, funcs, lambdas, unresolved>>

-----------------------------------------------------------------------------
(* lambda_resolver *)
Name(sym) == Tree(sym).v
is_global(sym) == Tree(sym).k = "function"
Element(l, i) == l \o <<0, i>>    \* the i-th element of the receiver of l

(* capture_checker: a variable is captured if no scope from here up to the  *)
(* function of the lambda has one of its name.                              *)
RECURSIVE captured_shadowed(_, _, _)
captured_shadowed(sym, s, threshold) ==    \* mutant: the parameters of the lambda are not looked at
    IF s = threshold THEN TRUE
    ELSE /\ Name(sym) \notin Names(scopes[s])
         /\ captured_shadowed(sym, scopes[s].up, threshold)
RECURSIVE captured(_, _, _)
captured(sym, s, threshold) ==
    /\ Name(sym) \notin Names(scopes[s])
    /\ s = threshold \/ captured(sym, scopes[s].up, threshold)

(* lambda_capture_resolver: the references of a walk of d, those in the     *)
(* receivers of the lambdas in d included, each with the scope it is in.    *)
References(d, R) ==
    LET visit(w, e) ==
          CASE e.op = "enter" -> [w EXCEPT !.s = e.at]
            [] e.op = "leave" -> [w EXCEPT !.s = scopes[e.at].up]
            [] e.op = "ref" -> IF e.at \in DOMAIN R.bound THEN [w EXCEPT !.refs = Append(@, [at |-> e.at, s |-> w.s])] ELSE w
            [] e.op = "lambda" ->
                 [w EXCEPT !.refs = @ \o [i \in 1..Len(R.receiver[e.at]) |-> [at |-> Element(e.at, i), s |-> w.s]]]
            [] OTHER -> w
    IN  FoldLeft(LAMBDA w, e : Eager(LAMBDA x : visit(x, e), w), [s |-> d, refs |-> <<>>], Walk(Tree(d), d)).refs

resolve_lambda_captures(d, R) ==
    FoldLeft(LAMBDA syms, r :
                 LET sym == R.bound[r.at]
                 IN  IF ~ is_global(sym) /\ captured(sym, r.s, d) /\ ~ Contains(syms, sym) THEN Append(syms, sym) ELSE syms,
             <<>>, References(d, R))

(* lambda_capture_replacer: every reference to a captured symbol.           *)
resolve_lambda_capture_access(d, l, syms, R) ==
    LET refs == {r.at : r \in Range(References(d, R))}
        hit  == {r \in refs : Contains(syms, R.bound[r])}
    IN  [r \in hit |-> [lambda |-> l, def |-> d, offset |-> CHOOSE i \in DOMAIN syms : syms[i] = R.bound[r]]]

(* The lambdas inside are resolved first.  Captures are kept by the type of *)
(* the lambda, which the instances of a template share.                     *)
RECURSIVE resolve_lambda(_, _, _)
RECURSIVE visit_lambda(_, _)
resolve_lambda(d, l, R) ==
    LET inner == SelectSeq(Walk(Tree(d), d), LAMBDA e : e.op = "lambda")
        replace(r) ==
            LET syms == resolve_lambda_captures(d, r)
            IN  [r EXCEPT !.captures = Put(@, l, [def |-> d, syms |-> syms]),
                          !.access = resolve_lambda_capture_access(d, l, syms, r) @@ @]
    IN  Eager(replace, FoldLeft(LAMBDA r, e : visit_lambda(e.at, r), R, inner))
visit_lambda(l, R) ==
    LET def   == Append(l, 1)
        ks    == Instances(def)
        defs  == IF is_template(def) THEN [i \in 1..Cardinality(ks) |-> <<SetToSortSeq(ks, <)[i]>>]
                 ELSE <<def>>
        set_lambda_receiver(r) ==
            LET syms == IF l \in DOMAIN r.captures THEN r.captures[l].syms ELSE <<>>
            IN  [r EXCEPT !.receiver = Put(@, l, syms),
                          !.bound = [n \in {Element(l, i) : i \in DOMAIN syms} |-> syms[Last(n)]] @@ @]
        visit(r) ==
            IF l \in DOMAIN r.captures THEN r
            ELSE Eager(set_lambda_receiver, FoldLeft(LAMBDA x, d : resolve_lambda(d, l, x), r, defs))
    IN  Eager(visit, R)

resolve_lambdas ==
    /\ stage = "resolve"
    /\ todo # <<>>
    /\ LET R == visit_lambda(Head(todo), [bound |-> bound, captures |-> captures, access |-> access, receiver |-> receiver])
       IN  /\ bound' = R.bound
           /\ captures' = R.captures
           /\ access' = R.access
           /\ receiver' = R.receiver
    /\ todo' = Tail(todo)
    /\ UNCHANGED <<roots, copies, stage, cur, scopes, lost, failed, visited, funcs, lambdas>>

(* Each lambda's definition is moved to the functions of the program: a     *)
(* lambda that is registered twice leaves a null pointer there.             *)
MoveDefinitions ==
    /\ stage = "resolve"
    /\ todo = <<>>
    /\ stage' = IF IsInjective(lambdas) THEN "done" ELSE "crashed"
    /\ UNCHANGED <<roots, copies, todo, cur, scopes, lost, failed, visited, bound, funcs, lambdas, unresolved>>

-----------------------------------------------------------------------------
Terminal == {"done", "rejected", "crashed"}
Ended == stage \in Terminal /\ UNCHANGED vars

Init ==
    /\ \E p \in Programs : roots = <<p>>
    /\ copies = << [of |-> None, args |-> <<>>] >>
    /\ stage = "forward"
    /\ todo = <<>>
    /\ cur = Global
    /\ scopes = (Global :> [kind |-> "global", up |-> None, vars |-> <<>>, body |-> None])
    /\ lost = {}
    /\ failed = FALSE
    /\ visited = {}
    /\ bound = <<>>
    /\ funcs = <<>>
    /\ lambdas = <<>>
    /\ captures = <<>>
    /\ access = <<>>
    /\ receiver = <<>>

Step ==
    \/ analyze_ast_node_forward
    \/ EnterScope \/ SkipFunction \/ LeaveScope \/ Return
    \/ visit_variable_decl \/ visit_var_ref \/ visit_lambda_expr \/ LambdaMade
    \/ instantiate_function_from_template \/ visit_func_invocation
    \/ check_semantics
    \/ resolve_lambdas \/ MoveDefinitions
Next == Step \/ Ended
Spec == Init /\ [][Next]_vars
=============================================================================
