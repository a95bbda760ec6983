--------------------------- MODULE ClassesMeaning ---------------------------
(***************************************************************************)
(* What the analysis of classes is for.  The code emitted for a            *)
(* construction is run on the trees the analyzer leaves behind; and the    *)
(* types of a construction are inferred from the program alone, with no    *)
(* scopes, instances or order of analysis.                                 *)
(***************************************************************************)
EXTENDS Classes

(* Objects: what their variables hold and whether a constructor has run.    *)
Plain_value == [built |-> TRUE, vars |-> <<>>]
RECURSIVE create_alloca(_, _)
create_alloca(a, t) ==
    IF IsClass(t) THEN [built |-> FALSE, vars |-> [name \in VarNames(a, t.ref) |-> create_alloca(a, VarType(a, t.ref, name))]]
    ELSE Plain_value
RECURSIVE FullyBuilt(_)
FullyBuilt(v) == v.built /\ \A name \in DOMAIN v.vars : FullyBuilt(v.vars[name])

InitializedBy(body) == {s.v[2] : s \in {s \in ToSet(body) : InitsVar(s)}}

(* A frame of a constructor: its object, the variables initialized so far,  *)
(* those it initializes itself, the local variables, the variables whose    *)
(* initialization has no self_symbol and makes a local variable, and        *)
(* whether one was used too early.                                          *)
Early(f, name) == name \in f.own \ f.set \/ ~ f.self.vars[name].built
Misused(f, bad) == [f EXCEPT !.early = @ \/ bad]
ReadBy(name) == Only({g.reads : g \in {g \in program.funcs : g.name = name}})

RECURSIVE run_expr(_, _, _, _)
RECURSIVE run_ctor(_, _, _, _)
run_all(a, i, es, f) ==
    FoldLeft(LAMBDA r, e : LET x == run_expr(a, i, e, r.f) IN [f |-> x.f, values |-> Append(r.values, x.value)],
             [f |-> f, values |-> <<>>], es)
run_expr(a, i, e, f) ==
    LET args  == run_all(a, i, e.c, f)
        to    == a.callee[<<i, e>>]
        inner == run_ctor(a, to.ctor, args.values, f.taken)
    IN  CASE IsSelf(e) -> [f |-> Misused(f, \E name \in DOMAIN f.self.vars : Early(f, name)), value |-> f.self]
          [] e.k = "var_ref" /\ ~ IsSelf(e) -> [f |-> f, value |-> f.env[e.v]]
          [] e.k = "ufcs" -> [f |-> Misused(f, Early(f, e.v[1])), value |-> f.self.vars[e.v[1]]]
          [] e.k = "new" -> [f |-> Misused(args.f, inner.early), value |-> inner.self]
          [] e.k = "call" /\ e.v # <<"g">> -> [f |-> Misused(f, Early(f, ReadBy(e.v[1]))), value |-> f.self.vars[ReadBy(e.v[1])]]
          [] OTHER -> [f |-> args.f, value |-> Plain_value]

RECURSIVE run_stmts(_, _, _, _)
run_stmt(a, i, s, f) ==
    LET x == run_expr(a, i, s.c[1], f)
    IN  CASE s.k = "return" -> [f EXCEPT !.ended = TRUE]
          [] s.k = "if" -> IF f.taken
                           THEN [run_stmts(a, i, s.c, [f EXCEPT !.unlinked = {}]) EXCEPT !.env = f.env, !.unlinked = f.unlinked]
                           ELSE f
          [] s.k = "init" /\ InitsVar(s) /\ s.v[2] \in f.unlinked -> x.f
          [] s.k = "init" /\ InitsVar(s) /\ s.v[2] \notin f.unlinked -> [x.f EXCEPT !.self.vars[s.v[2]] = x.value, !.set = @ \cup {s.v[2]}]
          [] s.k = "init" /\ ~ InitsVar(s) -> [x.f EXCEPT !.env = Put(@, s.v, x.value)]
          [] OTHER -> x.f
run_stmts(a, i, stmts, f) == FoldLeft(LAMBDA g, s : IF g.ended THEN g ELSE run_stmt(a, i, s, g), f, stmts)

(* The object is allocated, with all that is inside it, then the @-params   *)
(* are copied into it and the body runs.                                    *)
run_ctor(a, i, args, taken) ==
    LET params == Tail(a.ctors[i].params)
        zeroed == create_alloca(a, a.ctors[i].params[1].type)
        inits  == {p \in DOMAIN params : params[p].init}
        names  == {params[p].name : p \in inits}
        value(name) == args[Only({p \in DOMAIN params : params[p].name = name})]
        self   == [built |-> TRUE, vars |-> [n \in DOMAIN zeroed.vars |-> IF n \in names THEN value(n) ELSE zeroed.vars[n]]]
    IN  run_stmts(a, i, a.ctors[i].body,
                  [self |-> self, set |-> names, own |-> InitializedBy(a.ctors[i].body), early |-> FALSE,
                   ended |-> FALSE, taken |-> taken, unlinked |-> a.ctors[i].unlinked,
                   env |-> [n \in {<<params[p].name>> : p \in DOMAIN params \ inits} |-> value(n[1])]])
Main(taken) ==
    [self |-> Plain_value, set |-> {}, own |-> {}, early |-> FALSE, ended |-> FALSE, taken |-> taken, unlinked |-> {}, env |-> <<>>]
Run(k, taken) == run_expr(A, 0, program.main[k], Main(taken))

-----------------------------------------------------------------------------
(* The reference: types are trees, and Bad is no type.                      *)
RefType(base, types) == [base |-> base, vars |-> types]
RefAny == RefType("T", <<>>)
Bad == RefType("", <<>>)
DefOf(name) == Only({program.classes[c] : c \in {c \in DOMAIN program.classes : program.classes[c].name = name}})
RECURSIVE RefWritten(_)
RefWritten(written) ==
    CASE written = "" -> RefAny
      [] written \in {"int", "float"} -> RefType(written, <<>>)
      [] OTHER -> RefType(written, [v \in DOMAIN DefOf(written).vars |-> RefWritten(DefOf(written).vars[v].written)])
RefVar(def, name) == RefWritten(Only({def.vars[v].written : v \in {v \in DOMAIN def.vars : def.vars[v].name = name}}))
RefParam(def, p) == IF p.init /\ p.written = "" THEN RefVar(def, p.name) ELSE RefWritten(p.written)
RefTakes(def, params, args) ==
    /\ Len(params) = Len(args)
    /\ \A p \in DOMAIN args : RefParam(def, params[p]) \in {RefAny, args[p]}
RefNarrower(def, p, q) == \A n \in DOMAIN p : RefParam(def, q[n]) # RefAny => RefParam(def, p[n]) # RefAny
RefSelect(def, args) ==
    LET ctors == grow_ctors(def)
        fit   == {k \in DOMAIN ctors : RefTakes(def, ctors[k].params, args)}
        best  == {k \in fit : \A l \in fit : RefNarrower(def, ctors[k].params, ctors[l].params)}
    IN  {ctors[k] : k \in best}
RECURSIVE RefDefault(_)
RefDefault(t) ==
    IF t.base \in {"int", "float"} THEN TRUE
    ELSE /\ Cardinality(RefSelect(DefOf(t.base), <<>>)) = 1
         /\ \A v \in DOMAIN t.vars : RefDefault(t.vars[v])

RECURSIVE AllAccesses(_)
AllAccesses(e) ==
    CASE IsSelf(e) -> {""}
      [] e.k = "ufcs" -> {e.v[1]}
      [] e.k = "call" /\ e.v # <<"g">> -> {""}
      [] OTHER -> UNION {AllAccesses(e.c[n]) : n \in DOMAIN e.c}

(* The walk of a body: types of instance variables known so far, those      *)
(* initialized, local variables.  A type error is wrong, and in a strict    *)
(* walk so is the use of something that is not initialized before the last  *)
(* initialization.                                                          *)
RECURSIVE RefExpr(_, _)
RECURSIVE RefNew(_, _, _, _)
RefExpr(e, r) ==
    LET args == [n \in DOMAIN e.c |-> RefExpr(e.c[n], r)]
    IN  CASE e.k \in {"int", "float"} -> RefType(e.k, <<>>)
          [] e.k = "var_ref" -> IF IsSelf(e) THEN RefWritten(r.def.name) ELSE r.env[e.v]
          [] e.k = "ufcs" -> r.known[e.v[1]]
          [] e.k = "new" -> RefNew(r.strict, DefOf(e.v[1]), [n \in 1..Len(e.v) - 1 |-> RefWritten(e.v[n + 1])], args)
          [] e.k = "binary" -> IF args[1] = args[2] /\ args[1].base \in {"int", "float"} THEN args[1] ELSE Bad
          [] e.k = "call" /\ e.v = <<"g">> ->
               IF \A n \in DOMAIN args : args[n].base = "int" THEN RefType("int", <<>>) ELSE Bad
          [] OTHER -> r.known[ReadBy(e.v[1])]
RECURSIVE RefBody(_, _, _)
RefStmt(s, before, r) ==
    LET t     == RefExpr(s.c[1], r)
        name  == s.v[2]
        early == r.strict /\ before /\ r.set # DOMAIN r.known /\ AllAccesses(s) \ r.set # {}
        again == IF InitsVar(s) THEN name \in r.set ELSE s.v \in r.local
        said  == [r EXCEPT !.wrong = @ \/ early \/ (s.k \in {"init", "do"} /\ t = Bad) \/ (s.k = "init" /\ again)]
    IN  CASE s.k = "init" /\ InitsVar(s) ->
               [said EXCEPT !.wrong = @ \/ r.known[name] \notin {RefAny, t}, !.known[name] = t, !.set = @ \cup {name}]
          [] s.k = "init" /\ ~ InitsVar(s) -> [said EXCEPT !.env = Put(@, s.v, t), !.local = @ \cup {s.v}]
          [] s.k = "if" -> [said EXCEPT !.wrong = @ \/ RefBody(s.c, 0, [r EXCEPT !.set = {}, !.local = {}]).wrong]
          [] OTHER -> said
RefBody(stmts, last, r) == FoldLeft(LAMBDA q, n : RefStmt(stmts[n], n <= last, q), r, [n \in DOMAIN stmts |-> n])
RefCtor(strict, def, given, ctor, args) ==
    LET inits == {p \in DOMAIN ctor.params : ctor.params[p].init}
        names == {ctor.params[p].name : p \in inits}
        arg(name) == args[Only({p \in DOMAIN ctor.params : ctor.params[p].name = name})]
    IN  RefBody(ctor.body, init_end_point(ctor.body),
                [def |-> def, known |-> [n \in DOMAIN given |-> IF n \in names THEN arg(n) ELSE given[n]], set |-> names,
                 env |-> [n \in {<<ctor.params[p].name>> : p \in DOMAIN ctor.params \ inits} |-> arg(n[1])],
                 local |-> {}, strict |-> strict, wrong |-> \E n \in names : given[n] \notin {RefAny, arg(n)}])
OpenVars(def) == Cardinality({v \in DOMAIN def.vars : def.vars[v].written = ""})
RefGiven(def, specified) ==
    LET open == SelectSeq(def.vars, LAMBDA v : v.written = "")
    IN  [name \in {def.vars[v].name : v \in DOMAIN def.vars} |->
           IF \E n \in DOMAIN specified : open[n].name = name
           THEN specified[CHOOSE n \in DOMAIN specified : open[n].name = name] ELSE RefVar(def, name)]

(* The type of new C(specified){args}.                                      *)
RefNew(strict, def, specified, args) ==
    LET found == RefSelect(def, args)
        r     == RefCtor(strict, def, RefGiven(def, specified), Only(found), args)
        unset == \E n \in DOMAIN r.known : r.known[n] = RefAny \/ (n \notin r.set /\ ~ RefDefault(r.known[n]))
    IN  IF \/ Bad \in ToSet(args)
           \/ specified # <<>> /\ Len(specified) # OpenVars(def)
           \/ Cardinality(found) # 1
        THEN Bad
        ELSE IF r.wrong \/ unset THEN Bad ELSE RefType(def.name, [v \in DOMAIN def.vars |-> r.known[def.vars[v].name]])
RefMain(strict, k) == RefExpr(program.main[k], [strict |-> strict])

(* Wrong without being called: two constructors with the same parameters,   *)
(* or a body that needs no template and has an error.                       *)
RefDuplicated(def) ==
    LET ctors == grow_ctors(def)
    IN  \E k, l \in DOMAIN ctors :
          /\ k # l /\ Len(ctors[k].params) = Len(ctors[l].params)
          /\ \A p \in DOMAIN ctors[k].params : RefParam(def, ctors[k].params[p]) = RefParam(def, ctors[l].params[p])
RefBodyWrong(def) ==
    \E k \in DOMAIN grow_ctors(def) :
      LET ctor  == grow_ctors(def)[k]
          types == [p \in DOMAIN ctor.params |-> RefParam(def, ctor.params[p])]
      IN  /\ RefAny \notin ToSet(types) \cup ToSet(RefWritten(def.name).vars)
          /\ RefCtor(FALSE, def, RefGiven(def, <<>>), ctor, types).wrong

-----------------------------------------------------------------------------
(* Constructions of its own class by a class, directly or through others.   *)
RECURSIVE Constructs(_)
Constructs(e) == (IF e.k = "new" THEN {e.v[1]} ELSE {}) \cup UNION {Constructs(e.c[n]) : n \in DOMAIN e.c}
ConstructedBy(names) ==
    UNION {UNION {UNION {Constructs(ctor.body[n]) : n \in DOMAIN ctor.body} : ctor \in ToSet(DefOf(name).ctors)} : name \in names}
ReachedBy(name) ==
    LET one == ConstructedBy({name}) IN one \cup ConstructedBy(one) \cup ConstructedBy(ConstructedBy(one))
ConstructsItself == \E c \in DOMAIN program.classes : program.classes[c].name \in ReachedBy(program.classes[c].name)

(* An initialization inside an if is not compared with the declared type.   *)
NestedInit(stmts) == \E n \in DOMAIN stmts : stmts[n].k = "if" /\ InitializedBy(stmts[n].c) # {}
Bodies == {ctor.body : ctor \in UNION {ToSet(program.classes[c].ctors) : c \in DOMAIN program.classes}}

(* The check sees the first access of a statement only, and none behind a   *)
(* variable that is the first argument of a call.                           *)
Seen(s) == LET found == self_accesses(s)
           IN  IF found = <<>> THEN {} ELSE {IF found[1].kind = "ufcs" THEN found[1].name ELSE ""}
SeesLess == \E body \in Bodies : \E n \in DOMAIN body : AllAccesses(body[n]) # Seen(body[n])
(* A constructor that may return before its last initialization.            *)
RECURSIVE Returns(_)
Returns(s) == s.k = "return" \/ \E n \in DOMAIN s.c : Returns(s.c[n])
ReturnsEarly == \E body \in Bodies : \E n \in DOMAIN body : Returns(body[n]) /\ n < init_end_point(body)
(* A class with a variable of class type that a default construction makes: *)
(* its constructor is not checked, so nothing constructs that variable.     *)
DefaultOnly == \E c \in DOMAIN program.classes : \E v \in DOMAIN program.classes[c].vars :
    LET t == program.classes[c].vars[v].written
    IN  t \notin {"", "int", "float"} /\ \E w \in DOMAIN DefOf(t).vars : DefOf(t).vars[w].written \notin {"", "int", "float"}

(* A constructor leaves a variable of class type to the default             *)
(* construction and is not copied behind the check that adds it: in a class *)
(* without templates, and in a class template that is constructed with      *)
(* specified types.  The value goes to a local variable.                    *)
RECURSIVE SpecifiedIn(_, _)
SpecifiedIn(e, name) ==
    (IF e.k = "new" /\ e.v[1] = name THEN {Tail(e.v)} ELSE {}) \cup UNION {SpecifiedIn(e.c[n], name) : n \in DOMAIN e.c}
AllCode == ToSet(program.main) \cup UNION {ToSet(body) : body \in Bodies}
SpecifiedFor(def) ==
    IF OpenVars(def) = 0 THEN {<<>>}
    ELSE {s \in UNION {SpecifiedIn(e, def.name) : e \in AllCode} : Len(s) = OpenVars(def)}
InitializedWith(ctor) == InitializedBy(ctor.body) \cup {p.name : p \in {p \in ToSet(ctor.params) : p.init}}
LeftToDefault == \E c \in DOMAIN program.classes :
    LET def == program.classes[c]
    IN  \E specified \in SpecifiedFor(def), ctor \in ToSet(grow_ctors(def)) :
          LET given == RefGiven(def, [n \in DOMAIN specified |-> RefWritten(specified[n])])
          IN  \E name \in DOMAIN given \ InitializedWith(ctor) : given[name].base \notin {"T", "int", "float"}

RECURSIVE Structure(_)
Structure(t) == RefType(t.base, IF IsClass(t) THEN [v \in DOMAIN A.classes[t.ref].vars |-> Structure(A.classes[t.ref].vars[v].type)] ELSE <<>>)

(* Between two constructions every class template has the types it was      *)
(* declared with again (walk_ctor_body_to_infer_class_template overwrites   *)
(* them), every instance has types without templates, and no two instances  *)
(* of a class are the same type (already_instantiated).                     *)
OneInstancePerType ==
    stage \in {"main", "accepted"} /\ ~ ConstructsItself =>
      /\ \A c \in DOMAIN program.classes : \A v \in DOMAIN A.classes[c].vars :
           A.classes[c].vars[v].type = from_ast(A, program.classes[c].vars[v].written)
      /\ \A c \in DOMAIN A.classes : A.classes[c].of # 0 =>
           /\ ~ class_scope_is_template(A, c)
           /\ \A d \in DOMAIN A.classes : d # c => ~ SameType(A, class_type(A, c), class_type(A, d))

(* A program is accepted with the types its constructions have by the       *)
(* reference, whatever was constructed before and in which order, and only  *)
(* a program that is wrong by the reference is refused; the compiler does   *)
(* not end with an internal error.                                          *)
TypesAsWritten ==
    /\ ~ A.crashed
    /\ stage = "accepted" /\ (\A body \in Bodies : ~ NestedInit(body)) =>
         \A k \in DOMAIN results : Structure(class_type(A, results[k].class)) = RefMain(FALSE, k)
    /\ stage = "rejected" =>
         \/ \E c \in DOMAIN program.classes : RefDuplicated(program.classes[c]) \/ RefBodyWrong(program.classes[c])
         \/ \E k \in DOMAIN program.main : RefMain(TRUE, k) = Bad
InfersTypes == ConstructsItself \/ TypesAsWritten

(* In a program that is accepted no constructor uses an instance variable   *)
(* before it has initialized it, nor one of class type before a constructor *)
(* of that class has run (self_access_checker).                             *)
InitializedBeforeUse ==
    stage = "accepted" =>
      \/ SeesLess \/ DefaultOnly \/ LeftToDefault \/ ConstructsItself
      \/ \A k \in DOMAIN program.main, taken \in BOOLEAN : ~ Run(k, taken).f.early

(* In a program that is accepted every object has all its instance          *)
(* variables of class type constructed when its constructor returns: those  *)
(* the constructor initializes and, in a class template whose types are     *)
(* inferred, those it leaves to the default construction that               *)
(* check_template_instantiation_with_ctor adds and the copy behind it links.*)
AllBuilt == \A k \in DOMAIN program.main, taken \in BOOLEAN : FullyBuilt(Run(k, taken).value)
MembersConstructed ==
    stage = "accepted" => ReturnsEarly \/ DefaultOnly \/ LeftToDefault \/ ConstructsItself \/ AllBuilt

(* The comment at analyzer.cpp:2721, "If the type is default constructible  *)
(* and not initialized yet, add default construction to the body of         *)
(* constructor": so that an instance variable nothing initializes is        *)
(* constructed, whether or not the constructor is copied afterwards: in a   *)
(* class without templates, and in one constructed with specified types.    *)
DefaultsConstructed ==
    stage = "accepted" => ReturnsEarly \/ DefaultOnly \/ ConstructsItself \/ AllBuilt
=============================================================================
