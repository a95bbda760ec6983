------------------------------ MODULE Classes ------------------------------
(***************************************************************************)
(* Classes and constructors in the C++ compiler.  The forward analyzer     *)
(* defines the classes and grows their constructors; `new C{...}' selects  *)
(* a constructor among all of them, walks it, infers the types of the      *)
(* instance variables of a class template from its body, checks that the   *)
(* instance variables are initialized, instantiates the class and selects  *)
(* the constructor again for the instance.                                 *)
(*                                                                         *)
(* A statement of main is one construction, an action of its own: visit    *)
(* of the object_construct with everything it makes the analyzer visit.    *)
(* The analyzer itself is a record A that the operators hand on:           *)
(* A.classes are the class scopes, A.ctors the functions called            *)
(* dachs.init, both in the order of their definition.  After the first     *)
(* error the analyzer only adds messages, and A stays as it is.            *)
(***************************************************************************)
EXTENDS SyntaxTree, FiniteSets, TLC

CONSTANT Programs    \* families of [classes, funcs, main]: definitions and expressions

VARIABLES program, stage, done, A, results
vars == <<program, stage, done, A, results>>

Put(f, k, v) == (k :> v) @@ f
Only(s) == CHOOSE x \in s : TRUE
First(s) == CHOOSE i \in s : \A j \in s : i <= j

(* Types: a builtin, the template_type of what is written without a type,   *)
(* or a class with the number of its scope.                                 *)
Type(base, ref) == [base |-> base, ref |-> ref]
Builtin(name) == Type(name, 0)
Template == Type("T", 0)
Unknown == Type("", 0)
IsClass(t) == t.ref # 0

resolve_class_by_name(a, name) == First({c \in DOMAIN a.classes : a.classes[c].name = name})
class_type(a, c) == Type(a.classes[c].name, c)
from_ast(a, written) ==
    CASE written = "" -> Template
      [] written \in {"int", "float"} -> Builtin(written)
      [] OTHER -> class_type(a, resolve_class_by_name(a, written))

VarNames(a, c) == {a.classes[c].vars[v].name : v \in DOMAIN a.classes[c].vars}
resolve_instance_var(a, c, name) == First({v \in DOMAIN a.classes[c].vars : a.classes[c].vars[v].name = name})
VarType(a, c, name) == a.classes[c].vars[resolve_instance_var(a, c, name)].type

RECURSIVE is_template(_, _)
class_scope_is_template(a, c) == \E v \in DOMAIN a.classes[c].vars : is_template(a, a.classes[c].vars[v].type)
is_template(a, t) == IF IsClass(t) THEN class_scope_is_template(a, t.ref) ELSE t = Template
IsTemplateCtor(a, i) == \E p \in DOMAIN a.ctors[i].params : is_template(a, a.ctors[i].params[p].type)

(* Two classes are the same type when they have the same name and the same  *)
(* types of instance variables.                                             *)
RECURSIVE SameType(_, _, _)
SameType(a, s, t) ==
    /\ s.base = t.base
    /\ IsClass(s) => \A v \in DOMAIN a.classes[s.ref].vars :
                        SameType(a, a.classes[s.ref].vars[v].type, a.classes[t.ref].vars[v].type)

RECURSIVE instantiation_checker(_, _, _)
instantiation_checker(a, s, t) ==
    IF IsClass(s) /\ IsClass(t)
    THEN /\ s.base = t.base
         /\ ~ is_template(a, s)
         /\ \A v \in DOMAIN a.classes[s.ref].vars :
              instantiation_checker(a, a.classes[s.ref].vars[v].type, a.classes[t.ref].vars[v].type)
    ELSE t = Template \/ s = t
is_instantiated_from(a, s, t) == IsClass(t) /\ is_template(a, t) /\ instantiation_checker(a, s, t)

-----------------------------------------------------------------------------
(* Overload resolution over all constructors of all classes.                *)
get_parameter_score(a, arg, param) ==
    CASE param = Template -> 1
      [] param # Template /\ is_instantiated_from(a, arg, param) -> 2
      [] OTHER -> IF SameType(a, param, arg) THEN 3 ELSE 0
Score(a, i, args) ==
    FoldLeft(LAMBDA n, p : n * get_parameter_score(a, args[p], a.ctors[i].params[p].type), 1, [p \in DOMAIN args |-> p])
Matches(a, i, args, n) == Cardinality({p \in DOMAIN args : get_parameter_score(a, args[p], a.ctors[i].params[p].type) = n})
resolve_ctor(a, args) ==
    LET sized  == {i \in DOMAIN a.ctors : Len(a.ctors[i].params) = Len(args) /\ Score(a, i, args) # 0}
        best   == {i \in sized : \A j \in sized : Score(a, i, args) >= Score(a, j, args)}
        narrow == {i \in best : \A j \in best : Matches(a, i, args, 3) >= Matches(a, j, args, 3)}
    IN  {i \in narrow : \A j \in narrow : Matches(a, i, args, 2) >= Matches(a, j, args, 2)}

(* A class is default constructible when its default constructor is the    *)
(* only candidate and its instance variables are, too.                      *)
RECURSIVE is_default_constructible(_, _)
is_default_constructible(a, t) ==
    IF IsClass(t)
    THEN /\ Cardinality(resolve_ctor(a, <<t>>)) = 1
         /\ \A v \in DOMAIN a.classes[t.ref].vars : is_default_constructible(a, a.classes[t.ref].vars[v].type)
    ELSE t # Template

-----------------------------------------------------------------------------
(* Forward analysis: all classes first, then the parameters of their        *)
(* constructors.  @v without a type takes the type the instance variable    *)
(* has at that moment.                                                      *)
Failed(a) == [a EXCEPT !.failed = TRUE]
Typed(a, t) == [a EXCEPT !.type = t]
NewClass(name, of, variables) == [name |-> name, of |-> of, vars |-> variables]
Variable(name, t) == [name |-> name, type |-> t]
Receiver(name) == [name |-> "self", init |-> FALSE, written |-> name]

grow_ctors(def) ==
    LET params == [v \in DOMAIN def.vars |-> [name |-> def.vars[v].name, init |-> TRUE, written |-> ""]]
    IN  CASE def.ctors # <<>> -> def.ctors
          [] def.ctors = <<>> /\ def.vars = <<>> -> <<[params |-> <<>>, body |-> <<>>]>>
          [] OTHER -> <<[params |-> <<>>, body |-> <<>>], [params |-> params, body |-> <<>>]>>

check_init_instance_param(a, c, p) ==
    IF p.init /\ p.written = "" THEN VarType(a, c, p.name) ELSE from_ast(a, p.written)
ForwardCtor(a, c, def, of) ==
    [class |-> c, of |-> of, visited |-> FALSE, inferred |-> FALSE, decls |-> {}, unlinked |-> {}, body |-> def.body,
     params |-> [p \in DOMAIN def.params |->
                   def.params[p] @@ [type |-> check_init_instance_param(a, c, def.params[p])]]]

ForwardClasses(defs) ==
    LET named == [classes |-> [c \in DOMAIN defs |-> NewClass(defs[c].name, 0, <<>>)]]
    IN  [c \in DOMAIN defs |->
           NewClass(defs[c].name, 0, [v \in DOMAIN defs[c].vars |->
                                        Variable(defs[c].vars[v].name, from_ast(named, defs[c].vars[v].written))])]
ForwardAll(defs) ==
    LET scopes == [classes |-> ForwardClasses(defs)]
        grown  == [c \in DOMAIN defs |->
                     LET ctors == grow_ctors(defs[c])
                     IN  [i \in DOMAIN ctors |->
                            ForwardCtor(scopes, c, [ctors[i] EXCEPT !.params = <<Receiver(defs[c].name)>> \o @], 0)]]
    IN  [classes |-> scopes.classes, ctors |-> FlattenSeq(grown), failed |-> FALSE, crashed |-> FALSE,
         type |-> Unknown, ctor |-> 0, map |-> <<>>, callee |-> <<>>]

(* func_scope::operator==: a constructor with these parameters exists.      *)
SameParams(a, i, j) ==
    /\ Len(a.ctors[i].params) = Len(a.ctors[j].params)
    /\ \A p \in DOMAIN a.ctors[i].params : SameType(a, a.ctors[i].params[p].type, a.ctors[j].params[p].type)
check_functions_duplication(a) ==
    IF \E i, j \in DOMAIN a.ctors : i # j /\ SameParams(a, i, j) THEN Failed(a) ELSE a

-----------------------------------------------------------------------------
(* What the check of a constructor sees of a statement: the accesses to     *)
(* self, in the order of the walk.  Behind the first one the walk ends,     *)
(* and a call whose first argument is a variable is not looked into.        *)
Access(kind, name) == [kind |-> kind, name |-> name]
IsSelf(e) == e.k = "var_ref" /\ e.v = <<"self">>
RECURSIVE self_accesses(_)
self_accesses(e) ==
    LET order == IF e.k = "binary" THEN <<2, 1>> ELSE [i \in DOMAIN e.c |-> i]
        below == FlattenSeq([i \in DOMAIN order |-> self_accesses(e.c[order[i]])])
    IN  CASE IsSelf(e) -> <<Access("self", "")>>
          [] e.k = "ufcs" /\ IsSelf(e.c[1]) -> <<Access("ufcs", e.v[1])>>
          [] e.k = "call" /\ e.c # <<>> /\ e.c[1].k = "var_ref" ->
               IF IsSelf(e.c[1]) THEN <<Access("func", e.v[1])>> ELSE <<>>
          [] OTHER -> below

InitsVar(s) == s.k = "init" /\ s.v[1] = "@"
init_end_point(body) ==
    LET inits == {n \in DOMAIN body : InitsVar(body[n])}
    IN  IF inits = {} THEN 0 ELSE CHOOSE n \in inits : \A m \in inits : m <= n

(* generate_instantiation_map and the check of one initialization.          *)
generate_instantiation_map(a, c) ==
    [name \in VarNames(a, c) |-> IF VarType(a, c, name) = Template THEN Unknown ELSE VarType(a, c, name)]
check_instance_var_type(a, m, name, t) ==
    CASE m.map[name] = Unknown \/ is_instantiated_from(a, t, m.map[name]) ->
           [m EXCEPT !.map[name] = t, !.initialized = @ \cup {name}]
      [] m.map[name] # Unknown /\ ~ is_instantiated_from(a, t, m.map[name]) /\ SameType(a, t, m.map[name]) ->
           [m EXCEPT !.initialized = @ \cup {name}]
      [] OTHER -> [m EXCEPT !.failed = TRUE]

check_ctor_params(a, m, i) ==
    LET params == SelectSeq(a.ctors[i].params, LAMBDA p : p.init)
    IN  FoldLeft(LAMBDA n, p : check_instance_var_type(a, n, p.name, p.type), m, params)

(* An access before the last initialization of the body is refused unless   *)
(* it names a variable that is initialized.                                 *)
check_self_access_none(m, body, n) == m    \* mutant: accesses are not checked
check_self_access(m, body, n) ==
    LET found == self_accesses(body[n])
    IN  IF /\ n <= init_end_point(body) /\ m.initialized # DOMAIN m.map
           /\ found # <<>> /\ found[1].name \notin m.initialized
        THEN [m EXCEPT !.failed = TRUE] ELSE m
(* A variable is initialized once, and its declaration has been walked.     *)
check_init_stmt(a, m, i, s) ==
    LET decl == {d \in a.ctors[i].decls : d.at = <<>> /\ d.name = s.v}
        dup  == \E p \in DOMAIN a.ctors[i].params : a.ctors[i].params[p].init /\ a.ctors[i].params[p].name = s.v[2]
    IN  IF decl = {} \/ dup THEN [m EXCEPT !.failed = TRUE]
        ELSE check_instance_var_type(a, m, s.v[2], Only(decl).type)
check_ctor_body(a, m, i) ==
    LET body == a.ctors[i].body
    IN  FoldLeft(LAMBDA k, n : LET seen == check_self_access(k, body, n)
                               IN  IF InitsVar(body[n]) THEN check_init_stmt(a, seen, i, body[n]) ELSE seen,
                 m, [n \in DOMAIN body |-> n])

-----------------------------------------------------------------------------
(* The walk of the symbol analyzer.  env holds the types of the variables a *)
(* constructor can name.                                                    *)
RECURSIVE visit_expr(_, _, _, _), walk_ctor(_, _), instantiate_function(_, _, _),
          visit_class_construct(_, _, _), prepare_class_definition(_, _, _)

(* The types of some expressions, in the order of the walk.                 *)
visit_all(a, i, env, es) ==
    FoldLeft(LAMBDA r, e : LET b == visit_expr(r.a, i, env, e) IN [a |-> b, types |-> Append(r.types, b.type)],
             [a |-> a, types |-> <<>>], es)

(* new C(types){args}.  The instance with the specified types is made first. *)
TemplateVars(a, c) == SelectSeq(a.classes[c].vars, LAMBDA v : is_template(a, v.type))
resolve_class_template(a, c, specified) ==
    LET open == TemplateVars(a, c)
    IN  {d \in DOMAIN a.classes : /\ a.classes[d].of = c /\ Len(open) = Len(specified)
                                  /\ \A n \in DOMAIN open : SameType(a, VarType(a, d, open[n].name), specified[n])}
instantiate_class_from_specified_param_types(a, c, specified) ==
    LET open == TemplateVars(a, c)
        at(name) == {n \in DOMAIN open : open[n].name = name}
    IN  IF Len(open) # Len(specified) THEN Failed(a)
        ELSE prepare_class_definition(a, c, [name \in VarNames(a, c) |->
                                               IF at(name) = {} THEN VarType(a, c, name) ELSE specified[Only(at(name))]])
class_template_instantiater(a, c, specified) ==
    LET found == resolve_class_template(a, c, specified)
    IN  CASE a.failed \/ specified = <<>> -> Typed(a, class_type(a, c))
          [] ~ a.failed /\ specified # <<>> /\ found # {} -> Typed(a, class_type(a, First(found)))
          [] OTHER -> instantiate_class_from_specified_param_types(a, c, specified)

(* The class and its constructor are noted at the expression.  A walk that  *)
(* has failed constructs nothing.                                           *)
set_callee_ctor(a, i, e) == [a EXCEPT !.callee = Put(@, <<i, e>>, [class |-> a.type.ref, ctor |-> a.ctor])]
construct_typed(a, i, e, types) ==
    IF a.failed THEN a
    ELSE set_callee_ctor(visit_class_construct(a, a.type.ref, <<a.type>> \o types), i, e)
visit_object_construct(walked, i, e) ==
    IF walked.a.failed THEN walked.a
    ELSE construct_typed(class_template_instantiater(walked.a, resolve_class_by_name(walked.a, e.v[1]),
                                                     [n \in 1..Len(e.v) - 1 |-> from_ast(walked.a, e.v[n + 1])]),
                         i, e, walked.types)

(* + needs two ints or two floats, the function g takes and returns ints,   *)
(* and a member function returns an instance variable.                      *)
TypeOfCall(a, e, types) ==
    CASE e.k = "binary" -> IF types[1] = types[2] /\ types[1] \in {Builtin("int"), Builtin("float")} THEN types[1] ELSE Unknown
      [] e.k = "call" /\ e.v = <<"g">> -> IF \A n \in DOMAIN types : types[n] = Builtin("int") THEN Builtin("int") ELSE Unknown
      [] OTHER -> VarType(a, types[1].ref, Only({f.reads : f \in {f \in program.funcs : f.name = e.v[1]}}))
(* An expression behind the walk of the expressions in it.                  *)
visit_walked(walked, i, env, e) ==
    LET called == TypeOfCall(walked.a, e, walked.types)
    IN  CASE e.k \in {"int", "float"} -> Typed(walked.a, Builtin(e.k))
          [] e.k = "var_ref" -> Typed(walked.a, env[e.v])
          [] e.k = "new" -> visit_object_construct(walked, i, e)
          [] e.k = "ufcs" -> Typed(walked.a, VarType(walked.a, walked.types[1].ref, e.v[1]))
          [] OTHER -> IF walked.a.failed THEN walked.a
                      ELSE IF called = Unknown THEN Failed(walked.a) ELSE Typed(walked.a, called)
visit_expr(a, i, env, e) ==
    IF a.failed THEN a
    ELSE visit_walked(visit_all(a, i, env, IF e.k = "binary" THEN Reverse(e.c) ELSE e.c), i, env, e)

(* visit(initialize_stmt): the expression, the declaration, and the type.   *)
(* During inference the type of a class template's variable is overwritten. *)
substitute_type_nothing(a, c, name, t) == a    \* mutant: the class template keeps its types
substitute_type(a, c, name, t) ==
    IF VarType(a, c, name) # Template THEN a
    ELSE [a EXCEPT !.classes[c].vars[resolve_instance_var(a, c, name)].type = t]
declare(rhs, i, s, at) ==
    LET c    == rhs.ctors[i].params[1].type.ref
        decl == [rhs EXCEPT !.ctors[i].decls = @ \cup {[at |-> at, name |-> s.v, type |-> rhs.type]}]
    IN  CASE rhs.failed -> rhs
          [] ~ rhs.failed /\ \E d \in rhs.ctors[i].decls : d.at = at /\ d.name = s.v -> Failed(rhs)
          [] OTHER -> IF InitsVar(s) THEN substitute_type(decl, c, s.v[2], rhs.type) ELSE decl
visit_initialize(a, i, env, s, at) == declare(visit_expr(a, i, env, s.c[1]), i, s, at)

(* The statements of a block, one after the other.                          *)
RECURSIVE visit_stmts(_, _, _, _, _)
visit_rest(here, i, env, stmts, at) ==
    LET s == stmts[1]
    IN  visit_stmts(here, i, IF s.k = "init" /\ ~ InitsVar(s) THEN Put(env, s.v, here.type) ELSE env, Tail(stmts), at)
visit_stmt(a, i, env, s, at, n) ==
    CASE s.k = "init" -> visit_initialize(a, i, env, s, at)
      [] s.k = "if" -> visit_stmts(a, i, env, s.c, Append(at, n))
      [] s.k = "do" -> visit_expr(a, i, env, s.c[1])
      [] OTHER -> a
visit_stmts(a, i, env, stmts, at) ==
    IF stmts = <<>> \/ a.failed THEN a
    ELSE visit_rest(visit_stmt(a, i, env, stmts[1], at, Len(stmts)), i, env, stmts, at)
walk_body(a, i) ==
    LET params == a.ctors[i].params
    IN  visit_stmts(a, i, [name \in {<<params[p].name>> : p \in {p \in DOMAIN params : ~ params[p].init}} |->
                             params[Only({p \in DOMAIN params : <<params[p].name>> = name})].type],
                    a.ctors[i].body, <<>>)

(* visit(function_definition): a template is only marked.                   *)
walk_ctor(a, i) ==
    CASE a.failed \/ a.ctors[i].visited -> a
      [] ~ a.failed /\ ~ a.ctors[i].visited /\ IsTemplateCtor(a, i) -> [a EXCEPT !.ctors[i].visited = TRUE]
      [] OTHER -> walk_body([a EXCEPT !.ctors[i].visited = TRUE], i)

-----------------------------------------------------------------------------
(* A copy of constructor i for these arguments.  Its parameters are typed   *)
(* anew; one that then has another type than its argument ends the          *)
(* compiler with an internal error.                                         *)
instantiate_function(a, i, args) ==
    LET copy  == ForwardCtor(a, a.ctors[i].class, a.ctors[i], i)
        fits  == \A p \in DOMAIN args : is_template(a, copy.params[p].type) \/ SameType(a, copy.params[p].type, args[p])
        typed == [copy EXCEPT !.params = [p \in DOMAIN args |->
                    [copy.params[p] EXCEPT !.type = IF is_template(a, @) THEN args[p] ELSE @]]]
        new   == Len(a.ctors) + 1
        added == [a EXCEPT !.ctors = Append(@, typed)]
    IN  CASE a.failed -> a
          [] ~ a.failed /\ ~ fits -> [Failed(a) EXCEPT !.crashed = TRUE]
          [] OTHER -> [walk_ctor(added, new) EXCEPT !.ctor = new]

RECURSIVE CopiesOf(_, _)
CopiesOf(a, i) == {i} \cup UNION {CopiesOf(a, j) : j \in {j \in DOMAIN a.ctors : a.ctors[j].of = i}}
already_instantiated_func(a, i, args) ==
    {j \in CopiesOf(a, i) : \A p \in DOMAIN args : SameType(a, a.ctors[j].params[p].type, args[p])}
pick_instance(a, i, args) ==
    LET found == already_instantiated_func(a, i, args)
    IN  CASE a.failed \/ ~ IsTemplateCtor(a, i) -> [a EXCEPT !.ctor = i]
          [] ~ a.failed /\ IsTemplateCtor(a, i) /\ found # {} -> [a EXCEPT !.ctor = First(found)]
          [] OTHER -> instantiate_function(a, i, args)

(* The body of the constructor is walked for a class template c, with the   *)
(* types of its arguments in c, which gets its own types back behind it.    *)
walk_ctor_body_to_infer(a, i, c) ==
    LET params == {p \in DOMAIN a.ctors[i].params : a.ctors[i].params[p].init}
        known  == [a EXCEPT !.classes[c].vars = [v \in DOMAIN @ |->
                     LET given == {p \in params : a.ctors[i].params[p].name = @[v].name}
                     IN  IF given = {} THEN @[v] ELSE [@[v] EXCEPT !.type = a.ctors[i].params[Only(given)].type]]]
        walked == walk_body(known, i)
    IN  IF a.failed \/ a.ctors[i].inferred \/ ~ IsTemplateCtor(a, i) \/ ~ class_scope_is_template(a, c) THEN a
        ELSE [walked EXCEPT !.classes[c].vars = a.classes[c].vars, !.ctors[i].inferred = TRUE]

(* The default construction of an instance variable, in front of the body.  *)
(* The constructor is not walked and its own check is not made.  Only the   *)
(* forward analyzer sets the self_symbol of a declaration: the one added    *)
(* here has none (unlinked) until the constructor is copied.                *)
generate_default_call(a, t, found) ==
    CASE Cardinality(found) # 1 -> Failed(a)
      [] Cardinality(found) = 1 /\ IsTemplateCtor(a, Only(found)) -> instantiate_function(a, Only(found), <<t>>)
      [] OTHER -> [a EXCEPT !.ctor = Only(found)]
generate_default_construct(a, t) == generate_default_call(a, t, resolve_ctor(a, <<t>>))
to_ast(t) == <<t.base>>
generate_default_initialize_none(a, i, name, t) == a    \* mutant: the variable is left alone
InitializeBefore(made, i, name, t) ==
    LET new == Node("new", to_ast(t), <<>>)
    IN  [made EXCEPT !.ctors[i].body = <<Node("init", <<"@", name>>, <<new>>)>> \o @,
                     !.ctors[i].decls = @ \cup {[at |-> <<>>, name |-> <<"@", name>>, type |-> t]},
                     !.ctors[i].unlinked = @ \cup {name},
                     !.callee = Put(@, <<i, new>>, [class |-> t.ref, ctor |-> made.ctor])]
generate_default_initialize(a, i, name, t) ==
    IF a.failed THEN a
    ELSE LET made == generate_default_construct(a, t)
         IN  IF made.failed THEN Failed(a) ELSE InitializeBefore(made, i, name, t)

check_template_instantiation_with_ctor(a, i, c) ==
    LET start == [map |-> generate_instantiation_map(a, c), initialized |-> {}, failed |-> FALSE]
        m     == check_ctor_body(a, check_ctor_params(a, start, i), i)
        open  == DOMAIN m.map \ m.initialized
        added == SelectSeq(a.classes[c].vars, LAMBDA v : v.name \in open /\ IsClass(m.map[v.name]))
    IN  CASE a.failed -> a
          [] ~ a.failed /\ (m.failed \/ \E name \in open : m.map[name] = Unknown \/ ~ is_default_constructible(a, m.map[name])) ->
               Failed(a)
          [] OTHER -> FoldLeft(LAMBDA b, v : generate_default_initialize(b, i, v.name, m.map[v.name]),
                               [a EXCEPT !.map = m.map], added)

(* The instance of class template c with these types of variables.          *)
already_instantiated_never(a, c, map) == {}    \* mutant: the instances are not searched
already_instantiated(a, c, map) ==
    {d \in DOMAIN a.classes : /\ a.classes[d].of = c
                              /\ \A name \in DOMAIN map : SameType(a, VarType(a, d, name), map[name])}
substitute_class_template_params(a, c, map) ==
    [v \in DOMAIN a.classes[c].vars |->
       LET name == a.classes[c].vars[v].name
           own  == from_ast(a, program.classes[c].vars[v].written)
       IN  Variable(name, IF is_template(a, own) THEN map[name] ELSE own)]
prepare_class_definition(a, c, map) ==
    LET found == already_instantiated(a, c, map)
        copy  == NewClass(a.classes[c].name, c, substitute_class_template_params(a, c, map))
    IN  IF found # {} THEN Typed(a, class_type(a, First(found)))
        ELSE Typed([a EXCEPT !.classes = Append(@, copy)], Type(copy.name, Len(a.classes) + 1))

(* The constructor is selected again for the instance, whose type is the    *)
(* first argument.                                                          *)
construct_again(a, args, found) ==
    CASE Cardinality(found) # 1 -> [Failed(a) EXCEPT !.crashed = TRUE]
      [] Cardinality(found) = 1 /\ IsTemplateCtor(a, Only(found)) ->
           Typed(instantiate_function(a, Only(found), args), args[1])
      [] OTHER -> [Typed(a, args[1]) EXCEPT !.ctor = Only(found)]
ConstructInstance(class, args) == construct_again(class, args, resolve_ctor(class, args))
instantiate_class_template(a, c, args) ==
    LET class == prepare_class_definition(a, c, a.map)
    IN  IF a.failed THEN a ELSE ConstructInstance(class, <<class.type>> \o Tail(args))

(* The steps of visit_class_construct_impl: select and walk a constructor,  *)
(* pick its instance, infer and check, and make the instance of the class.  *)
construct_checked(a, c, args, ctor) ==
    IF class_scope_is_template(a, c) THEN instantiate_class_template(a, c, args)
    ELSE [Typed(a, class_type(a, c)) EXCEPT !.ctor = ctor]
construct_picked(a, c, args) ==
    construct_checked(check_template_instantiation_with_ctor(walk_ctor_body_to_infer(a, a.ctor, c), a.ctor, c), c, args, a.ctor)
construct_selected(a, c, args, found) ==
    IF Cardinality(found) # 1 THEN Failed(a)
    ELSE construct_picked(pick_instance(walk_ctor(a, Only(found)), Only(found), args), c, args)
visit_class_construct(a, c, args) ==
    IF a.failed THEN a ELSE construct_selected(a, c, args, resolve_ctor(a, args))

-----------------------------------------------------------------------------
Init ==
    /\ \E n \in DOMAIN Programs : program \in Programs[n]
    /\ stage = "forward" /\ done = 0 /\ results = <<>>
    /\ A = ForwardAll(<<>>)

ForwardAnalyze ==
    /\ stage = "forward"
    /\ A' = check_functions_duplication(ForwardAll(program.classes))
    /\ stage' = IF A'.failed THEN "rejected" ELSE "main"
    /\ UNCHANGED <<program, done, results>>

(* The next construction of main.                                           *)
VisitConstruct ==
    /\ stage = "main" /\ done < Len(program.main)
    /\ done' = done + 1
    /\ A' = visit_expr(A, 0, <<>>, program.main[done'])
    /\ results' = Append(results, [class |-> A'.type.ref, ctor |-> A'.ctor])
    /\ stage' = IF A'.failed THEN "rejected" ELSE "main"
    /\ UNCHANGED program

(* Behind main the walk reaches the constructors nothing has called.        *)
RECURSIVE walk_rest(_, _)
walk_rest(a, i) == IF i > Len(a.ctors) THEN a ELSE walk_rest(walk_ctor(a, i), i + 1)
WalkConstructors ==
    /\ stage = "main" /\ done = Len(program.main)
    /\ A' = walk_rest(A, 1)
    /\ stage' = IF A'.failed THEN "rejected" ELSE "accepted"
    /\ UNCHANGED <<program, done, results>>

Next == ForwardAnalyze \/ VisitConstruct \/ WalkConstructors
Spec == Init /\ [][Next]_vars
=============================================================================
