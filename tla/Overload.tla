------------------------------ MODULE Overload ------------------------------
(***************************************************************************)
(* Overload resolution of the compiler in src/dachs/semantics (scope.cpp,  *)
(* type.cpp): which of the functions of the global scope a call selects.   *)
(*                                                                         *)
(* A type is a base under a number of `pointer's.  The base "template" is  *)
(* template_type, the type of a parameter written without one; `pointer'   *)
(* alone is a pointer to it.  Classes and arrays nest templates in the     *)
(* same way.  A function is a record with at least a name and its          *)
(* parameter types.                                                        *)
(***************************************************************************)
EXTENDS Naturals, Sequences, SequencesExt

any_type(base, ptr) == [base |-> base, ptr |-> ptr]
unit == any_type("unit", 0)

is_template(t) == t.base = "template"
is_template_type(t) == is_template(t) /\ t.ptr = 0

(* A pointer to a template matches every type with as many pointers.        *)
is_instantiated_from(t, from) == is_template(from) /\ from.ptr > 0 /\ t.ptr >= from.ptr

(* The visitor for template_type is not const and is never selected behind  *)
(* a pointer: a template counts 1, like every other type without elements.  *)
template_depth(t) == t.ptr + 1

get_parameter_score_flat(arg, param) ==    \* mutant: every parameter that matches counts the same
    IF \/ is_template_type(param)
       \/ is_instantiated_from(arg, param)
       \/ param = arg
    THEN [score |-> 1, perfect |-> 0, depth |-> 0]
    ELSE [score |-> 0, perfect |-> 0, depth |-> 0]

get_parameter_score(arg, param) ==
    CASE is_template_type(param)          -> [score |-> 1, perfect |-> 0, depth |-> 0]
      [] is_instantiated_from(arg, param) -> [score |-> 2, perfect |-> 0, depth |-> template_depth(param)]
      [] param = arg                      -> [score |-> 3, perfect |-> 1, depth |-> 0]
      [] OTHER                            -> [score |-> 0, perfect |-> 0, depth |-> 0]

(* The product of the parameters' scores, and the sums of the rest.         *)
get_overloaded_function_score(func, args) ==
    LET total[n \in 0..Len(args)] ==
            IF n = 0 THEN [score |-> 1, perfect |-> 0, depth |-> 0]
            ELSE LET before == total[n - 1]
                     p == get_parameter_score(args[n], func.params[n])
                 IN  [score   |-> before.score * p.score,
                      perfect |-> before.perfect + p.perfect,
                      depth   |-> before.depth + p.depth]
    IN  total[Len(args)]

(* The loop keeps what is not below the maximum so far, and erases behind   *)
(* it what a later one has beaten: the candidates with the best score.      *)
generate_first_overload_set(functions, name, args) ==
    LET sized == {i \in 1..Len(functions) : /\ functions[i].name = name
                                            /\ Len(functions[i].params) = Len(args)}
        scores == {[func |-> i, total |-> get_overloaded_function_score(functions[i], args)] : i \in sized}
    IN  {c \in scores : /\ c.total.score # 0
                        /\ \A d \in scores : c.total.score >= d.total.score}

narrow_down_by_perfect(scores) ==
    {c \in scores : \A d \in scores : c.total.perfect >= d.total.perfect}
narrow_down_by_depth(scores) ==
    {c \in scores : \A d \in scores : c.total.depth >= d.total.depth}

(* With more than one left the call is ambiguous.                           *)
generate_overload_set(functions, name, args) ==
    LET first  == generate_first_overload_set(functions, name, args)
        second == narrow_down_by_perfect(first)
    IN  {c.func : c \in narrow_down_by_depth(second)}

resolve_func(functions, name, args) == generate_overload_set(functions, name, args)

-----------------------------------------------------------------------------
(* What overload resolution is for.  A function accepts the arguments that *)
(* each of its parameters takes, and is more specific than another one if  *)
(* it accepts fewer.                                                       *)
Takes(param, arg) == \/ param = arg
                     \/ is_template(param) /\ arg.ptr >= param.ptr
Accepts(func, name, args) ==
    /\ func.name = name
    /\ Len(func.params) = Len(args)
    /\ \A i \in 1..Len(args) : Takes(func.params[i], args[i])
ParamBelow(p, q) ==
    /\ p # q
    /\ is_template(q)
    /\ p.ptr >= q.ptr
MoreSpecific(f, g) ==
    /\ f.params # g.params
    /\ \A i \in 1..Len(f.params) :
         f.params[i] = g.params[i] \/ ParamBelow(f.params[i], g.params[i])

(* A call finds something exactly when some function accepts its arguments, *)
(* only functions that do, and none when a more specific one does too.      *)
Selects(functions, name, args) ==
    LET found   == resolve_func(functions, name, args)
        accept  == {i \in 1..Len(functions) : Accepts(functions[i], name, args)}
    IN  /\ found \subseteq accept
        /\ accept # {} => found # {}
        /\ \A i \in found, j \in accept : ~ MoreSpecific(functions[j], functions[i])
=============================================================================
