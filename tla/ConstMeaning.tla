---------------------------- MODULE ConstMeaning ----------------------------
(***************************************************************************)
(* What const member functions are for: an object in an immutable variable *)
(* is not modified.  Which functions modify their receiver is the least    *)
(* set closed under assignments and calls, read from the program alone.    *)
(***************************************************************************)
EXTENDS ConstCheck

(* The variable whose object an access belongs to; a call makes a new one.  *)
RECURSIVE OwnerOf(_)
OwnerOf(e) ==
    CASE e.k = "var_ref" -> e.v[1]
      [] e.k = "index" \/ (e.k = "ufcs" /\ Callees(e) = {}) -> OwnerOf(e.c[1])
      [] OTHER -> ""

(* Step n of f modifies the object of a variable, when the functions of the *)
(* set modify their receivers.                                              *)
Modifies(step, name, modifying) ==
    \/ step.k = "lhs" /\ OwnerOf(step.e) = name
    \/ step.k = "call" /\ Callees(step.e) \cap modifying # {} /\ OwnerOf(Receiver(step.e)) = name
ModifyingMore(modifying) ==
    {f \in DOMAIN funcs : is_member_func(f) /\ \E n \in DOMAIN steps[f] : Modifies(steps[f][n], "self", modifying)}
Modifying ==
    LET upto[n \in 0..Len(funcs)] == IF n = 0 THEN {} ELSE ModifyingMore(upto[n - 1])
    IN  upto[Len(funcs)]

Member(f) == is_member_func(f)
CalledBy(f) == UNION {Callees(steps[f][n].e) : n \in {n \in DOMAIN steps[f] : steps[f][n].k = "call"}}

-----------------------------------------------------------------------------
(* What the check does not look at: a call without parentheses, a call      *)
(* among the arguments of another, a call of a member of another class, and *)
(* an assignment to an element.                                             *)
Overlooked == \E f \in DOMAIN funcs : Member(f) /\ \E n \in DOMAIN steps[f] :
    LET step == steps[f][n]
    IN  \/ step.k = "call" /\ OwnerOf(Receiver(step.e)) = "self" /\ \E g \in Callees(step.e) :
             ~ step.seen \/ funcs[g].class # funcs[f].class
        \/ step.k = "lhs" /\ OwnerOf(step.e) = "self" /\ visit_lhs_of_assign(step.e) = ""

(* Member functions that call each other in a circle, or that call one with *)
(* a declared return type: its body may not have been walked by then.       *)
Reach(f) ==
    LET upto[n \in 0..Len(funcs)] == IF n = 0 THEN CalledBy(f) ELSE upto[n - 1] \cup UNION {CalledBy(g) : g \in upto[n - 1]}
    IN  upto[Len(funcs)]
Circle == \E f, g \in DOMAIN funcs : f # g /\ g \in Reach(f) /\ f \in Reach(g)
CallsDeclared == \E f \in DOMAIN funcs : Member(f) /\ \E g \in CalledBy(f) \ {f} : funcs[g].declared

(* A member function that assigns to a member of another object of its own  *)
(* class counts as one that modifies its receiver.                          *)
AssignsToOther == \E f \in DOMAIN funcs : Member(f) /\ \E n \in DOMAIN steps[f] :
    LET step == steps[f][n]
    IN  \/ step.k = "lhs" /\ OwnerOf(step.e) # "self" /\ ClassOf(f, OwnerOf(step.e)) = funcs[f].class
        \/ step.k = "call" /\ Callees(step.e) # {} /\ OwnerOf(Receiver(step.e)) # "self"

(* main calls a member function whose return type is declared before that   *)
(* function has been walked, or one on an object that a call returns.       *)
DeclaredForMain == \E f \in DOMAIN funcs : ~ Member(f) /\ \E g \in CalledBy(f) : funcs[g].declared
OnTemporary == \E f \in DOMAIN funcs : \E n \in DOMAIN steps[f] :
    LET step == steps[f][n]
    IN  step.k = "call" /\ \E g \in Callees(step.e) : Member(g) /\ OwnerOf(Receiver(step.e)) = ""

Ended == stack = <<>> /\ \A f \in DOMAIN funcs : at[f] # 0
Rejected == Ended /\ failed > 0
Accepted == Ended /\ failed = 0 /\ ~ crashed

(* In a program that is accepted a function that counts as const modifies   *)
(* nothing of its receiver, in whatever order the functions were walked and *)
(* checked, and no function modifies the object of an immutable variable    *)
(* (const_member_func_checker, is_const_violated_invocation).               *)
ImmutablesKept ==
    Accepted =>
      \/ Overlooked \/ Circle \/ CallsDeclared
      \/ /\ \A f \in Modifying : is_const[f] = "no"
         /\ \A f \in DOMAIN funcs : \A n \in DOMAIN steps[f] : ~ Modifies(steps[f][n], "c", Modifying)

(* A program is refused only when some function modifies the object of an   *)
(* immutable variable, calls one whose type cannot be deduced, or returns   *)
(* nothing though it is declared to return a value.                         *)
RefusesOnlyModifications ==
    Rejected =>
      \/ Circle \/ AssignsToOther \/ DeclaredForMain \/ OnTemporary
      \/ \E f \in DOMAIN funcs : ReturnTypeMismatch(f) \/ f \in CalledBy(f)
      \/ \E f \in DOMAIN funcs : \E n \in DOMAIN steps[f] : Modifies(steps[f][n], "c", Modifying)

(* No function is walked within its own walk, an accepted program leaves no *)
(* function without a type and a result of the check, and the check ends    *)
(* and reads no variable that has not been analyzed yet, also in a program  *)
(* with errors and with functions that call themselves.                     *)
CheckEnds ==
    /\ \A m, n \in DOMAIN stack : m # n => stack[m].func # stack[n].func
    /\ Accepted => \A f \in DOMAIN funcs : ret_type[f] /\ is_const[f] # "unknown"
    /\ crashed => Circle \/ CallsDeclared
=============================================================================
