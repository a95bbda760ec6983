----------------------------- MODULE ConstCheck -----------------------------
(***************************************************************************)
(* Const member functions in the C++ compiler.  A member function is const *)
(* when nothing in its body modifies its receiver; a function that is not  *)
(* const cannot be called on an immutable variable.  The function is       *)
(* checked behind the walk of its body, or before, by the check of a       *)
(* function that calls it; a call is checked when it is walked.            *)
(*                                                                         *)
(* A body is a sequence of expressions, assignments and returns.  Its walk *)
(* makes the steps of steps[f], one after the other: the calls, the left   *)
(* side of an assignment, the assignment itself and the returns.  at[f] is *)
(* the step the walk of f has reached; what lies before it is analyzed.    *)
(***************************************************************************)
EXTENDS SyntaxTree, FiniteSets

CONSTANT Programs    \* families of sequences of [name, class, declared, body]; a free function has class ""

VARIABLES funcs, steps, stack, at, ret_type, is_const, unresolved, failed, crashed
vars == <<funcs, steps, stack, at, ret_type, is_const, unresolved, failed, crashed>>

(* Variables: c is an immutable object of class C, v a var; self is a var.  *)
(* Class C has the members n : int, d : D and a : [int], class D m : int.   *)
immutable(name) == name \in {"c", "k"}
ClassOf(f, name) == CASE name = "self" -> funcs[f].class [] name \in {"c", "v"} -> "C" [] OTHER -> ""

Callees(e) == IF e.k \in {"call", "ufcs"} THEN {g \in DOMAIN funcs : <<funcs[g].name>> = e.v} ELSE {}
IsCall(e) == e.k = "call" \/ Callees(e) # {}
is_member_func(f) == funcs[f].class # ""
is_ctor(f) == funcs[f].name = "dachs.init"

(* What the analyzer does for an expression, in the order of its walk.      *)
(* seen: the check of const member functions looks at it.  It does not walk *)
(* the arguments of a func_invocation, and its visitor for ufcs_invocation  *)
(* has no parameter for the walker and is never chosen.                     *)
StepOf(k, e, seen) == [k |-> k, e |-> e, seen |-> seen]
RECURSIVE Calls(_, _)
Calls(e, seen) ==
    LET below == FlattenSeq([i \in DOMAIN e.c |-> Calls(e.c[i], seen /\ e.k # "call")])
    IN  IF IsCall(e) THEN Append(below, StepOf("call", e, seen /\ e.k = "call")) ELSE below
StepsOf(s) ==
    CASE s.k = "assign" -> <<StepOf("lhs", s.c[1], TRUE)>> \o Calls(s.c[1], FALSE) \o Calls(s.c[2], TRUE)
                              \o <<StepOf("assign", s.c[1], FALSE)>>
      [] s.k = "return" -> Calls(s.c[1], TRUE) \o <<StepOf("return", s, FALSE)>>
      [] OTHER -> Calls(s, TRUE)
StepsOfFunc(f) == FlattenSeq([n \in DOMAIN funcs[f].body |-> StepsOf(funcs[f].body[n])])

(* var_ref_getter_for_lhs_of_assign, and visit_lhs_of_assign, which stops   *)
(* at an index access.                                                      *)
RECURSIVE var_ref_getter(_)
var_ref_getter(e) ==
    CASE e.k = "var_ref" -> e.v[1]
      [] e.k \in {"ufcs", "index"} -> var_ref_getter(e.c[1])
      [] OTHER -> ""
RECURSIVE visit_lhs_of_assign(_)
visit_lhs_of_assign(e) ==
    CASE e.k = "ufcs" /\ e.c[1].k = "ufcs" -> visit_lhs_of_assign(e.c[1])
      [] e.k = "ufcs" /\ e.c[1].k = "var_ref" -> e.c[1].v[1]
      [] OTHER -> ""

(* const_func_invocation_checker: some variable the receiver mentions is    *)
(* immutable.  The name of a called function is an immutable variable.      *)
RECURSIVE MentionsImmutable(_)
MentionsImmutable(e) ==
    CASE e.k = "var_ref" -> immutable(e.v[1])
      [] e.k = "index" -> MentionsImmutable(e.c[1])
      [] OTHER -> e.k = "call" \/ \E i \in DOMAIN e.c : MentionsImmutable(e.c[i])
Receiver(e) == e.c[1]

-----------------------------------------------------------------------------
(* check_const, for function f of a state s = [is_const, crashed].  A call  *)
(* that is not resolved yet, or failed, is passed over; a variable that is  *)
(* not resolved yet has no symbol, and its type is read from nothing.       *)
Unresolved(f, n) == n >= at[f] \/ <<f, n>> \in unresolved

RECURSIVE check_const(_, _, _)
visit_invocation_unguarded(s, active, f, n, g) ==    \* mutant: a call of itself is followed
    LET nested == check_const(s, active \cup {g}, g)
        known  == IF s.is_const[g] # "unknown" THEN s
                  ELSE [s EXCEPT !.is_const = [nested.is_const EXCEPT ![g] = nested.result], !.crashed = nested.crashed]
    IN  CASE Unresolved(f, n) \/ funcs[g].class # funcs[f].class -> s
          [] ~ Unresolved(f, n) /\ funcs[g].class = funcs[f].class /\ s.is_const[g] = "unknown" /\ g \in active ->
               [s EXCEPT !.crashed = TRUE]
          [] OTHER -> [known EXCEPT !.result = known.is_const[g]]
visit_invocation_only_itself(s, active, f, n, g) == s    \* mutant: calls are not looked at
visit_invocation(s, active, f, n, g) ==
    LET nested == check_const(s, active \cup {g}, g)
        known  == IF s.is_const[g] # "unknown" THEN s
                  ELSE [s EXCEPT !.is_const = [nested.is_const EXCEPT ![g] = nested.result], !.crashed = nested.crashed]
    IN  CASE Unresolved(f, n) \/ g = f \/ funcs[g].class # funcs[f].class -> s
          [] ~ Unresolved(f, n) /\ g # f /\ funcs[g].class = funcs[f].class /\ s.is_const[g] = "unknown" /\ g \in active ->
               [s EXCEPT !.crashed = TRUE]
          [] OTHER -> [known EXCEPT !.result = known.is_const[g]]
visit_lhs_any(s, f, n, name) == IF name # "" THEN [s EXCEPT !.result = "no"] ELSE s    \* mutant: any variable counts
visit_lhs(s, f, n, name) ==
    CASE name # "" /\ n >= at[f] -> [s EXCEPT !.crashed = TRUE]
      [] name # "" /\ n < at[f] /\ ClassOf(f, name) = funcs[f].class -> [s EXCEPT !.result = "no"]
      [] OTHER -> s
check_const(s, active, f) ==
    IF ~ is_member_func(f) \/ is_ctor(f) THEN [is_const |-> s.is_const, crashed |-> s.crashed, result |-> "no"]
    ELSE FoldLeft(LAMBDA r, n :
                    LET step == steps[f][n]
                    IN  CASE r.crashed \/ r.result = "no" \/ ~ step.seen -> r
                          [] ~ r.crashed /\ r.result = "yes" /\ step.seen /\ step.k = "lhs" ->
                               visit_lhs(r, f, n, visit_lhs_of_assign(step.e))
                          [] OTHER -> IF Callees(step.e) = {} THEN r
                                      ELSE visit_invocation(r, active, f, n, CHOOSE g \in Callees(step.e) : TRUE),
                  [is_const |-> s.is_const, crashed |-> s.crashed, result |-> "yes"], [n \in DOMAIN steps[f] |-> n])

-----------------------------------------------------------------------------
Init ==
    /\ \E n \in DOMAIN Programs : funcs \in Programs[n]
    /\ steps = [f \in DOMAIN funcs |-> StepsOfFunc(f)]
    /\ stack = <<>> /\ at = [f \in DOMAIN funcs |-> 0]
    /\ ret_type = [f \in DOMAIN funcs |-> funcs[f].declared]
    /\ is_const = [f \in DOMAIN funcs |-> "unknown"]
    /\ unresolved = {} /\ failed = 0 /\ crashed = FALSE

Frame(f) == [func |-> f, saved |-> failed, walked |-> FALSE]
Top == Last(stack)
Here == steps[Top.func][at[Top.func]]
AtStep(k) == ~ crashed /\ stack # <<>> /\ at[Top.func] <= Len(steps[Top.func]) /\ Here.k = k
Advance == at' = [at EXCEPT ![Top.func] = @ + 1]
Enter(f) == at' = [at EXCEPT ![f] = 1]

(* The functions of the module, in their order; the forward analyzer has    *)
(* moved the member functions behind the others.                            *)
VisitNext ==
    /\ ~ crashed /\ stack = <<>>
    /\ \E f \in DOMAIN funcs :
         /\ at[f] = 0 /\ \A g \in DOMAIN funcs : g < f => at[g] # 0
         /\ Enter(f) /\ stack' = <<Frame(f)>>
    /\ UNCHANGED <<funcs, steps, ret_type, is_const, unresolved, failed, crashed>>

VisitLhs ==
    /\ AtStep("lhs") /\ Advance
    /\ UNCHANGED <<funcs, steps, stack, ret_type, is_const, unresolved, failed, crashed>>

(* visit(assignment_stmt): the variable on the left must not be immutable.  *)
VisitAssignment ==
    /\ AtStep("assign") /\ Advance
    /\ failed' = IF immutable(var_ref_getter(Here.e)) THEN failed + 1 ELSE failed
    /\ UNCHANGED <<funcs, steps, stack, ret_type, is_const, unresolved, crashed>>

VisitReturn ==
    /\ AtStep("return") /\ Advance
    /\ UNCHANGED <<funcs, steps, stack, ret_type, is_const, unresolved, failed, crashed>>

(* resolve_func_call: a callee without a return type is walked first.  When *)
(* its walk is under way its type is taken from the returns walked so far.  *)
Callee == CHOOSE g \in Callees(Here.e) : TRUE
ReturnWalked(g) == \E n \in 1..at[g] - 1 : steps[g][n].k = "return"
WalkCallee ==
    /\ AtStep("call") /\ Callees(Here.e) # {}
    /\ ~ ret_type[Callee] /\ at[Callee] = 0
    /\ stack' = Append([stack EXCEPT ![Len(stack)].saved = failed, ![Len(stack)].walked = TRUE], Frame(Callee))
    /\ Enter(Callee)
    /\ UNCHANGED <<funcs, steps, ret_type, is_const, unresolved, failed, crashed>>

(* is_const_violated_invocation: a callee that is not known to be const     *)
(* counts as one that modifies.                                             *)
is_const_violated_receiver_only(e, g) == is_member_func(g) /\ MentionsImmutable(Receiver(e))    \* mutant: const is not asked
is_const_violated_invocation(e, g) == is_member_func(g) /\ is_const[g] # "yes" /\ MentionsImmutable(Receiver(e))

Forgotten == [stack EXCEPT ![Len(stack)].walked = FALSE]
CalleeFailed == Top.walked /\ failed > Top.saved
Invoke ==
    /\ AtStep("call") /\ Advance
    /\ \/ Callees(Here.e) = {} /\ UNCHANGED <<stack, ret_type, unresolved, failed>>
       \/ /\ Callees(Here.e) # {} /\ (ret_type[Callee] \/ at[Callee] # 0)
          /\ LET typed == ret_type[Callee] \/ ReturnWalked(Callee)
             IN  IF CalleeFailed \/ ~ typed
                 THEN /\ failed' = failed + 1 /\ unresolved' = unresolved \cup {<<Top.func, at[Top.func]>>}
                      /\ UNCHANGED ret_type
                 ELSE /\ failed' = IF is_const_violated_invocation(Here.e, Callee) THEN failed + 1 ELSE failed
                      /\ ret_type' = [ret_type EXCEPT ![Callee] = TRUE]
                      /\ UNCHANGED unresolved
          /\ stack' = Forgotten
    /\ UNCHANGED <<funcs, steps, is_const, crashed>>

(* The end of visit(function_definition).  A function declared to return an *)
(* int that returns nothing fails before the check.                         *)
ReturnTypeMismatch(f) == funcs[f].declared /\ \A n \in DOMAIN steps[f] : steps[f][n].k # "return"
Leave ==
    /\ ~ crashed /\ stack # <<>> /\ at[Top.func] > Len(steps[Top.func])
    /\ LET f == Top.func
           r == check_const([is_const |-> is_const, crashed |-> FALSE], {f}, f)
       IN  IF ReturnTypeMismatch(f)
           THEN failed' = failed + 1 /\ UNCHANGED <<ret_type, is_const, crashed>>
           ELSE /\ ret_type' = [ret_type EXCEPT ![f] = TRUE]
                /\ is_const' = [r.is_const EXCEPT ![f] = r.result]
                /\ crashed' = r.crashed
                /\ UNCHANGED failed
    /\ stack' = Front(stack)
    /\ UNCHANGED <<funcs, steps, at, unresolved>>

Next == VisitNext \/ VisitLhs \/ VisitAssignment \/ VisitReturn \/ WalkCallee \/ Invoke \/ Leave
Spec == Init /\ [][Next]_vars
=============================================================================
