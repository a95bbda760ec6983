---------------------------- MODULE FuncAnalysis ----------------------------
(***************************************************************************)
(* symbol_analyzer (analyzer.cpp) over the functions of a program: the     *)
(* walk, calls that analyze their callee on demand, function templates     *)
(* that are instantiated in the middle of the walk of their caller, and    *)
(* the deduction of return types, also through recursion.                  *)
(*                                                                         *)
(* The recursion of the walk is the stack `frames'.  A body is a sequence  *)
(* of statements: "ret" (return), "maybe" (a return in an `if' without     *)
(* else) and "do" (an expression).  An expression is a literal, the first  *)
(* parameter, or a call.  Constructors, copiers, lambdas and the const     *)
(* check belong to classes and are left out; so are redefinitions, which   *)
(* the forward analyzer refuses before.                                    *)
(***************************************************************************)
EXTENDS Overload, FiniteSets

CONSTANTS
    Bases,      \* the names of types: of the builtin ones and of classes
    Programs    \* sequences of function definitions
ASSUME BasesAssumption == {"none", "param", "unit", "bool", "template"} \subseteq Bases

NoType == any_type("none", 0)
Param == any_type("param", 0)      \* the first parameter as an expression
boolean == any_type("bool", 0)

IsTemplateFunc(f) == \E i \in 1..Len(f.params) : is_template(f.params[i])
IsReturn(s) == s.form \in {"ret", "maybe"}
IsCall(s) == s.call # "none"

Type == [base : Bases, ptr : Nat]
Statement == [form : {"ret", "maybe", "do"}, call : STRING, args : Seq(Type)]
FuncDef == [name : STRING, kind : {"func", "proc"}, params : Seq(Type), declared : Type,
            query : BOOLEAN, body : Seq(Statement)]

(* A procedure has no declared return type, a statement without a call has  *)
(* one operand, and the type of an operand is never a template: of the      *)
(* parameters that are, only instances are walked.                          *)
IsOperand(f, e) == ~ is_template(e) /\ (e = Param => Len(f.params) > 0)
IsFunction(f) ==
    /\ f.kind = "proc" => f.declared = NoType
    /\ \A k \in 1..Len(f.body) :
         /\ ~ IsCall(f.body[k]) => Len(f.body[k].args) = 1
         /\ \A n \in 1..Len(f.body[k].args) : IsOperand(f, f.body[k].args[n])

(* check_functions_duplication has passed.                                  *)
IsProgram(p) ==
    /\ \A i, j \in 1..Len(p) : p[i].name = p[j].name /\ p[i].params = p[j].params => i = j
    /\ \A i \in 1..Len(p) : IsFunction(p[i])
ASSUME ProgramsAssumption == Programs \subseteq Seq(FuncDef) /\ \A p \in Programs : IsProgram(p)

VARIABLES
    functions,   \* global->functions: the program, then the instances
    toplevel,    \* how many of them the program itself has
    ret_type,    \* return type of each, NoType while not known
    typed,       \* type of each statement of each, NoType while not known
    callee,      \* callee_scope of each statement of each, 0 for none
    visited,     \* already_visited_functions
    frames,      \* functions being walked, the innermost last
    walked,      \* how many functions of the program the walk has reached
    failed,      \* number of errors
    verdict

vars == <<functions, toplevel, ret_type, typed, callee, visited, frames, walked,
          failed, verdict>>

Frame(f) == [func |-> f, pc |-> 1, stage |-> "stmt", target |-> 0, saved |-> 0]
Stages == {"stmt", "instance", "resolved", "walked"}
FrameSet == [func : Nat, pc : Nat, stage : Stages, target : Nat, saved : Nat]

Top == Last(frames)
Here == functions[Top.func]
Stmt == Here.body[Top.pc]
At(stage) == /\ frames # <<>> /\ Top.stage = stage
             /\ Top.pc <= Len(Here.body)
Replaced(frame) == Append(Front(frames), frame)
To(stage) == [Top EXCEPT !.stage = stage]
Advanced == Replaced([To("stmt") EXCEPT !.pc = Top.pc + 1])
TypeHere(e) == IF e = Param THEN Here.params[1] ELSE e
ArgTypes == [i \in 1..Len(Stmt.args) |-> TypeHere(Stmt.args[i])]

Init ==
    /\ functions \in Programs
    /\ toplevel = Len(functions)
    /\ ret_type = [i \in 1..Len(functions) |-> functions[i].declared]
    /\ typed = [i \in 1..Len(functions) |-> [k \in 1..Len(functions[i].body) |-> NoType]]
    /\ callee = [i \in 1..Len(functions) |-> [k \in 1..Len(functions[i].body) |-> 0]]
    /\ visited = {} /\ frames = <<>> /\ walked = 0 /\ failed = 0
    /\ verdict = "none"

-----------------------------------------------------------------------------
(* visit(function_definition), on top of the frames fs.                    *)

QueryProc(f) == functions[f].kind = "proc" /\ functions[f].query
ReturnTypes(f) == {typed[f][k] : k \in {k \in 1..Len(functions[f].body) : IsReturn(functions[f].body[k])}}

VisitBodyUntyped(f, fs) ==    \* mutant: what has no return type yet is walked again
    /\ f \notin visited \/ ret_type[f] = NoType
    /\ ~ QueryProc(f) /\ ~ IsTemplateFunc(functions[f])
    /\ visited' = visited \cup {f}
    /\ frames' = Append(fs, Frame(f))
    /\ UNCHANGED <<failed, ret_type>>

VisitBody(f, fs) ==
    /\ f \notin visited /\ ~ QueryProc(f) /\ ~ IsTemplateFunc(functions[f])
    /\ visited' = visited \cup {f}
    /\ frames' = Append(fs, Frame(f))
    /\ UNCHANGED <<failed, ret_type>>

VisitNothing(f, fs) ==
    /\ IF f \in visited
       THEN \/ ret_type[f] # NoType
            \/ functions[f].kind = "proc"
            \/ IsTemplateFunc(functions[f])
       ELSE ~ QueryProc(f) /\ IsTemplateFunc(functions[f])
    /\ visited' = visited \cup {f}
    /\ frames' = fs
    /\ UNCHANGED <<failed, ret_type>>

VisitQueryProc(f, fs) ==
    /\ f \notin visited /\ QueryProc(f)
    /\ visited' = visited \cup {f}
    /\ frames' = fs
    /\ failed' = failed + 1
    /\ UNCHANGED ret_type

(* recursive_function_return_type_resolver: the returns that have a type by *)
(* now decide.                                                              *)
VisitAgain(f, fs) ==
    /\ f \in visited /\ ret_type[f] = NoType
    /\ functions[f].kind = "func" /\ ~ IsTemplateFunc(functions[f])
    /\ LET known == ReturnTypes(f) \ {NoType}
       IN  \/ /\ Cardinality(known) = 1
              /\ ret_type' = [ret_type EXCEPT ![f] = CHOOSE t \in known : TRUE]
              /\ UNCHANGED failed
           \/ /\ Cardinality(known) # 1
              /\ failed' = failed + 1
              /\ UNCHANGED ret_type
    /\ frames' = fs
    /\ UNCHANGED visited

Visit(f, fs) ==
    \/ VisitBody(f, fs)
    \/ VisitNothing(f, fs)
    \/ VisitQueryProc(f, fs)
    \/ VisitAgain(f, fs)

WalkNext ==
    /\ frames = <<>> /\ walked < toplevel
    /\ walked' = walked + 1
    /\ Visit(walked + 1, <<>>)
    /\ UNCHANGED <<functions, toplevel, typed, callee, verdict>>

-----------------------------------------------------------------------------
(* The statements of a body.                                               *)

(* An expression without a call has its type at once.                      *)
Value ==
    /\ At("stmt") /\ ~ IsCall(Stmt)
    /\ typed' = [typed EXCEPT ![Top.func] = [typed[Top.func] EXCEPT ![Top.pc] = TypeHere(Stmt.args[1])]]
    /\ frames' = Advanced
    /\ UNCHANGED <<functions, toplevel, ret_type, callee, visited, walked, failed, verdict>>

Found == resolve_func(functions, Stmt.call, ArgTypes)

(* resolve_func_call: not found, or ambiguous.                              *)
CallUnresolved ==
    /\ At("stmt") /\ IsCall(Stmt)
    /\ Cardinality(Found) # 1
    /\ failed' = failed + 1
    /\ frames' = Advanced
    /\ UNCHANGED <<functions, toplevel, ret_type, typed, callee, visited, walked, verdict>>

CallResolved ==
    /\ At("stmt") /\ IsCall(Stmt)
    /\ \E f \in Found :
         /\ Found = {f} /\ ~ IsTemplateFunc(functions[f])
         /\ frames' = Replaced([To("resolved") EXCEPT !.target = f])
    /\ UNCHANGED <<functions, toplevel, ret_type, typed, callee, visited, walked, failed, verdict>>

(* instantiate_function_from_template: a copy of the definition goes        *)
(* through the forward analyzer, which defines it in the global scope, and  *)
(* the argument types replace its parameter types.                          *)
Instantiate ==
    /\ At("stmt") /\ IsCall(Stmt)
    /\ \E f \in Found :
         /\ Found = {f} /\ IsTemplateFunc(functions[f])
         /\ functions' = Append(functions, [functions[f] EXCEPT !.params = ArgTypes])
         /\ ret_type' = Append(ret_type, functions[f].declared)
         /\ typed' = Append(typed, [k \in 1..Len(functions[f].body) |-> NoType])
         /\ callee' = Append(callee, [k \in 1..Len(functions[f].body) |-> 0])
         /\ frames' = Replaced([To("instance") EXCEPT !.target = Len(functions) + 1])
    /\ UNCHANGED <<toplevel, visited, walked, failed, verdict>>

(* Its body is walked; whether that failed is not looked at.                *)
WalkInstance ==
    /\ At("instance")
    /\ Visit(Top.target, Replaced(To("resolved")))
    /\ UNCHANGED <<functions, toplevel, typed, callee, walked, verdict>>

(* A callee without a return type is walked first, for the first time or    *)
(* again.                                                                   *)
WalkCallee ==
    /\ At("resolved") /\ ret_type[Top.target] = NoType
    /\ Visit(Top.target, Replaced([To("walked") EXCEPT !.saved = failed]))
    /\ UNCHANGED <<functions, toplevel, typed, callee, walked, verdict>>

CallFailsRetries ==    \* mutant: the call is tried again instead of reported
    /\ At("walked")
    /\ failed > Top.saved \/ ret_type[Top.target] = NoType
    /\ frames' = Replaced(To("stmt"))
    /\ UNCHANGED <<functions, toplevel, ret_type, typed, callee, visited, walked, failed, verdict>>

(* It failed to be analyzed, or its type is still not known.                *)
CallFails ==
    /\ At("walked")
    /\ failed > Top.saved \/ ret_type[Top.target] = NoType
    /\ failed' = failed + 1
    /\ frames' = Advanced
    /\ UNCHANGED <<functions, toplevel, ret_type, typed, callee, visited, walked, verdict>>

CallReturnsUnchecked ==    \* mutant: the errors of the callee's walk are not looked at, nor whether its type is known
    /\ At("walked") \/ (At("resolved") /\ ret_type[Top.target] # NoType)
    /\ typed' = [typed EXCEPT ![Top.func] = [typed[Top.func] EXCEPT ![Top.pc] = ret_type[Top.target]]]
    /\ callee' = [callee EXCEPT ![Top.func] = [callee[Top.func] EXCEPT ![Top.pc] = Top.target]]
    /\ UNCHANGED failed
    /\ frames' = Advanced
    /\ UNCHANGED <<functions, toplevel, ret_type, visited, walked, verdict>>

(* visit(func_invocation): the call takes the return type of its callee.    *)
CallReturns ==
    /\ \/ At("walked") /\ failed <= Top.saved
       \/ At("resolved")
    /\ ret_type[Top.target] # NoType
    /\ typed' = [typed EXCEPT ![Top.func] = [typed[Top.func] EXCEPT ![Top.pc] = ret_type[Top.target]]]
    /\ callee' = [callee EXCEPT ![Top.func] = [callee[Top.func] EXCEPT ![Top.pc] = Top.target]]
    /\ failed' = IF Stmt.call = "main" THEN failed + 1 ELSE failed
    /\ frames' = Advanced
    /\ UNCHANGED <<functions, toplevel, ret_type, visited, walked, verdict>>

-----------------------------------------------------------------------------
(* The end of a body, and of the program.                                  *)

NumReturns(f) == Cardinality({k \in 1..Len(functions[f].body) : IsReturn(functions[f].body[k])})
Deduced(f) == IF ReturnTypes(f) = {} THEN unit ELSE CHOOSE t \in ReturnTypes(f) : TRUE

NotDeducibleTrusting(f) ==    \* mutant: a return type that is already known is not compared
    \/ NoType \in ReturnTypes(f)
    \/ ret_type[f] = NoType /\ Cardinality(ReturnTypes(f)) > 1

(* deduce_return_type fails.                                                *)
NotDeducible(f) ==
    \/ NoType \in ReturnTypes(f)
    \/ functions[f].kind = "proc" /\ NumReturns(f) > 0 /\ (NumReturns(f) # 1 \/ Deduced(f) # unit)
    \/ Cardinality(ReturnTypes(f)) > 1
    \/ /\ ret_type[f] # NoType
       /\ IF ReturnTypes(f) # {} /\ is_template(ret_type[f])
          THEN ~ is_instantiated_from(Deduced(f), ret_type[f])
          ELSE ret_type[f] # Deduced(f)

(* check_unterminated_block: some statement returns on every path.          *)
Terminated(f) == \E k \in 1..Len(functions[f].body) : functions[f].body[k].form = "ret"

Leave ==
    /\ frames # <<>> /\ Top.stage = "stmt" /\ Top.pc > Len(Here.body)
    /\ LET f == Top.func
       IN  IF NotDeducible(f)
           THEN failed' = failed + 1 /\ UNCHANGED ret_type
           ELSE /\ ret_type' = [ret_type EXCEPT ![f] = Deduced(f)]
                /\ failed' = IF \/ Deduced(f) # unit /\ ~ Terminated(f)
                                \/ Here.query /\ Deduced(f) # boolean
                             THEN failed + 1 ELSE failed
    /\ frames' = Front(frames)
    /\ UNCHANGED <<functions, toplevel, typed, callee, visited, walked, verdict>>

Mains == {i \in 1..Len(functions) : functions[i].name = "main"}
MainIsFine == /\ Cardinality(Mains) = 1
              /\ \A i \in Mains : functions[i].params = <<>>

(* check_semantics behind the walk: analyze_main_func, then the verdict.    *)
Finish ==
    /\ frames = <<>> /\ walked = toplevel /\ verdict = "none"
    /\ failed' = IF MainIsFine THEN failed ELSE failed + 1
    /\ verdict' = IF failed' > 0 THEN "rejected" ELSE "accepted"
    /\ UNCHANGED <<functions, toplevel, ret_type, typed, callee, visited, frames, walked>>

Done == verdict # "none" /\ UNCHANGED vars

Step == \/ WalkNext \/ Value \/ CallUnresolved \/ CallResolved \/ Instantiate
        \/ WalkInstance \/ WalkCallee \/ CallFails \/ CallReturns \/ Leave \/ Finish
Next == Step \/ Done

(* The analyzer is one thread: it goes on while it can.                     *)
Spec == Init /\ [][Next]_vars /\ WF_vars(Step)
-----------------------------------------------------------------------------
(* The tables of the analyzer have an entry for every function and every    *)
(* statement of it, instances included.                                     *)
TypeOK ==
    /\ functions \in Seq(FuncDef) /\ toplevel \in 0..Len(functions) /\ walked \in 0..toplevel
    /\ ret_type \in Seq(Type) /\ Len(ret_type) = Len(functions)
    /\ typed \in Seq(Seq(Type)) /\ Len(typed) = Len(functions)
    /\ callee \in Seq(Seq(Nat)) /\ Len(callee) = Len(functions)
    /\ \A i \in 1..Len(functions) :
         /\ Len(typed[i]) = Len(functions[i].body) /\ Len(callee[i]) = Len(functions[i].body)
         /\ \A k \in 1..Len(functions[i].body) : callee[i][k] <= Len(functions)
    /\ visited \subseteq 1..Len(functions)
    /\ frames \in Seq(FrameSet)
    /\ \A n \in 1..Len(frames) :
         /\ frames[n].func \in visited
         /\ frames[n].pc \in 1..(Len(functions[frames[n].func].body) + 1)
         /\ frames[n].target <= Len(functions) /\ frames[n].saved <= failed
    /\ failed \in Nat /\ verdict \in {"none", "accepted", "rejected"}

(* The walk never enters a function that it is already in, however the      *)
(* functions call each other: already_visited_functions is entered before   *)
(* the body is (analyzer.cpp:1145).                                         *)
NeverReentered == \A m, n \in 1..Len(frames) : frames[m].func = frames[n].func => m = n

InstantiatedOnce ==
    \A i, j \in 1..Len(functions) :
       functions[i].name = functions[j].name /\ functions[i].params = functions[j].params => i = j

(* In every table of functions the walk builds, every call of a statement   *)
(* that is reached finds a most specific function that accepts its          *)
(* arguments, whatever the order of the table (scope.cpp:187); and though   *)
(* instantiate_function_from_template looks for no earlier instance         *)
(* (analyzer.cpp:598), a template is never instantiated twice for the same  *)
(* argument types, not even by a call in its own instance: the instance is  *)
(* in the global scope before its body is walked, and the call selects it.  *)
CallsSelect ==
    /\ InstantiatedOnce
    /\ At("stmt") /\ IsCall(Stmt) => Selects(functions, Stmt.call, ArgTypes)

Body(i) == 1..Len(functions[i].body)
Analyzed == {i \in visited : ~ IsTemplateFunc(functions[i])}
TemplateReturn(i) == is_template(functions[i].declared)

SoundCall(i, k) ==
    LET f == callee[i][k]
    IN  /\ f \in Analyzed /\ (TemplateReturn(f) \/ typed[i][k] = ret_type[f])
        /\ functions[i].body[k].call # "main"
SoundReturns(i) ==
    /\ ret_type[i] # NoType
    /\ \A k \in Body(i) : IsReturn(functions[i].body[k]) => typed[i][k] = ret_type[i]
    /\ ret_type[i] # unit => Terminated(i)
    /\ functions[i].kind = "proc" => ret_type[i] = unit

(* Whatever the order of analysis and however early a recursive call took   *)
(* the type its callee had at that time: in an accepted program every call  *)
(* of an analyzed function has a callee that was analyzed too, and the      *)
(* return type the callee has in the end (unless that is declared as a      *)
(* template, like `func f : pointer'); every function has one return type,  *)
(* which all its returns have, and returns on every path unless it is unit; *)
(* a procedure returns nothing, and main is not called.                     *)
SoundTypes ==
    verdict = "accepted" =>
        \A i \in Analyzed :
            /\ SoundReturns(i)
            /\ \A k \in Body(i) : IsCall(functions[i].body[k]) => SoundCall(i, k)

(* A return type that is known never changes again, whether it was          *)
(* declared, deduced, or guessed in the middle of a recursion; a declared   *)
(* template may only become one of its instances.                           *)
ReturnTypeStable ==
    [][\A i \in 1..Len(functions) :
          ret_type[i] # NoType =>
              \/ ret_type'[i] = ret_type[i]
              \/ is_instantiated_from(ret_type'[i], ret_type[i])]_vars

(* However functions and templates call each other, the analysis comes to a *)
(* verdict (no call passes a type that its caller's parameter is nested in).*)
Terminates == <>(verdict # "none")
=============================================================================
