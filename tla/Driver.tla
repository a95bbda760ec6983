------------------------------- MODULE Driver -------------------------------
(***************************************************************************)
(* The command line of the C++ compiler (main.cpp, compiler.cpp,           *)
(* executable_generator.cpp) as processes that share a file system: the    *)
(* options, the loop over the sources, the objects, the linker, the        *)
(* executable that --run starts and removes, and the exit status.          *)
(*                                                                         *)
(* A source is what its first defect makes of it; the stages of the        *)
(* compiler are pure, so the whole way of one source is one step.  What is *)
(* written to disk is the sequence of sources it was made from.  Linker    *)
(* and LLVM are external: they may fail where they can.  The directories   *)
(* are writable.                                                           *)
(***************************************************************************)
EXTENDS Naturals, Sequences, FiniteSets, SequencesExt

CONSTANTS
    Proc,        \* processes
    File,        \* names of sources: what ends with ".dcs"
    BaseOf,      \* the name without directory and extension
    Scenarios    \* command lines, defects and environments to consider

Defects == {"none", "unreadable", "syntax", "semantic", "unimplemented", "emission", "memory"}
Dirs == {"cwd", "tmp"}
Bases == {BaseOf[f] : f \in File}
Path == [dir : Dirs, base : Bases, kind : {"object", "executable"}]

Scenario == [args : [Proc -> Seq(STRING)], defect : [File -> Defects],
             relative : [Proc -> BOOLEAN]]
ASSUME DriverAssumption == BaseOf \in [File -> STRING] /\ Scenarios \subseteq Scenario

VARIABLES
    scenario,
    pc,      \* where each process is
    at,      \* the source or object each loop is at
    error,   \* exception that is kept for later (check_syntax, remove), or "none"
    exit,    \* exit status, or Running, Killed, Aborted
    ran,     \* what --run has executed
    told,    \* sources each process has reported an error of
    killed,  \* whether the linker was ended by a signal
    crossed, \* history: processes that ran at once with one that uses their paths
    disk     \* what each path holds, NoFile if there is nothing

vars == <<scenario, pc, at, error, exit, ran, told, killed, crossed, disk>>

Running == 256
Killed == 257
Aborted == 258
NoFile == [there |-> FALSE, code |-> <<>>]
Holds(c) == [there |-> TRUE, code |-> c]

-----------------------------------------------------------------------------
(* Options. *)

(* All arguments behind --run belong to the program.                        *)
Own(a) == IF \E i \in DOMAIN a : a[i] = "--run"
          THEN SubSeq(a, 1, SelectInSeq(a, LAMBDA x : x = "--run") - 1) ELSE a
Flags == {"--release"}       \* options without influence on what follows
(* The arguments of one kind in their order: a turn of the loop over argv   *)
(* pushes its argument to the list of its kind.                             *)
Kept(a, Kind) ==
    LET kept[i \in 0..Len(a)] ==
            IF i = 0 THEN <<>>
            ELSE IF a[i] \in Kind THEN Append(kept[i - 1], a[i]) ELSE kept[i - 1]
    IN  kept[Len(a)]
parse_command_options(a) ==
    [run |-> \E i \in DOMAIN a : a[i] = "--run",
     help |-> \E i \in DOMAIN Own(a) : Own(a)[i] = "--help",
     source_files |-> Kept(Own(a), File),
     rest_args |-> Kept(Own(a), STRING \ (File \cup Flags \cup {"--help"}))]

Opts(p) == parse_command_options(scenario.args[p])
Sources(p) == Opts(p).source_files

(* Which stages each action of the compiler runs for a source.              *)
Stages(action) ==
    CASE action \in {"--dump-ast", "--check-syntax"} -> {"read", "parse"}
      [] action = "--dump-sym-table" -> {"read", "parse", "analyze"}
      [] OTHER -> {"read", "parse", "analyze", "emit"}
Actions == {"--dump-ast", "--dump-sym-table", "--emit-llvm", "--output-obj", "--check-syntax"}

(* The action main chooses, or "usage".                                     *)
Action(p) ==
    LET rest == Opts(p).rest_args IN
    CASE Len(rest) = 0 -> IF Opts(p).run THEN "--run" ELSE "compile"
      [] Len(rest) = 1 /\ rest[1] \in Actions -> rest[1]
      [] OTHER -> "usage"

(* Where a defect shows, and as which exception.                            *)
StageOf == [unreadable |-> "read", syntax |-> "parse", semantic |-> "analyze",
            unimplemented |-> "analyze", emission |-> "emit", memory |-> "emit", none |-> "none"]
Thrown == [unreadable |-> "runtime_error", syntax |-> "parse_error",
           semantic |-> "semantic_check_error", unimplemented |-> "not_implemented_error",
           emission |-> "code_generation_error", memory |-> "bad_alloc", none |-> "none"]

(* The exceptions of exception.hpp derive from std::runtime_error, and all  *)
(* from std::exception; the first clause that matches is taken.             *)
Ancestors(e) == {e, "exception"} \cup (IF e = "bad_alloc" THEN {} ELSE {"runtime_error"})
Clauses == <<<<"runtime_error", 3>>, <<"parse_error", 10>>, <<"semantic_check_error", 11>>,
             <<"code_generation_error", 12>>, <<"not_implemented_error", 13>>,
             <<"exception", 255>>>>
do_compiler_action(e) ==
    IF e = "none" THEN 0
    ELSE Clauses[CHOOSE i \in DOMAIN Clauses :
                    /\ Clauses[i][1] \in Ancestors(e)
                    /\ \A j \in 1..(i - 1) : Clauses[j][1] \notin Ancestors(e)][2]

-----------------------------------------------------------------------------
(* Files. *)

parent(p) == IF Action(p) = "--run" THEN "tmp" ELSE "cwd"
ObjectPath(p, i) == [dir |-> parent(p), base |-> BaseOf[Sources(p)[i]], kind |-> "object"]
ExecutablePath(p) == [dir |-> parent(p), base |-> BaseOf[Sources(p)[1]], kind |-> "executable"]
ObjectPaths(p) == {ObjectPath(p, i) : i \in DOMAIN Sources(p)}

Init ==
    /\ scenario \in Scenarios
    /\ pc = [p \in Proc |-> "main"]
    /\ at = [p \in Proc |-> 1]
    /\ error = [p \in Proc |-> "none"]
    /\ exit = [p \in Proc |-> Running]
    /\ ran = [p \in Proc |-> NoFile]
    /\ told = [p \in Proc |-> {}]
    /\ killed = [p \in Proc |-> FALSE]
    /\ crossed = {}
    /\ disk = [x \in Path |-> NoFile]

(* Steps: a process ends, or goes to a place of its program.                *)
Ends(p, status) ==
    /\ exit' = [exit EXCEPT ![p] = status]
    /\ pc' = [pc EXCEPT ![p] = "done"]
    /\ UNCHANGED <<scenario, at, ran, killed>>
Throws(p, e) == Ends(p, do_compiler_action(e))
Goes(p, place, i) ==
    /\ pc' = [pc EXCEPT ![p] = place]
    /\ at' = [at EXCEPT ![p] = i]
    /\ UNCHANGED <<scenario, exit, ran, killed>>

(* Two processes use a path both.                                           *)
Shares(p, q) == /\ parent(p) = parent(q)
                /\ \E f \in ToSet(Sources(p)), g \in ToSet(Sources(q)) : BaseOf[f] = BaseOf[g]
Busy(p) == pc[p] \notin {"main", "done"}

(* main up to the choice of the action.                                     *)
Main(p) ==
    /\ pc[p] = "main"
    /\ crossed' = crossed \cup UNION {{p, q} : q \in {q \in Proc \ {p} : Busy(q) /\ Shares(p, q)}}
    /\ CASE Opts(p).help -> Ends(p, 0)
         [] ~Opts(p).help /\ Sources(p) = <<>> -> Ends(p, 2)
         [] ~Opts(p).help /\ Sources(p) # <<>> /\ Action(p) = "usage" -> Ends(p, 1)
         [] OTHER -> Goes(p, "source", 1)
    /\ UNCHANGED <<error, told, disk>>

-----------------------------------------------------------------------------
(* The loops over the sources in compiler.cpp. *)

Here(p) == Sources(p)[at[p]]
Fails(p) == StageOf[scenario.defect[Here(p)]] \in Stages(Action(p))

(* What follows a source that was dealt with.                               *)
AfterSource(p, e) ==
    CASE at[p] < Len(Sources(p)) -> Goes(p, "source", at[p] + 1)
      [] at[p] = Len(Sources(p)) /\ Action(p) \in {"--run", "compile", "--output-obj"} ->
            Goes(p, "object", 1)
      [] OTHER -> Throws(p, e)       \* e is what check_syntax has kept, if anything

SourcePasses(p) ==
    /\ pc[p] = "source" /\ ~Fails(p)
    /\ AfterSource(p, error[p])
    /\ UNCHANGED <<error, told, disk>>

KeepsError(p) == Action(p) = "--check-syntax" /\ scenario.defect[Here(p)] = "syntax"

check_syntax_last(p) ==    \* mutant: only an error of the last source counts
    /\ pc[p] = "source" /\ Fails(p) /\ KeepsError(p)
    /\ told' = [told EXCEPT ![p] = @ \cup {Here(p)}]
    /\ AfterSource(p, "parse_error")
    /\ UNCHANGED <<error, disk>>

(* check_syntax keeps a parse error and goes on with the next source.       *)
check_syntax(p) ==
    /\ pc[p] = "source" /\ Fails(p) /\ KeepsError(p)
    /\ told' = [told EXCEPT ![p] = @ \cup {Here(p)}]
    /\ error' = [error EXCEPT ![p] = "parse_error"]
    /\ AfterSource(p, "parse_error")
    /\ UNCHANGED disk

SourceFails(p) ==
    /\ pc[p] = "source" /\ Fails(p) /\ ~KeepsError(p)
    /\ told' = [told EXCEPT ![p] = @ \cup {Here(p)}]
    /\ Throws(p, Thrown[scenario.defect[Here(p)]])
    /\ UNCHANGED <<error, disk>>

-----------------------------------------------------------------------------
(* Objects, linker and executable: executable_generator.cpp. *)

Puts(path, content) == disk' = [disk EXCEPT ![path] = content]

AfterObject(p) ==
    CASE at[p] < Len(Sources(p)) -> Goes(p, "object", at[p] + 1)
      [] at[p] = Len(Sources(p)) /\ Action(p) # "--output-obj" -> Goes(p, "link", 1)
      [] OTHER -> Throws(p, "none")

(* The object of one module is written and kept.                            *)
generate_object(p) ==
    /\ pc[p] = "object"
    /\ Puts(ObjectPath(p, at[p]), Holds(<<Here(p)>>))
    /\ AfterObject(p)
    /\ UNCHANGED <<error, told>>

(* LLVM cannot emit it: the opened file stays.                              *)
ObjectFails(p) ==
    /\ pc[p] = "object"
    /\ Puts(ObjectPath(p, at[p]), Holds(<<>>))
    /\ Throws(p, "code_generation_error")
    /\ UNCHANGED <<error, told>>

(* The linker needs all objects, whole; two of one name are one file named  *)
(* twice, which it may or may not take.                                     *)
Linkable(p) == \A x \in ObjectPaths(p) : disk[x].code # <<>>
Linked(p) == FlattenSeq([i \in DOMAIN Sources(p) |-> disk[ObjectPath(p, i)].code])

Link(p) ==
    /\ pc[p] = "link" /\ Linkable(p)
    /\ Puts(ExecutablePath(p), Holds(Linked(p)))
    /\ Goes(p, "remove", 1)
    /\ UNCHANGED <<error, told>>

LinkFailsUnnoticed(p) ==    \* mutant: the status of the linker is not looked at
    /\ pc[p] = "link"
    /\ Goes(p, "remove", 1)
    /\ UNCHANGED <<error, told, disk>>

(* A linker that fails exits with another status and takes its output back. *)
LinkFails(p) ==
    /\ pc[p] = "link"
    /\ disk' \in {disk, [disk EXCEPT ![ExecutablePath(p)] = NoFile]}
    /\ Throws(p, "code_generation_error")
    /\ UNCHANGED <<error, told>>

(* WEXITSTATUS of a linker that a signal ended is 0.                        *)
LinkKilled(p) ==
    /\ pc[p] = "link"
    /\ disk' \in {disk, [disk EXCEPT ![ExecutablePath(p)] = Holds(<<>>)]}
    /\ killed' = [killed EXCEPT ![p] = TRUE]
    /\ pc' = [pc EXCEPT ![p] = "remove"] /\ at' = [at EXCEPT ![p] = 1]
    /\ UNCHANGED <<scenario, exit, ran, error, told>>

AfterRemoveFirst(p, e) ==    \* mutant: only the object of the first source is removed
    CASE e = "none" /\ Action(p) = "--run" -> Goes(p, "run", 1)
      [] OTHER -> Throws(p, e)

(* What follows the removal of an object; e is what it left in failed_objs. *)
AfterRemove(p, e) ==
    CASE at[p] < Len(Sources(p)) -> Goes(p, "remove", at[p] + 1)
      [] at[p] = Len(Sources(p)) /\ e = "none" /\ Action(p) = "--run" -> Goes(p, "run", 1)
      [] OTHER -> Throws(p, e)

RemoveObject(p) ==
    LET path == ObjectPath(p, at[p])
        e == IF disk[path].there THEN error[p] ELSE "code_generation_error" IN
    /\ pc[p] = "remove"
    /\ Puts(path, NoFile)
    /\ error' = [error EXCEPT ![p] = e]
    /\ AfterRemove(p, e)
    /\ UNCHANGED told

(* --run does not look at what becomes of the program, nor at whether its   *)
(* executable can be removed.                                               *)
Run(p) ==
    /\ pc[p] = "run"
    /\ ran' = [ran EXCEPT ![p] = disk[ExecutablePath(p)]]
    /\ pc' = [pc EXCEPT ![p] = "cleanup"]
    /\ UNCHANGED <<scenario, at, exit, killed, error, told, disk>>

(* It asserts that TMPDIR is absolute; a build with NDEBUG runs it anyway.  *)
Abort(p) ==
    /\ pc[p] = "run" /\ scenario.relative[p]
    /\ Ends(p, Aborted)
    /\ UNCHANGED <<error, told, disk>>

Cleanup(p) ==
    /\ pc[p] = "cleanup"
    /\ Puts(ExecutablePath(p), NoFile)
    /\ Throws(p, "none")
    /\ UNCHANGED <<error, told>>

-----------------------------------------------------------------------------
Step(p) ==
    \/ Main(p)
    \/ /\ \/ SourcePasses(p) \/ SourceFails(p) \/ check_syntax(p)
          \/ generate_object(p) \/ ObjectFails(p)
          \/ Link(p) \/ LinkFails(p) \/ LinkKilled(p)
          \/ RemoveObject(p) \/ Run(p) \/ Abort(p) \/ Cleanup(p)
       /\ UNCHANGED crossed

(* A user interrupts the compiler: only SIGSEGV and SIGABRT are handled.    *)
Interrupt(p) ==
    /\ pc[p] # "done"
    /\ Ends(p, Killed)
    /\ UNCHANGED <<error, told, crossed, disk>>

Done == (\A p \in Proc : pc[p] = "done") /\ UNCHANGED vars

Next == (\E p \in Proc : Step(p) \/ Interrupt(p)) \/ Done
Spec == Init /\ [][Next]_vars /\ \A p \in Proc : WF_vars(Step(p))

-----------------------------------------------------------------------------
Succeeded(p, actions) == exit[p] = 0 /\ ~Opts(p).help /\ Action(p) \in actions

Succeeds(p, actions) == exit[p] # 0 /\ Succeeded(p, actions)' /\ p \notin crossed

(* A compilation that exits with 0 has linked all of its sources, in their  *)
(* order, and --run has run that program, whatever files an interrupted or  *)
(* failed compilation of the same names left behind; unless a signal ended  *)
(* the linker, which generate_executable takes for success.                 *)
BuildsItsProgram ==
    [][\A p \in Proc : ~killed[p] =>
        /\ Succeeds(p, {"compile"}) => disk'[ExecutablePath(p)] = Holds(Sources(p))
        /\ Succeeds(p, {"--run"}) => ran'[p] = Holds(Sources(p))]_vars

(* A process that exits with 0 leaves no object of compile and nothing at   *)
(* all of --run behind, not even what earlier ones of the same names left.  *)
CleansUp ==
    [][\A p \in Proc :
        /\ Succeeds(p, {"compile", "--run"}) => \A x \in ObjectPaths(p) : ~disk'[x].there
        /\ Succeeds(p, {"--run"}) => ~disk'[ExecutablePath(p)].there]_vars

(* Code of all sources is emitted before the first object is written.       *)
AllOrNothing ==
    \A x \in Path, f \in File : disk[x].there /\ f \in ToSet(disk[x].code) =>
        \E p \in Proc : /\ f \in ToSet(Sources(p))
                        /\ \A g \in ToSet(Sources(p)) : scenario.defect[g] = "none"

Checked(p) == /\ exit[p] \notin {Running, Killed} /\ ~Opts(p).help
              /\ Action(p) = "--check-syntax" /\ Sources(p) # <<>>

(* Unless the check meets a file that it cannot open.                       *)
ChecksAll(p) ==
    Checked(p) =>
        \/ \E f \in ToSet(Sources(p)) : scenario.defect[f] = "unreadable"
        \/ told[p] = {f \in ToSet(Sources(p)) : scenario.defect[f] = "syntax"}

(* A process exits with 0 only if all of its sources pass every stage its   *)
(* action has, also when only the first of several sources is wrong; one    *)
(* source with a defect keeps the compiler from writing any object, no      *)
(* matter where in the list it is; and --check-syntax reports every source  *)
(* with a syntax error.                                                     *)
DefectsFail ==
    /\ AllOrNothing
    /\ \A p \in Proc :
         /\ ChecksAll(p)
         /\ Succeeded(p, Actions \cup {"compile", "--run"}) =>
                \A f \in ToSet(Sources(p)) : StageOf[scenario.defect[f]] \notin Stages(Action(p))
=============================================================================
