---------------------------- MODULE DriverProofs ----------------------------
(***************************************************************************)
(* Proofs about Driver, for every number of processes, every set of        *)
(* command lines and every assignment of defects to the sources.           *)
(***************************************************************************)
EXTENDS Driver, ProofLemmas

Places == {"main", "source", "object", "link", "remove", "run", "cleanup", "done"}
Content == [there : BOOLEAN, code : Seq(File)]

(* The type invariant of the command line driver.                           *)
TypeOK ==
    /\ scenario \in Scenarios
    /\ pc \in [Proc -> Places]
    /\ at \in [Proc -> Nat \ {0}]
    /\ error \in [Proc -> {"none", "parse_error", "code_generation_error"}]
    /\ exit \in [Proc -> Nat]
    /\ ran \in [Proc -> Content]
    /\ told \in [Proc -> SUBSET File]
    /\ killed \in [Proc -> BOOLEAN]
    /\ crossed \in SUBSET Proc
    /\ disk \in [Path -> Content]

Building == {"object", "link", "remove", "run", "cleanup"}
Sought == {"--run", "compile", "--output-obj"}    \* the actions that write objects

(* Where a process can be, and with which command line.                     *)
Placed(p) ==
    /\ pc[p] # "done" => exit[p] = Running
    /\ pc[p] \in Building \cup {"source"} =>
         /\ ~Opts(p).help /\ Action(p) # "usage"
         /\ at[p] \in 1..Len(Sources(p))
    /\ pc[p] \in Building => Action(p) \in Sought
    /\ pc[p] \in Building \ {"object"} => Action(p) \in {"--run", "compile"}
    /\ pc[p] \in {"run", "cleanup"} => Action(p) = "--run"

Passes(p, f) == StageOf[scenario.defect[f]] \notin Stages(Action(p))
FirstOf(s, n) == {s[i] : i \in 1..n}
Before(p) == FirstOf(Sources(p), at[p] - 1)

(* What is known of the sources that a process has dealt with.              *)
Examined(p) ==
    /\ pc[p] = "main" => error[p] = "none" /\ told[p] = {}
    /\ pc[p] = "source" =>
         /\ error[p] \in {"none", "parse_error"}
         /\ error[p] = "none" => \A f \in Before(p) : Passes(p, f)
         /\ Action(p) # "--check-syntax" => error[p] = "none"
         /\ Action(p) = "--check-syntax" =>
              told[p] = {f \in Before(p) : scenario.defect[f] = "syntax"}
    /\ pc[p] \in Building => \A f \in ToSet(Sources(p)) : scenario.defect[f] = "none"

Verdict(p) ==
    /\ ChecksAll(p)
    /\ Succeeded(p, Actions \cup {"compile", "--run"}) =>
         \A f \in ToSet(Sources(p)) : Passes(p, f)

(* An object is empty or holds one module; every module on the disk belongs *)
(* to a command all of whose sources are right.                             *)
Objects ==
    \A x \in Path :
        /\ x.kind = "object" => disk[x].code = <<>> \/ \E f \in File : disk[x].code = <<f>>
        /\ \A f \in ToSet(disk[x].code) : \E p \in Proc :
             /\ f \in ToSet(Sources(p))
             /\ \A g \in ToSet(Sources(p)) : scenario.defect[g] = "none"

(* Two processes that use a path both and are at work both are in crossed.  *)
Crossing ==
    \A p, q \in Proc : p # q /\ Busy(p) /\ Busy(q) /\ Shares(p, q) => p \in crossed

(* The first n sources have different base names.                           *)
Distinct(p, n) == \A i, j \in 1..n : BaseOf[Sources(p)[i]] = BaseOf[Sources(p)[j]] => i = j
AllDistinct(p) == Distinct(p, Len(Sources(p)))
Written(p, n) == AllDistinct(p) => \A i \in 1..n : disk[ObjectPath(p, i)] = Holds(<<Sources(p)[i]>>)
Removed(p, n) == \A i \in 1..n : ~disk[ObjectPath(p, i)].there

(* What a process finds on the disk at its own paths while no other process *)
(* uses them: its objects, then its executable, then nothing.               *)
Alone(p) ==
    p \notin crossed =>
        /\ pc[p] = "object" => Written(p, at[p] - 1)
        /\ pc[p] = "link" => Written(p, Len(Sources(p)))
        /\ pc[p] \in {"remove", "run", "cleanup"} /\ ~killed[p] /\ AllDistinct(p) =>
             disk[ExecutablePath(p)] = Holds(Sources(p))
        /\ pc[p] = "remove" =>
             /\ Removed(p, at[p] - 1)
             /\ error[p] = "none" => Distinct(p, at[p] - 1)
        /\ pc[p] \in {"run", "cleanup"} => Removed(p, Len(Sources(p))) /\ AllDistinct(p)
        /\ pc[p] = "cleanup" /\ ~killed[p] => ran[p] = Holds(Sources(p))

(* The inductive invariant.                                                 *)
DriverInv ==
    /\ Objects /\ Crossing
    /\ \A p \in Proc : Placed(p) /\ Examined(p) /\ Verdict(p) /\ Alone(p)

-----------------------------------------------------------------------------
(* Options.                                                                 *)

(* The loop over argv yields a sequence of arguments of the kind.           *)
LEMMA KeptType ==
  ASSUME NEW a, Len(a) \in Nat, NEW Kind
  PROVE  Kept(a, Kind) \in Seq(Kind)
<1> DEFINE Turn(f, i) == IF i = 0 THEN <<>>
                         ELSE IF a[i] \in Kind THEN Append(f[i - 1], a[i]) ELSE f[i - 1]
           Is(f, n) == f = [i \in 0..n |-> Turn(f, i)]
           S == {n \in Nat : \E f : Is(f, n)}
<1>1. 0 \in S
  <2>1. Is([i \in 0..0 |-> <<>>], 0)
    OBVIOUS
  <2> QED
    BY <2>1
<1>2. ASSUME NEW n \in Nat, n \in S PROVE n + 1 \in S
  <2>1. PICK f : Is(f, n)
    BY <1>2
  <2> DEFINE g == [i \in 0..(n + 1) |-> IF i = n + 1 THEN Turn(f, n + 1) ELSE f[i]]
  <2>2. ASSUME NEW i \in 0..(n + 1) PROVE g[i] = Turn(g, i)
    <3>1. CASE i = n + 1
      <4>1. g[i] = Turn(f, i) /\ g[i - 1] = f[i - 1]
        BY <3>1
      <4> QED
        BY <4>1
    <3>2. CASE i # n + 1
      <4>1. i \in 0..n /\ g[i] = f[i]
        BY <3>2
      <4>2. i # 0 => g[i - 1] = f[i - 1]
        BY <4>1
      <4>3. f[i] = Turn(f, i)
        BY <2>1, <4>1
      <4> QED
        BY <4>1, <4>2, <4>3
    <3> QED
      BY <3>1, <3>2
  <2>3. g = [i \in 0..(n + 1) |-> g[i]]
    OBVIOUS
  <2> HIDE DEF g, Turn
  <2>4. Is(g, n + 1)
    BY <2>2, <2>3
  <2> QED
    BY <2>4
<1>3. Len(a) \in S
  <2> HIDE DEF S
  <2> QED
    BY <1>1, <1>2, SetInduction
<1>4. ASSUME NEW f, Is(f, Len(a)) PROVE f[Len(a)] \in Seq(Kind)
  <2> DEFINE T == {n \in Nat : n <= Len(a) => f[n] \in Seq(Kind)}
  <2>0. \A i \in 0..Len(a) : f[i] = Turn(f, i)
    BY <1>4
  <2>1. 0 \in T
    <3>1. f[0] = <<>>
      BY <2>0
    <3> QED
      BY <3>1, EmptySeq
  <2>2. ASSUME NEW n \in Nat, n \in T PROVE n + 1 \in T
    <3> SUFFICES ASSUME n + 1 <= Len(a) PROVE f[n + 1] \in Seq(Kind)
      OBVIOUS
    <3>1. f[n] \in Seq(Kind)
      BY <2>2
    <3>2. f[n + 1] = IF a[n + 1] \in Kind THEN Append(f[n], a[n + 1]) ELSE f[n]
      BY <2>0
    <3> DEFINE u == f[n]
               x == a[n + 1]
    <3> HIDE DEF u, x
    <3>3. x \in Kind /\ u \in Seq(Kind) => Append(u, x) \in Seq(Kind)
      BY AppendProperties
    <3> QED
      BY <3>1, <3>2, <3>3 DEF u, x
  <2>3. Len(a) \in T
    <3> HIDE DEF T
    <3> QED
      BY <2>1, <2>2, SetInduction
  <2> QED
    BY <2>3
<1>5. Kept(a, Kind) = (CHOOSE f : Is(f, Len(a)))[Len(a)]
  BY DEF Kept
<1> HIDE DEF Is
<1>6. Is(CHOOSE f : Is(f, Len(a)), Len(a))
  BY <1>3
<1> QED
  BY <1>4, <1>5, <1>6

(* The sources of a process are a sequence of source names.                 *)
LEMMA SourcesType ==
  ASSUME scenario \in Scenarios, NEW p \in Proc
  PROVE  Sources(p) \in Seq(File)
<1> DEFINE a == scenario.args[p]
<1>1. a \in Seq(STRING)
  BY DriverAssumption DEF Scenario
<1>2. Len(Own(a)) \in Nat
  <2>1. CASE \E i \in DOMAIN a : a[i] = "--run"
    <3> DEFINE I == {i \in 1..Len(a) : a[i] = "--run"}
    <3>1. I \in SUBSET Nat /\ I # {}
      BY <1>1, <2>1, LenProperties
    <3>2. Min(I) \in I
      BY <3>1, MinNat
    <3>3. Own(a) = SubSeq(a, 1, Min(I) - 1)
      BY <2>1, <3>1 DEF Own, SelectInSeq
    <3> HIDE DEF I, a
    <3>4. Min(I) \in 1..Len(a)
      BY <3>2 DEF I
    <3>5. Len(a) \in Nat /\ \A i \in 1..(Min(I) - 1) : a[i] \in STRING
      BY <1>1, <3>4, LenProperties, ElementOfSeq
    <3>6. SubSeq(a, 1, Min(I) - 1) \in Seq(STRING)
      BY <3>4, <3>5, SubSeqProperties
    <3> QED
      BY <3>3, <3>6, LenProperties
  <2>2. CASE ~\E i \in DOMAIN a : a[i] = "--run"
    BY <1>1, <2>2, LenProperties DEF Own
  <2> QED
    BY <2>1, <2>2
<1>3. Sources(p) = Kept(Own(a), File)
  BY DEF Sources, Opts, parse_command_options
<1> QED
  BY <1>2, <1>3, KeptType

(* The exit status of an exception is not that of a success.                *)
Exceptions == {"none", "runtime_error", "parse_error", "semantic_check_error",
               "not_implemented_error", "code_generation_error", "bad_alloc"}

(* The status of main is 0 exactly when no exception was thrown.            *)
LEMMA ExitStatus ==
  ASSUME NEW e \in Exceptions
  PROVE  do_compiler_action(e) \in Nat /\ (do_compiler_action(e) = 0 <=> e = "none")
<1> DEFINE Matches(i) == /\ Clauses[i][1] \in Ancestors(e)
                         /\ \A j \in 1..(i - 1) : Clauses[j][1] \notin Ancestors(e)
<1>1. /\ DOMAIN Clauses = 1..6
      /\ \A i \in 1..6 : Clauses[i][2] \in Nat \ {0}
  BY DEF Clauses
<1>2. /\ Clauses[1][1] = "runtime_error" /\ Clauses[2][1] = "parse_error"
      /\ Clauses[3][1] = "semantic_check_error" /\ Clauses[4][1] = "code_generation_error"
      /\ Clauses[5][1] = "not_implemented_error" /\ Clauses[6][1] = "exception"
  BY DEF Clauses
<1>3. \E i \in 1..6 : Matches(i)
  <2>1. CASE e # "bad_alloc"
    <3>1. "runtime_error" \in Ancestors(e)
      BY <2>1 DEF Ancestors
    <3>2. Matches(1)
      BY <1>2, <3>1
    <3> QED
      BY <3>2
  <2>2. CASE e = "bad_alloc"
    <3>1. Ancestors(e) = {"bad_alloc", "exception"}
      BY <2>2 DEF Ancestors
    <3>2. Matches(6)
      BY <1>2, <3>1
    <3> QED
      BY <3>2
  <2> QED
    BY <2>1, <2>2
<1> DEFINE k == CHOOSE i \in 1..6 : Matches(i)
<1>4. k \in 1..6
  BY <1>3
<1>5. e # "none" => do_compiler_action(e) = Clauses[k][2]
  BY <1>1 DEF do_compiler_action
<1>6. e = "none" => do_compiler_action(e) = 0
  BY DEF do_compiler_action
<1> HIDE DEF k
<1>7. Clauses[k][2] \in Nat \ {0}
  BY <1>1, <1>4
<1>8. CASE e = "none"
  BY <1>6, <1>8
<1>9. CASE e # "none"
  <2> DEFINE c == Clauses[k][2]
  <2>1. do_compiler_action(e) = c
    BY <1>5, <1>9
  <2>2. c \in Nat /\ c # 0
    BY <1>7
  <2> HIDE DEF c
  <2> QED
    BY <1>9, <2>1, <2>2
<1> QED
  BY <1>8, <1>9
(* Every defect throws, at the one stage that meets it.                     *)
LEMMA DefectKinds ==
  ASSUME NEW d \in Defects
  PROVE  /\ Thrown[d] \in Exceptions /\ (Thrown[d] = "none" <=> d = "none")
         /\ StageOf[d] = "none" <=> d = "none"
         /\ StageOf[d] \in {"read", "parse", "analyze", "emit", "none"}
         /\ StageOf[d] = "parse" <=> d = "syntax"
         /\ StageOf[d] = "read" <=> d = "unreadable"
BY DEF Thrown, StageOf, Defects, Exceptions

(* What the stages of an action are.                                        *)
LEMMA StageKinds ==
  /\ \A a \in Sought : Stages(a) = {"read", "parse", "analyze", "emit"}
  /\ Stages("--check-syntax") = {"read", "parse"}
  /\ \A a : "none" \notin Stages(a)
<1>1. \A a : \/ Stages(a) = {"read", "parse"}
             \/ Stages(a) = {"read", "parse", "analyze"}
             \/ Stages(a) = {"read", "parse", "analyze", "emit"}
  BY DEF Stages
<1>2. \A a \in Sought : Stages(a) = {"read", "parse", "analyze", "emit"}
  BY DEF Stages, Sought
<1>3. Stages("--check-syntax") = {"read", "parse"}
  BY DEF Stages
<1> QED
  BY <1>1, <1>2, <1>3

-----------------------------------------------------------------------------
(* Paths.                                                                   *)
Files(p) == ObjectPaths(p) \cup {ExecutablePath(p)}

(* The command lines, and the paths they name, never change.                *)
LEMMA SameScenario ==
  ASSUME UNCHANGED scenario
  PROVE  /\ \A p : /\ Opts(p)' = Opts(p) /\ Sources(p)' = Sources(p)
                   /\ Action(p)' = Action(p) /\ parent(p)' = parent(p)
                   /\ ExecutablePath(p)' = ExecutablePath(p)
                   /\ ObjectPaths(p)' = ObjectPaths(p)
                   /\ AllDistinct(p)' <=> AllDistinct(p)
         /\ \A p, i : ObjectPath(p, i)' = ObjectPath(p, i)
         /\ \A p, n : Distinct(p, n)' <=> Distinct(p, n)
         /\ \A p, q : Shares(p, q)' <=> Shares(p, q)
         /\ \A p, f : Passes(p, f)' <=> Passes(p, f)
<1>1. \A p : Opts(p)' = Opts(p)
  BY DEF Opts
<1>2. \A p : Sources(p)' = Sources(p) /\ Action(p)' = Action(p)
  BY <1>1 DEF Sources, Action
<1>3. \A p : parent(p)' = parent(p)
  BY <1>2 DEF parent
<1>4. \A p, i : ObjectPath(p, i)' = ObjectPath(p, i)
  BY <1>2, <1>3 DEF ObjectPath
<1>5. \A p : ExecutablePath(p)' = ExecutablePath(p)
  BY <1>2, <1>3 DEF ExecutablePath
<1>6. \A p : ObjectPaths(p)' = ObjectPaths(p)
  BY <1>2, <1>4 DEF ObjectPaths
<1>7. \A p, n : Distinct(p, n)' <=> Distinct(p, n)
  BY <1>2 DEF Distinct
<1>8. \A p : AllDistinct(p)' <=> AllDistinct(p)
  BY <1>2 DEF AllDistinct, Distinct
<1>9. \A p, q : Shares(p, q)' <=> Shares(p, q)
  BY <1>2, <1>3 DEF Shares
<1>10. \A p, f : Passes(p, f)' <=> Passes(p, f)
  BY <1>2 DEF Passes
<1> QED
  BY <1>1, <1>2, <1>3, <1>4, <1>5, <1>6, <1>7, <1>8, <1>9, <1>10

(* The sources of a process and the files that it writes.                   *)
LEMMA PathFacts ==
  ASSUME scenario \in Scenarios, NEW p \in Proc
  PROVE  /\ Len(Sources(p)) \in Nat /\ DOMAIN Sources(p) = 1..Len(Sources(p))
         /\ ToSet(Sources(p)) = {Sources(p)[i] : i \in 1..Len(Sources(p))}
         /\ ToSet(Sources(p)) \subseteq File
         /\ \A i \in 1..Len(Sources(p)) :
              /\ Sources(p)[i] \in File
              /\ ObjectPath(p, i) \in Path /\ ObjectPath(p, i).kind = "object"
              /\ ObjectPath(p, i) \in ObjectPaths(p)
              /\ ObjectPath(p, i) # ExecutablePath(p)
         /\ Sources(p) # <<>> => /\ Len(Sources(p)) # 0
                                /\ ExecutablePath(p) \in Path
                                /\ ExecutablePath(p).kind = "executable"
         /\ \A i, j : ObjectPath(p, i) = ObjectPath(p, j)
                        <=> BaseOf[Sources(p)[i]] = BaseOf[Sources(p)[j]]
<1>1. Sources(p) \in Seq(File)
  BY SourcesType
<1>2. /\ Len(Sources(p)) \in Nat /\ DOMAIN Sources(p) = 1..Len(Sources(p))
      /\ \A i \in 1..Len(Sources(p)) : Sources(p)[i] \in File
      /\ Sources(p) # <<>> => Len(Sources(p)) # 0
  BY <1>1, LenProperties, EmptySeq
<1>3. /\ ToSet(Sources(p)) = {Sources(p)[i] : i \in 1..Len(Sources(p))}
      /\ ToSet(Sources(p)) \subseteq File
  BY <1>2 DEF ToSet
<1>4. parent(p) \in Dirs
  BY DEF parent, Dirs
<1>5. \A f \in File : BaseOf[f] \in Bases
  BY DEF Bases
<1>6. \A i \in 1..Len(Sources(p)) :
        /\ ObjectPath(p, i) \in Path /\ ObjectPath(p, i).kind = "object"
        /\ ObjectPath(p, i) \in ObjectPaths(p)
  BY <1>2, <1>4, <1>5 DEF ObjectPath, ObjectPaths, Path
<1>7. ExecutablePath(p).kind = "executable"
  BY DEF ExecutablePath
<1>8. Sources(p) # <<>> => ExecutablePath(p) \in Path
  BY <1>2, <1>4, <1>5 DEF ExecutablePath, Path
<1>9. \A i, j : ObjectPath(p, i) = ObjectPath(p, j)
                  <=> BaseOf[Sources(p)[i]] = BaseOf[Sources(p)[j]]
  BY DEF ObjectPath
<1>10. \A i \in 1..Len(Sources(p)) : ObjectPath(p, i) # ExecutablePath(p)
  BY DEF ObjectPath, ExecutablePath
<1> QED
  BY <1>2, <1>3, <1>6, <1>7, <1>8, <1>9, <1>10

(* Processes that share no path write different files.                      *)
LEMMA FilesApart ==
  ASSUME scenario \in Scenarios, NEW p \in Proc, NEW q \in Proc, ~Shares(p, q),
         Sources(p) # <<>>, Sources(q) # <<>>
  PROVE  Files(p) \cap Files(q) = {}
<1> SUFFICES ASSUME NEW x \in Files(p), x \in Files(q) PROVE FALSE
  OBVIOUS
<1>1. \A r \in {p, q} : x \in Files(r) =>
        /\ x.dir = parent(r)
        /\ \E f \in ToSet(Sources(r)) : x.base = BaseOf[f]
  <2> SUFFICES ASSUME NEW r \in {p, q}, x \in Files(r)
               PROVE  x.dir = parent(r) /\ \E f \in ToSet(Sources(r)) : x.base = BaseOf[f]
    OBVIOUS
  <2>1. CASE x = ExecutablePath(r)
    <3>1. 1 \in 1..Len(Sources(r))
      BY PathFacts
    <3>2. Sources(r)[1] \in ToSet(Sources(r))
      BY <3>1, PathFacts
    <3> QED
      BY <2>1, <3>2 DEF ExecutablePath
  <2>2. CASE x \in ObjectPaths(r)
    <3>1. PICK i \in 1..Len(Sources(r)) : x = ObjectPath(r, i)
      BY <2>2, PathFacts DEF ObjectPaths
    <3>2. Sources(r)[i] \in ToSet(Sources(r))
      BY <3>1, PathFacts
    <3> QED
      BY <3>1, <3>2 DEF ObjectPath
  <2> QED
    BY <2>1, <2>2 DEF Files
<1> QED
  BY <1>1 DEF Shares
-----------------------------------------------------------------------------
(* Steps.                                                                   *)

(* A process that ends leaves all other processes where they are.           *)
LEMMA EndsFacts ==
  ASSUME TypeOK, NEW q \in Proc, NEW s \in Nat, Ends(q, s)
  PROVE  /\ UNCHANGED <<scenario, at, ran, killed>>
         /\ pc'[q] = "done" /\ exit'[q] = s
         /\ \A p \in Proc \ {q} : pc'[p] = pc[p] /\ exit'[p] = exit[p]
         /\ pc' \in [Proc -> Places] /\ exit' \in [Proc -> Nat]
BY DEF TypeOK, Ends, Places

(* A process that goes on leaves all other processes where they are.        *)
LEMMA GoesFacts ==
  ASSUME TypeOK, NEW q \in Proc, NEW place \in Places, NEW i \in Nat \ {0}, Goes(q, place, i)
  PROVE  /\ UNCHANGED <<scenario, exit, ran, killed>>
         /\ pc'[q] = place /\ at'[q] = i
         /\ \A p \in Proc \ {q} : pc'[p] = pc[p] /\ at'[p] = at[p]
         /\ pc' \in [Proc -> Places] /\ at' \in [Proc -> Nat \ {0}]
BY DEF TypeOK, Goes, Places

(* Writing one file leaves every other file alone.                          *)
LEMMA PutsFacts ==
  ASSUME TypeOK, NEW x \in Path, NEW c \in Content, Puts(x, c)
  PROVE  /\ disk' \in [Path -> Content] /\ disk'[x] = c
         /\ \A y \in Path : y # x => disk'[y] = disk[y]
BY DEF TypeOK, Puts

(* What files hold: nothing, or the code of some sources.                   *)
LEMMA Contents ==
  /\ NoFile \in Content /\ Holds(<<>>) \in Content
  /\ \A c \in Seq(File) : Holds(c) \in Content
  /\ ~NoFile.there /\ NoFile.code = <<>> /\ \A c : Holds(c).code = c
BY EmptySeq DEF NoFile, Holds, Content

(* What a step of q may touch: its own counters and its own files.          *)
Local(q) ==
    /\ TypeOK' /\ UNCHANGED scenario /\ crossed \subseteq crossed'
    /\ \A p \in Proc \ {q} :
         /\ pc'[p] = pc[p] /\ at'[p] = at[p] /\ error'[p] = error[p] /\ exit'[p] = exit[p]
         /\ ran'[p] = ran[p] /\ told'[p] = told[p] /\ killed'[p] = killed[p]
    /\ \A x \in Path : x \notin Files(q) => disk'[x] = disk[x]
    /\ ~Busy(q) => disk' = disk

(* What a step of q must keep of the invariant.                             *)
Keeps(q) ==
    /\ Local(q) /\ Objects'
    /\ (Placed(q) /\ Examined(q) /\ Verdict(q) /\ Alone(q))'

(* A process that is building has only right sources, whatever it ends with.*)
LEMMA BuildingKeeps ==
  ASSUME TypeOK, DriverInv, NEW q \in Proc, pc[q] \in Building, UNCHANGED scenario,
         pc'[q] \in Building \cup {"done"}
  PROVE  Verdict(q)' /\ Examined(q)'
<1>1. Placed(q) /\ Examined(q)
  BY DEF DriverInv
<1>2. Action(q) \in Sought /\ Action(q) # "--check-syntax"
  BY <1>1 DEF Placed, Sought
<1>3. \A f \in ToSet(Sources(q)) : scenario.defect[f] = "none"
  BY <1>1 DEF Examined
<1>4. StageOf["none"] = "none"
  BY DEF StageOf
<1>5. \A f \in ToSet(Sources(q)) : Passes(q, f)
  BY <1>3, <1>4, StageKinds DEF Passes
<1>6. Verdict(q)'
  BY <1>2, <1>5, SameScenario DEF Verdict, ChecksAll, Checked
<1>7. Examined(q)'
  BY <1>3, SameScenario DEF Examined, Building
<1> QED
  BY <1>6, <1>7

(* A process that has ended is asked for its verdict only.                  *)
LEMMA Ended ==
  ASSUME NEW q \in Proc, pc'[q] = "done"
  PROVE  Placed(q)' /\ Examined(q)' /\ Alone(q)'
BY DEF Placed, Examined, Alone, Building

(* A running process has no verdict yet.                                    *)
LEMMA Undecided ==
  ASSUME NEW q \in Proc, exit'[q] \in {Running, Killed}
  PROVE  Verdict(q)'
BY DEF Verdict, ChecksAll, Checked, Succeeded, Running, Killed

(* A step that writes no file keeps what is known of the disk.              *)
LEMMA SameObjects ==
  ASSUME Objects, UNCHANGED <<scenario, disk>>
  PROVE  Objects'
BY SameScenario DEF Objects

(* A step that writes a file without code does so, too.                     *)
LEMMA EmptyObjects ==
  ASSUME Objects, UNCHANGED scenario, NEW y \in Path,
         \A x \in Path : x # y => disk'[x] = disk[x], disk'[y].code = <<>>
  PROVE  Objects'
<1>1. ToSet(<<>>) = {}
  BY DEF ToSet
<1> SUFFICES ASSUME NEW x \in Path
             PROVE  /\ x.kind = "object" =>
                         disk'[x].code = <<>> \/ \E f \in File : disk'[x].code = <<f>>
                    /\ \A f \in ToSet(disk'[x].code) : \E p \in Proc :
                         /\ f \in ToSet(Sources(p))
                         /\ \A g \in ToSet(Sources(p)) : scenario.defect[g] = "none"
  BY SameScenario DEF Objects
<1>2. CASE x = y
  BY <1>1, <1>2
<1>3. CASE x # y
  BY <1>3 DEF Objects
<1> QED
  BY <1>2, <1>3

-----------------------------------------------------------------------------
(* main and the loops over the sources.                                     *)

(* Reading the options keeps the invariant.                                 *)
LEMMA MainKeeps ==
  ASSUME TypeOK, DriverInv, NEW q \in Proc, Main(q)
  PROVE  Keeps(q)
<1>1. /\ pc[q] = "main" /\ UNCHANGED <<error, told, disk>> /\ ~Busy(q)
      /\ crossed \subseteq crossed' /\ crossed' \in SUBSET Proc
      /\ error[q] = "none" /\ told[q] = {} /\ exit[q] = Running
  BY DEF Main, Busy, TypeOK, DriverInv, Placed, Examined
<1>2. CASE Goes(q, "source", 1) /\ ~Opts(q).help /\ Sources(q) # <<>> /\ Action(q) # "usage"
  <2>1. /\ UNCHANGED <<scenario, exit, ran, killed>> /\ pc'[q] = "source" /\ at'[q] = 1
        /\ \A p \in Proc \ {q} : pc'[p] = pc[p] /\ at'[p] = at[p]
        /\ pc' \in [Proc -> Places] /\ at' \in [Proc -> Nat \ {0}]
    BY <1>2, GoesFacts DEF Places
  <2>2. Local(q)
    BY <1>1, <2>1 DEF Local, TypeOK
  <2>3. Len(Sources(q)) \in Nat \ {0}
    BY <1>2, PathFacts DEF TypeOK
  <2>4. Placed(q)'
    BY <1>1, <1>2, <2>1, <2>3, SameScenario DEF Placed, Building
  <2>5. Before(q)' = {}
    BY <2>1 DEF Before, FirstOf
  <2>6. Examined(q)'
    BY <1>1, <2>1, <2>5, SameScenario DEF Examined, Building
  <2>7. Alone(q)'
    BY <2>1 DEF Alone
  <2> QED
    BY <1>1, <2>1, <2>2, <2>4, <2>6, <2>7, Undecided, SameObjects DEF Keeps, DriverInv
<1>3. ASSUME NEW s \in {0, 1, 2}, Ends(q, s),
             Opts(q).help \/ Sources(q) = <<>> \/ Action(q) = "usage",
             ~Opts(q).help => s # 0
      PROVE  Keeps(q)
  <2>1. /\ UNCHANGED <<scenario, at, ran, killed>> /\ pc'[q] = "done" /\ exit'[q] = s
        /\ \A p \in Proc \ {q} : pc'[p] = pc[p] /\ exit'[p] = exit[p]
        /\ pc' \in [Proc -> Places] /\ exit' \in [Proc -> Nat]
    BY <1>3, EndsFacts
  <2>2. Local(q)
    BY <1>1, <2>1 DEF Local, TypeOK
  <2>3. Verdict(q)'
    BY <1>3, <2>1, SameScenario DEF Verdict, ChecksAll, Checked, Succeeded
  <2> QED
    BY <1>1, <2>1, <2>2, <2>3, Ended, SameObjects DEF Keeps, DriverInv
<1> QED
  BY <1>2, <1>3 DEF Main
(* What is known while the loop is at a source.                             *)
LEMMA AtSource ==
  ASSUME TypeOK, DriverInv, NEW q \in Proc, pc[q] = "source"
  PROVE  /\ exit[q] = Running /\ at[q] \in 1..Len(Sources(q)) /\ Busy(q)
         /\ Here(q) \in File /\ Here(q) \in ToSet(Sources(q))
         /\ scenario.defect[Here(q)] \in Defects
         /\ FirstOf(Sources(q), at[q]) = Before(q) \cup {Here(q)}
         /\ at[q] = Len(Sources(q)) => ToSet(Sources(q)) = Before(q) \cup {Here(q)}
<1>1. exit[q] = Running /\ at[q] \in 1..Len(Sources(q))
  BY DEF DriverInv, Placed
<1>2. Here(q) \in File /\ Here(q) \in ToSet(Sources(q))
  BY <1>1, PathFacts DEF Here, TypeOK
<1>3. scenario.defect[Here(q)] \in Defects
  BY <1>2, DriverAssumption DEF TypeOK, Scenario
<1>4. FirstOf(Sources(q), at[q]) = Before(q) \cup {Here(q)}
  <2>1. 1..at[q] = 1..(at[q] - 1) \cup {at[q]}
    BY <1>1
  <2> QED
    BY <2>1 DEF Before, FirstOf, Here
<1>5. at[q] = Len(Sources(q)) => ToSet(Sources(q)) = Before(q) \cup {Here(q)}
  BY <1>4, PathFacts DEF TypeOK, FirstOf
<1> QED
  BY <1>1, <1>2, <1>3, <1>4, <1>5 DEF Busy

(* The loop deals with a source and goes on: e is the exception it ends     *)
(* with, if any, and t the errors reported so far.                          *)
LEMMA AfterSourceKeeps ==
  ASSUME TypeOK, DriverInv, NEW q \in Proc, pc[q] = "source",
         NEW e \in {"none", "parse_error"}, AfterSource(q, e),
         UNCHANGED <<crossed, disk>>,
         error' \in [Proc -> {"none", "parse_error", "code_generation_error"}],
         told' \in [Proc -> SUBSET File],
         error'[q] = e,
         \A p \in Proc \ {q} : error'[p] = error[p] /\ told'[p] = told[p],
         e = "none" => \A f \in Before(q) \cup {Here(q)} : Passes(q, f),
         Action(q) # "--check-syntax" => e = "none",
         Action(q) = "--check-syntax" =>
             told'[q] = {f \in Before(q) \cup {Here(q)} : scenario.defect[f] = "syntax"}
  PROVE  Keeps(q)
<1>1. PICK n \in Nat \ {0} : n = at[q]
  BY DEF TypeOK
<1>2. /\ ~Opts(q).help /\ Action(q) # "usage"
      /\ exit[q] = Running /\ n \in 1..Len(Sources(q)) /\ Busy(q)
      /\ n = Len(Sources(q)) => ToSet(Sources(q)) = Before(q) \cup {Here(q)}
      /\ FirstOf(Sources(q), n) = Before(q) \cup {Here(q)}
      /\ Len(Sources(q)) \in Nat
  BY <1>1, AtSource, PathFacts DEF DriverInv, Placed, TypeOK
<1>3. CASE n < Len(Sources(q)) /\ Goes(q, "source", n + 1)
  <2>1. /\ UNCHANGED <<scenario, exit, ran, killed>> /\ pc'[q] = "source" /\ at'[q] = n + 1
        /\ \A p \in Proc \ {q} : pc'[p] = pc[p] /\ at'[p] = at[p]
        /\ pc' \in [Proc -> Places] /\ at' \in [Proc -> Nat \ {0}]
    BY <1>3, GoesFacts DEF Places
  <2>2. Local(q)
    BY <1>2, <2>1 DEF Local, TypeOK
  <2>3. Placed(q)'
    BY <1>2, <1>3, <2>1, SameScenario DEF Placed, Building
  <2>4. Before(q)' = Before(q) \cup {Here(q)}
    <3>1. Sources(q)' = Sources(q) /\ at'[q] - 1 = n
      BY <2>1, SameScenario
    <3>2. Before(q)' = FirstOf(Sources(q), n)
      BY <3>1 DEF Before
    <3> QED
      BY <1>2, <3>2
  <2>5. Examined(q)'
    BY <2>1, <2>4, SameScenario DEF Examined, Building
  <2>6. Alone(q)'
    BY <2>1 DEF Alone
  <2> QED
    BY <1>2, <2>1, <2>2, <2>3, <2>5, <2>6, Undecided, SameObjects DEF Keeps, DriverInv
<1>4. CASE n = Len(Sources(q)) /\ Action(q) \in Sought /\ Goes(q, "object", 1)
  <2>1. /\ UNCHANGED <<scenario, exit, ran, killed>> /\ pc'[q] = "object" /\ at'[q] = 1
        /\ \A p \in Proc \ {q} : pc'[p] = pc[p] /\ at'[p] = at[p]
        /\ pc' \in [Proc -> Places] /\ at' \in [Proc -> Nat \ {0}]
    BY <1>4, GoesFacts DEF Places
  <2>2. Local(q)
    BY <1>2, <2>1 DEF Local, TypeOK
  <2>3. Placed(q)'
    BY <1>2, <1>4, <2>1, SameScenario DEF Placed, Building
  <2>4. \A f \in ToSet(Sources(q)) : scenario.defect[f] = "none"
    <3> SUFFICES ASSUME NEW f \in ToSet(Sources(q)) PROVE scenario.defect[f] = "none"
      OBVIOUS
    <3>1. Action(q) # "--check-syntax"
      BY <1>4 DEF Sought
    <3>2. Passes(q, f)
      BY <1>2, <1>4, <3>1
    <3>3. f \in File
      BY PathFacts DEF TypeOK
    <3>4. scenario.defect[f] \in Defects
      BY <3>3, DriverAssumption DEF TypeOK, Scenario
    <3> QED
      BY <1>4, <3>2, <3>4, DefectKinds, StageKinds DEF Passes
  <2>5. Examined(q)'
    BY <2>1, <2>4, SameScenario DEF Examined, Building
  <2>6. Alone(q)'
    BY <2>1, SameScenario DEF Alone, Written
  <2> QED
    BY <1>2, <2>1, <2>2, <2>3, <2>5, <2>6, Undecided, SameObjects DEF Keeps, DriverInv
<1>5. CASE n = Len(Sources(q)) /\ Action(q) \notin Sought /\ Throws(q, e)
  <2> DEFINE s == do_compiler_action(e)
  <2>0. s \in Nat /\ (s = 0 <=> e = "none")
    BY ExitStatus DEF Exceptions
  <2>1. /\ UNCHANGED <<scenario, at, ran, killed>> /\ pc'[q] = "done" /\ exit'[q] = s
        /\ \A p \in Proc \ {q} : pc'[p] = pc[p] /\ exit'[p] = exit[p]
        /\ pc' \in [Proc -> Places] /\ exit' \in [Proc -> Nat]
    BY <1>5, <2>0, EndsFacts DEF Throws
  <2> HIDE DEF s
  <2>2. Local(q)
    BY <1>2, <2>1 DEF Local, TypeOK
  <2>3. ChecksAll(q)'
    BY <1>2, <1>5, <2>1, SameScenario DEF ChecksAll, Checked
  <2>4. Succeeded(q, Actions \cup {"compile", "--run"})' =>
          \A f \in ToSet(Sources(q)) : Passes(q, f)
    BY <1>2, <1>5, <2>0, <2>1 DEF Succeeded
  <2>5. Verdict(q)'
    BY <2>1, <2>3, <2>4, SameScenario DEF Verdict
  <2> QED
    BY <2>1, <2>2, <2>5, Ended, SameObjects DEF Keeps, DriverInv
<1> QED
  BY <1>1, <1>2, <1>3, <1>4, <1>5 DEF AfterSource, Sought

(* So does a source that goes through its stages,                           *)
LEMMA SourcePassesKeeps ==
  ASSUME TypeOK, DriverInv, NEW q \in Proc, SourcePasses(q), UNCHANGED crossed
  PROVE  Keeps(q)
<1>1. /\ pc[q] = "source" /\ ~Fails(q) /\ AfterSource(q, error[q])
      /\ UNCHANGED <<error, told, disk, crossed>>
  BY DEF SourcePasses
<1>2. Passes(q, Here(q))
  BY <1>1 DEF Fails, Passes
<1>3. /\ Action(q) # "--check-syntax" => error[q] = "none"
      /\ error[q] = "none" => \A f \in Before(q) : Passes(q, f)
      /\ error[q] \in {"none", "parse_error"}
      /\ Action(q) = "--check-syntax" =>
             told[q] = {f \in Before(q) : scenario.defect[f] = "syntax"}
  BY <1>1 DEF DriverInv, Examined
<1>4. Action(q) = "--check-syntax" => scenario.defect[Here(q)] # "syntax"
  BY <1>1, <1>2, AtSource, StageKinds, DefectKinds DEF Passes
<1> QED
  BY <1>1, <1>2, <1>3, <1>4, AfterSourceKeeps DEF TypeOK

(* a source whose syntax is checked, whatever the outcome,                  *)
LEMMA check_syntaxKeeps ==
  ASSUME TypeOK, DriverInv, NEW q \in Proc, check_syntax(q), UNCHANGED crossed
  PROVE  Keeps(q)
<1>1. /\ pc[q] = "source" /\ Fails(q) /\ AfterSource(q, "parse_error")
      /\ Action(q) = "--check-syntax" /\ scenario.defect[Here(q)] = "syntax"
      /\ told' = [told EXCEPT ![q] = @ \cup {Here(q)}]
      /\ error' = [error EXCEPT ![q] = "parse_error"]
      /\ UNCHANGED <<disk, crossed>>
  BY DEF check_syntax, KeepsError
<1>2. told[q] = {f \in Before(q) : scenario.defect[f] = "syntax"}
  BY <1>1 DEF DriverInv, Examined
<1>3. Here(q) \in File
  BY <1>1, AtSource
<1>4. /\ told' \in [Proc -> SUBSET File]
      /\ told'[q] = {f \in Before(q) \cup {Here(q)} : scenario.defect[f] = "syntax"}
      /\ \A p \in Proc \ {q} : told'[p] = told[p]
  BY <1>1, <1>2, <1>3 DEF TypeOK
<1>5. /\ error' \in [Proc -> {"none", "parse_error", "code_generation_error"}]
      /\ error'[q] = "parse_error"
      /\ \A p \in Proc \ {q} : error'[p] = error[p]
  BY <1>1 DEF TypeOK
<1> QED
  BY <1>1, <1>4, <1>5, AfterSourceKeeps

(* a source with a defect,                                                  *)
LEMMA SourceFailsKeeps ==
  ASSUME TypeOK, DriverInv, NEW q \in Proc, SourceFails(q), UNCHANGED crossed
  PROVE  Keeps(q)
<1> DEFINE s == do_compiler_action(Thrown[scenario.defect[Here(q)]])
<1>1. /\ pc[q] = "source" /\ Fails(q) /\ ~KeepsError(q) /\ Ends(q, s)
      /\ told' = [told EXCEPT ![q] = @ \cup {Here(q)}]
      /\ UNCHANGED <<error, disk, crossed>>
  BY DEF SourceFails, Throws
<1>2. /\ Here(q) \in File /\ Here(q) \in ToSet(Sources(q)) /\ Busy(q)
      /\ scenario.defect[Here(q)] \in Defects
  BY <1>1, AtSource
<1>3. scenario.defect[Here(q)] # "none"
  BY <1>1, <1>2, DefectKinds, StageKinds DEF Fails
<1>4. s \in Nat /\ s # 0
  BY <1>2, <1>3, DefectKinds, ExitStatus
<1> HIDE DEF s
<1>5. /\ UNCHANGED <<scenario, at, ran, killed>> /\ pc'[q] = "done" /\ exit'[q] = s
      /\ \A p \in Proc \ {q} : pc'[p] = pc[p] /\ exit'[p] = exit[p]
      /\ pc' \in [Proc -> Places] /\ exit' \in [Proc -> Nat]
  BY <1>1, <1>4, EndsFacts
<1>6. told' \in [Proc -> SUBSET File] /\ \A p \in Proc \ {q} : told'[p] = told[p]
  BY <1>1, <1>2 DEF TypeOK
<1>7. Local(q)
  BY <1>1, <1>2, <1>5, <1>6 DEF Local, TypeOK
<1>8. Action(q) = "--check-syntax" => scenario.defect[Here(q)] = "unreadable"
  BY <1>1, <1>2, DefectKinds, StageKinds DEF Fails, KeepsError
<1>9. Verdict(q)'
  BY <1>2, <1>4, <1>5, <1>8, SameScenario DEF Verdict, ChecksAll, Checked, Succeeded
<1> QED
  BY <1>1, <1>5, <1>7, <1>9, Ended, SameObjects DEF Keeps, DriverInv
-----------------------------------------------------------------------------
(* Objects, linker and executable.                                          *)

(* What is known of a process that writes files.                            *)
LEMMA AtWork ==
  ASSUME TypeOK, DriverInv, NEW q \in Proc, pc[q] \in Building
  PROVE  /\ exit[q] = Running /\ Busy(q)
         /\ Len(Sources(q)) \in Nat \ {0} /\ at[q] \in 1..Len(Sources(q))
         /\ ~Opts(q).help /\ Action(q) # "usage" /\ Action(q) \in Sought
         /\ Here(q) \in File /\ Here(q) \in ToSet(Sources(q))
         /\ ObjectPath(q, at[q]) \in Path /\ ObjectPath(q, at[q]) \in Files(q)
         /\ ExecutablePath(q) \in Path /\ ExecutablePath(q) \in Files(q)
         /\ \A f \in ToSet(Sources(q)) : scenario.defect[f] = "none"
<1>1. /\ exit[q] = Running /\ at[q] \in 1..Len(Sources(q))
      /\ ~Opts(q).help /\ Action(q) # "usage" /\ Action(q) \in Sought
      /\ \A f \in ToSet(Sources(q)) : scenario.defect[f] = "none"
  BY DEF DriverInv, Placed, Examined, Building
<1>2. Busy(q)
  BY DEF Busy, Building
<1>3. scenario \in Scenarios /\ Len(Sources(q)) \in Nat
  BY PathFacts DEF TypeOK
<1>4. Len(Sources(q)) \in Nat \ {0} /\ Sources(q) # <<>>
  BY <1>1, <1>3, EmptySeq
<1>5. Here(q) \in File /\ Here(q) \in ToSet(Sources(q))
  BY <1>1, <1>3, PathFacts DEF Here
<1>6. ObjectPath(q, at[q]) \in Path /\ ObjectPath(q, at[q]) \in ObjectPaths(q)
  BY <1>1, <1>3, PathFacts
<1>7. ExecutablePath(q) \in Path
  BY <1>3, <1>4, PathFacts
<1> QED
  BY <1>1, <1>2, <1>4, <1>5, <1>6, <1>7 DEF Files

(* A process that writes files ends, whatever it leaves.                    *)
LEMMA StopKeeps ==
  ASSUME TypeOK, DriverInv, NEW q \in Proc, pc[q] \in Building,
         NEW s \in Nat, Ends(q, s), UNCHANGED <<told, crossed>>,
         error' \in [Proc -> {"none", "parse_error", "code_generation_error"}],
         \A p \in Proc \ {q} : error'[p] = error[p],
         disk' \in [Path -> Content],
         \A x \in Path : x \notin Files(q) => disk'[x] = disk[x],
         Objects'
  PROVE  Keeps(q)
<1>1. /\ UNCHANGED <<scenario, at, ran, killed>> /\ pc'[q] = "done" /\ exit'[q] = s
      /\ \A p \in Proc \ {q} : pc'[p] = pc[p] /\ exit'[p] = exit[p]
      /\ pc' \in [Proc -> Places] /\ exit' \in [Proc -> Nat]
  BY EndsFacts
<1>2. Busy(q)
  BY AtWork
<1>3. Local(q)
  BY <1>1, <1>2 DEF Local, TypeOK
<1> QED
  BY <1>1, <1>3, BuildingKeeps, Ended DEF Keeps

(* A process that writes files goes to its next place.                      *)
LEMMA GoKeeps ==
  ASSUME TypeOK, DriverInv, NEW q \in Proc, pc[q] \in Building,
         NEW place \in Building, NEW i \in 1..Len(Sources(q)),
         UNCHANGED <<scenario, exit, told, crossed>>,
         pc' \in [Proc -> Places], pc'[q] = place,
         at' \in [Proc -> Nat \ {0}], at'[q] = i,
         place # "object" => Action(q) \in {"--run", "compile"},
         place \in {"run", "cleanup"} => Action(q) = "--run",
         error' \in [Proc -> {"none", "parse_error", "code_generation_error"}],
         ran' \in [Proc -> Content], killed' \in [Proc -> BOOLEAN],
         \A p \in Proc \ {q} : /\ pc'[p] = pc[p] /\ at'[p] = at[p] /\ error'[p] = error[p]
                               /\ ran'[p] = ran[p] /\ killed'[p] = killed[p],
         disk' \in [Path -> Content],
         \A x \in Path : x \notin Files(q) => disk'[x] = disk[x],
         Objects', Alone(q)'
  PROVE  Keeps(q)
<1>1. /\ exit[q] = Running /\ Busy(q) /\ Action(q) \in Sought
      /\ ~Opts(q).help /\ Action(q) # "usage"
  BY AtWork
<1>2. Local(q)
  BY <1>1 DEF Local, TypeOK
<1>3. Placed(q)'
  BY <1>1, SameScenario DEF Placed, Building
<1> QED
  BY <1>2, <1>3, BuildingKeeps DEF Keeps

(* The same for a step that is nothing but a Goes, and a change of the disk.*)
LEMMA GoesKeeps ==
  ASSUME TypeOK, DriverInv, NEW q \in Proc, pc[q] \in Building,
         NEW place \in Building, NEW i \in 1..Len(Sources(q)), Goes(q, place, i),
         UNCHANGED <<told, crossed>>,
         place # "object" => Action(q) \in {"--run", "compile"},
         place \in {"run", "cleanup"} => Action(q) = "--run",
         error' \in [Proc -> {"none", "parse_error", "code_generation_error"}],
         \A p \in Proc \ {q} : error'[p] = error[p],
         disk' \in [Path -> Content],
         \A x \in Path : x \notin Files(q) => disk'[x] = disk[x],
         Objects', Alone(q)'
  PROVE  Keeps(q)
<1>1. i \in Nat \ {0} /\ place \in Places
  BY PathFacts DEF TypeOK, Building, Places
<1>2. /\ UNCHANGED <<scenario, exit, ran, killed>>
      /\ pc'[q] = place /\ at'[q] = i
      /\ \A p \in Proc \ {q} : pc'[p] = pc[p] /\ at'[p] = at[p]
      /\ pc' \in [Proc -> Places] /\ at' \in [Proc -> Nat \ {0}]
  BY <1>1, GoesFacts
<1>3. ran' \in [Proc -> Content] /\ killed' \in [Proc -> BOOLEAN]
  BY <1>2 DEF TypeOK
<1> QED
  BY <1>2, <1>3, GoKeeps

(* The object is written, and the loop goes on.                             *)
LEMMA generate_objectKeeps ==
  ASSUME TypeOK, DriverInv, NEW q \in Proc, generate_object(q), UNCHANGED crossed
  PROVE  Keeps(q)
<1> DEFINE n == at[q]
           x == ObjectPath(q, n)
           c == Holds(<<Here(q)>>)
<1>1. /\ pc[q] = "object" /\ Puts(x, c) /\ AfterObject(q)
      /\ UNCHANGED <<error, told, crossed>>
  BY DEF generate_object
<1>2. pc[q] \in Building
  BY <1>1 DEF Building
<1>3. /\ Len(Sources(q)) \in Nat \ {0} /\ n \in 1..Len(Sources(q)) /\ Action(q) \in Sought
      /\ Here(q) \in File /\ Here(q) \in ToSet(Sources(q)) /\ Here(q) = Sources(q)[n]
      /\ x \in Path /\ x \in Files(q)
      /\ \A f \in ToSet(Sources(q)) : scenario.defect[f] = "none"
  BY <1>2, AtWork DEF Here
<1>4. c \in Content /\ c.code = <<Here(q)>> /\ ToSet(c.code) = {Here(q)}
  <2>1. <<Here(q)>> \in Seq(File) /\ ToSet(<<Here(q)>>) = {Here(q)}
    BY <1>3 DEF ToSet
  <2> QED
    BY <2>1, Contents
<1> HIDE DEF c
<1>5. /\ disk' \in [Path -> Content] /\ disk'[x] = c
      /\ \A y \in Path : y # x => disk'[y] = disk[y]
  BY <1>1, <1>3, <1>4, PutsFacts
<1>6. UNCHANGED scenario
  BY <1>1 DEF AfterObject, Goes, Throws, Ends
<1>7. Objects'
  <2> SUFFICES ASSUME NEW y \in Path
               PROVE  /\ y.kind = "object" =>
                           disk'[y].code = <<>> \/ \E f \in File : disk'[y].code = <<f>>
                      /\ \A f \in ToSet(disk'[y].code) : \E p \in Proc :
                           /\ f \in ToSet(Sources(p))
                           /\ \A g \in ToSet(Sources(p)) : scenario.defect[g] = "none"
    BY <1>6, SameScenario DEF Objects
  <2>1. CASE y = x
    BY <1>3, <1>4, <1>5, <2>1
  <2>2. CASE y # x
    BY <1>5, <2>2 DEF Objects, DriverInv
  <2> QED
    BY <2>1, <2>2
<1>8. q \notin crossed /\ AllDistinct(q) =>
        \A i \in 1..n : disk'[ObjectPath(q, i)] = Holds(<<Sources(q)[i]>>)
  <2> SUFFICES ASSUME q \notin crossed, AllDistinct(q), NEW i \in 1..n
               PROVE  disk'[ObjectPath(q, i)] = Holds(<<Sources(q)[i]>>)
    OBVIOUS
  <2>1. CASE i = n
    BY <1>3, <1>5, <2>1 DEF c
  <2>2. CASE i # n
    <3>1. i \in 1..(n - 1) /\ i \in 1..Len(Sources(q))
      BY <1>3, <2>2
    <3>2. disk[ObjectPath(q, i)] = Holds(<<Sources(q)[i]>>)
      BY <1>1, <3>1 DEF DriverInv, Alone, Written
    <3>3. ObjectPath(q, i) \in Path /\ ObjectPath(q, i) # x
      BY <1>3, <2>2, <3>1, PathFacts DEF TypeOK, AllDistinct, Distinct
    <3> QED
      BY <1>5, <3>2, <3>3
  <2> QED
    BY <2>1, <2>2
<1>9. PICK k \in Nat : k = n
  BY <1>3
<1> HIDE DEF x, n
<1>10. CASE k < Len(Sources(q)) /\ Goes(q, "object", k + 1)
  <2>1. k + 1 \in 1..Len(Sources(q)) /\ k + 1 - 1 = n
    BY <1>3, <1>9, <1>10
  <2>2. Alone(q)'
    <3>1. pc'[q] = "object" /\ at'[q] = k + 1 /\ UNCHANGED scenario
      BY <1>10, <2>1, GoesFacts DEF Places
    <3>2. at'[q] - 1 = n
      BY <1>9, <3>1
    <3> QED
      BY <1>1, <1>8, <3>1, <3>2, SameScenario DEF Alone, Written
  <2> QED
    BY <1>1, <1>2, <1>3, <1>5, <1>7, <1>10, <2>1, <2>2, GoesKeeps DEF Building, TypeOK
<1>11. CASE k = Len(Sources(q)) /\ Action(q) # "--output-obj" /\ Goes(q, "link", 1)
  <2>1. Alone(q)'
    <3>1. pc'[q] = "link" /\ UNCHANGED scenario
      BY <1>11, GoesFacts DEF Places
    <3> QED
      BY <1>1, <1>8, <1>9, <1>11, <3>1, SameScenario DEF Alone, Written
  <2>2. Action(q) \in {"--run", "compile"} /\ 1 \in 1..Len(Sources(q))
    BY <1>3, <1>11 DEF Sought
  <2> QED
    BY <1>1, <1>2, <1>3, <1>5, <1>7, <1>11, <2>1, <2>2, GoesKeeps DEF Building, TypeOK
<1>12. CASE Throws(q, "none")
  <2>1. do_compiler_action("none") \in Nat
    BY ExitStatus DEF Exceptions
  <2> QED
    BY <1>1, <1>2, <1>3, <1>5, <1>7, <1>12, <2>1, StopKeeps DEF Throws, TypeOK
<1> QED
  BY <1>1, <1>3, <1>9, <1>10, <1>11, <1>12 DEF AfterObject, n
(* The status after an error of code generation is a number.                *)
LEMMA CodeGenerationError ==
  do_compiler_action("code_generation_error") \in Nat
BY ExitStatus DEF Exceptions

(* An object that cannot be emitted keeps the invariant.                    *)
LEMMA ObjectFailsKeeps ==
  ASSUME TypeOK, DriverInv, NEW q \in Proc, ObjectFails(q), UNCHANGED crossed
  PROVE  Keeps(q)
<1> DEFINE x == ObjectPath(q, at[q])
<1>1. /\ pc[q] = "object" /\ Puts(x, Holds(<<>>)) /\ Throws(q, "code_generation_error")
      /\ UNCHANGED <<error, told, crossed>>
  BY DEF ObjectFails
<1>2. pc[q] \in Building
  BY <1>1 DEF Building
<1>3. x \in Path /\ x \in Files(q)
  BY <1>2, AtWork
<1> HIDE DEF x
<1>4. /\ disk' \in [Path -> Content] /\ disk'[x].code = <<>>
      /\ \A y \in Path : y # x => disk'[y] = disk[y]
  BY <1>1, <1>3, PutsFacts, Contents
<1>5. UNCHANGED scenario
  BY <1>1 DEF Throws, Ends
<1>6. Objects'
  BY <1>3, <1>4, <1>5, EmptyObjects DEF DriverInv
<1> QED
  BY <1>1, <1>2, <1>3, <1>4, <1>6, CodeGenerationError, StopKeeps DEF Throws, TypeOK

(* What the linker makes of objects that hold a module each.                *)
LEMMA LinkedFacts ==
  ASSUME TypeOK, Objects, NEW q \in Proc, Linkable(q), Sources(q) # <<>>
  PROVE  /\ Linked(q) \in Seq(File) /\ Len(Linked(q)) = Len(Sources(q))
         /\ \A i \in 1..Len(Sources(q)) :
              disk[ObjectPath(q, i)].code = <<Linked(q)[i]>>
<1> DEFINE n == Len(Sources(q))
           s == [i \in 1..n |-> disk[ObjectPath(q, i)].code[1]]
<1>1. n \in Nat /\ n # 0 /\ DOMAIN Sources(q) = 1..n
  BY PathFacts DEF TypeOK
<1>2. ASSUME NEW i \in 1..n
      PROVE  s[i] \in File /\ disk[ObjectPath(q, i)].code = <<s[i]>>
  <2>1. /\ ObjectPath(q, i) \in Path /\ ObjectPath(q, i).kind = "object"
        /\ ObjectPath(q, i) \in ObjectPaths(q)
    BY PathFacts DEF TypeOK
  <2>2. PICK f \in File : disk[ObjectPath(q, i)].code = <<f>>
    BY <2>1 DEF Objects, Linkable
  <2>3. s[i] = f
    BY <2>2
  <2> QED
    BY <2>2, <2>3
<1> HIDE DEF n, s
<1>3. /\ s \in [1..n -> File] /\ s \in Seq(File) /\ Len(s) = n
  <2>1. s = [i \in 1..n |-> s[i]]
    BY DEF s
  <2>2. s \in [1..n -> File]
    BY <1>2, <2>1
  <2> QED
    BY <1>1, <2>2
<1>4. s # <<>>
  BY <1>1, <1>3
<1>5. FlattenSeq([i \in 1..n |-> <<s[i]>>]) = s
  BY <1>3, <1>4, FlattenSingletons
<1>6. Linked(q) = FlattenSeq([i \in 1..n |-> disk[ObjectPath(q, i)].code])
  BY <1>1 DEF Linked
<1>7. [i \in 1..n |-> disk[ObjectPath(q, i)].code] = [i \in 1..n |-> <<s[i]>>]
  BY <1>2
<1>8. Linked(q) = s
  BY <1>5, <1>6, <1>7
<1> QED
  BY <1>2, <1>3, <1>8 DEF n

(* So does linking,                                                         *)
LEMMA LinkKeeps ==
  ASSUME TypeOK, DriverInv, NEW q \in Proc, Link(q), UNCHANGED crossed
  PROVE  Keeps(q)
<1> DEFINE x == ExecutablePath(q)
           c == Holds(Linked(q))
<1>1. /\ pc[q] = "link" /\ Linkable(q) /\ Puts(x, c) /\ Goes(q, "remove", 1)
      /\ UNCHANGED <<error, told, crossed>>
  BY DEF Link
<1>2. pc[q] \in Building
  BY <1>1 DEF Building
<1>3. /\ Len(Sources(q)) \in Nat \ {0} /\ 1 \in 1..Len(Sources(q))
      /\ x \in Path /\ x \in Files(q)
  BY <1>2, AtWork
<1>4. Sources(q) # <<>>
  BY <1>3, EmptySeq
<1>5. /\ Linked(q) \in Seq(File) /\ Len(Linked(q)) = Len(Sources(q))
      /\ \A i \in 1..Len(Sources(q)) : disk[ObjectPath(q, i)].code = <<Linked(q)[i]>>
  BY <1>1, <1>4, LinkedFacts DEF DriverInv
<1>6. c \in Content /\ c.code = Linked(q)
  BY <1>5, Contents
<1> HIDE DEF x, c
<1>7. /\ disk' \in [Path -> Content] /\ disk'[x] = c
      /\ \A y \in Path : y # x => disk'[y] = disk[y]
  BY <1>1, <1>3, <1>6, PutsFacts
<1>8. UNCHANGED <<scenario, killed>> /\ pc'[q] = "remove" /\ at'[q] = 1
  BY <1>1, GoesFacts DEF Places
<1>9. Objects'
  <2> SUFFICES ASSUME NEW y \in Path
               PROVE  /\ y.kind = "object" =>
                           disk'[y].code = <<>> \/ \E f \in File : disk'[y].code = <<f>>
                      /\ \A f \in ToSet(disk'[y].code) : \E p \in Proc :
                           /\ f \in ToSet(Sources(p))
                           /\ \A g \in ToSet(Sources(p)) : scenario.defect[g] = "none"
    BY <1>8, SameScenario DEF Objects
  <2>1. CASE y = x
    <3>1. x.kind = "executable"
      BY <1>4, PathFacts DEF TypeOK, x
    <3>2. ASSUME NEW f \in ToSet(Linked(q))
          PROVE  \E p \in Proc : /\ f \in ToSet(Sources(p))
                                /\ \A g \in ToSet(Sources(p)) : scenario.defect[g] = "none"
      <4>1. PICK i \in 1..Len(Sources(q)) : f = Linked(q)[i]
        BY <1>5, LenProperties DEF ToSet
      <4>2. disk[ObjectPath(q, i)].code = <<f>> /\ ObjectPath(q, i) \in Path
        BY <1>5, <4>1, PathFacts DEF TypeOK
      <4>3. f \in ToSet(<<f>>)
        BY DEF ToSet
      <4> QED
        BY <4>2, <4>3 DEF DriverInv, Objects
    <3> QED
      BY <1>6, <1>7, <2>1, <3>1, <3>2
  <2>2. CASE y # x
    BY <1>7, <2>2 DEF Objects, DriverInv
  <2> QED
    BY <2>1, <2>2
<1>10. q \notin crossed /\ AllDistinct(q) => disk'[x] = Holds(Sources(q))
  <2> SUFFICES ASSUME q \notin crossed, AllDistinct(q) PROVE Linked(q) = Sources(q)
    BY <1>7 DEF c
  <2>1. \A i \in 1..Len(Sources(q)) : disk[ObjectPath(q, i)] = Holds(<<Sources(q)[i]>>)
    BY <1>1 DEF DriverInv, Alone, Written
  <2>2. \A i \in 1..Len(Sources(q)) : <<Linked(q)[i]>> = <<Sources(q)[i]>>
    BY <1>5, <2>1, Contents
  <2>3. \A a, b : <<a>> = <<b>> => a = b
    OBVIOUS
  <2>4. \A i \in 1..Len(Sources(q)) : Linked(q)[i] = Sources(q)[i]
    BY <2>2, <2>3
  <2>5. Sources(q) \in Seq(File)
    BY SourcesType DEF TypeOK
  <2> QED
    BY <1>5, <2>4, <2>5, SeqEqual
<1>11. Alone(q)'
  <2>1. Removed(q, at[q] - 1)' /\ Distinct(q, at[q] - 1)'
    BY <1>8 DEF Removed, Distinct
  <2> QED
    BY <1>1, <1>8, <1>10, <2>1, SameScenario DEF Alone, x
<1>12. Action(q) \in {"--run", "compile"}
  BY <1>1 DEF DriverInv, Placed, Building
<1> QED
  BY <1>1, <1>2, <1>3, <1>7, <1>9, <1>11, <1>12, GoesKeeps DEF Building, TypeOK
(* a linker that fails,                                                     *)
LEMMA LinkFailsKeeps ==
  ASSUME TypeOK, DriverInv, NEW q \in Proc, LinkFails(q), UNCHANGED crossed
  PROVE  Keeps(q)
<1> DEFINE x == ExecutablePath(q)
<1>1. /\ pc[q] = "link" /\ Throws(q, "code_generation_error")
      /\ disk' = disk \/ Puts(x, NoFile)
      /\ UNCHANGED <<error, told, crossed>>
  BY DEF LinkFails, Puts
<1>2. pc[q] \in Building
  BY <1>1 DEF Building
<1>3. x \in Path /\ x \in Files(q)
  BY <1>2, AtWork
<1> HIDE DEF x
<1>4. UNCHANGED scenario
  BY <1>1 DEF Throws, Ends
<1>5. CASE disk' = disk
  <2>1. Objects'
    BY <1>4, <1>5, SameObjects DEF DriverInv
  <2> QED
    BY <1>1, <1>2, <1>5, <2>1, CodeGenerationError, StopKeeps DEF Throws, TypeOK
<1>6. CASE Puts(x, NoFile)
  <2>1. /\ disk' \in [Path -> Content] /\ disk'[x].code = <<>>
        /\ \A y \in Path : y # x => disk'[y] = disk[y]
    BY <1>3, <1>6, PutsFacts, Contents
  <2>2. Objects'
    BY <1>3, <1>4, <2>1, EmptyObjects DEF DriverInv
  <2> QED
    BY <1>1, <1>2, <1>3, <2>1, <2>2, CodeGenerationError, StopKeeps DEF Throws, TypeOK
<1> QED
  BY <1>1, <1>5, <1>6

(* a linker that is ended by a signal,                                      *)
LEMMA LinkKilledKeeps ==
  ASSUME TypeOK, DriverInv, NEW q \in Proc, LinkKilled(q), UNCHANGED crossed
  PROVE  Keeps(q)
<1> DEFINE x == ExecutablePath(q)
<1>1. /\ pc[q] = "link" /\ UNCHANGED <<scenario, exit, ran, error, told, crossed>>
      /\ disk' = disk \/ Puts(x, Holds(<<>>))
      /\ killed' = [killed EXCEPT ![q] = TRUE]
      /\ pc' = [pc EXCEPT ![q] = "remove"] /\ at' = [at EXCEPT ![q] = 1]
  BY DEF LinkKilled, Puts
<1>2. pc[q] \in Building
  BY <1>1 DEF Building
<1>3. x \in Path /\ x \in Files(q) /\ 1 \in 1..Len(Sources(q))
  BY <1>2, AtWork
<1> HIDE DEF x
<1>4. /\ pc' \in [Proc -> Places] /\ pc'[q] = "remove"
      /\ at' \in [Proc -> Nat \ {0}] /\ at'[q] = 1
      /\ killed' \in [Proc -> BOOLEAN] /\ killed'[q]
      /\ \A p \in Proc \ {q} : pc'[p] = pc[p] /\ at'[p] = at[p] /\ killed'[p] = killed[p]
  BY <1>1 DEF TypeOK, Places
<1>5. /\ disk' \in [Path -> Content]
      /\ \A y \in Path : y # x => disk'[y] = disk[y]
      /\ Objects'
  <2>1. CASE disk' = disk
    BY <1>1, <2>1, SameObjects DEF DriverInv, TypeOK
  <2>2. CASE Puts(x, Holds(<<>>))
    <3>1. /\ disk' \in [Path -> Content] /\ disk'[x].code = <<>>
          /\ \A y \in Path : y # x => disk'[y] = disk[y]
      BY <1>3, <2>2, PutsFacts, Contents
    <3> QED
      BY <1>1, <1>3, <3>1, EmptyObjects DEF DriverInv
  <2> QED
    BY <1>1, <2>1, <2>2
<1>6. Alone(q)'
  <2>1. Removed(q, at[q] - 1)' /\ Distinct(q, at[q] - 1)'
    BY <1>4 DEF Removed, Distinct
  <2> QED
    BY <1>4, <2>1 DEF Alone
<1>7. Action(q) \in {"--run", "compile"}
  BY <1>1 DEF DriverInv, Placed, Building
<1> QED
  BY <1>1, <1>2, <1>3, <1>4, <1>5, <1>6, <1>7, GoKeeps DEF Building, TypeOK

(* The removal of an object that is there shows that no earlier source has  *)
(* its base name.                                                           *)
(* What the removal of an object leaves: no object up to that one, and the  *)
(* executable; each object was there before only if no name came twice.     *)
LEMMA RemovesHere ==
  ASSUME TypeOK, DriverInv, NEW q \in Proc, RemoveObject(q), q \notin crossed
  PROVE  /\ \A i \in 1..at[q] : ~disk'[ObjectPath(q, i)].there
         /\ error'[q] = "none" => Distinct(q, at[q])
         /\ ~killed[q] /\ AllDistinct(q) => disk'[ExecutablePath(q)] = Holds(Sources(q))
<1>1. PICK n \in Nat : n = at[q]
  BY DEF TypeOK
<1> DEFINE x == ObjectPath(q, n)
           e == IF disk[x].there THEN error[q] ELSE "code_generation_error"
<1>2. /\ pc[q] = "remove" /\ Puts(x, NoFile)
      /\ error' = [error EXCEPT ![q] = e]
  BY <1>1 DEF RemoveObject
<1>3. pc[q] \in Building
  BY <1>2 DEF Building
<1>4. /\ Len(Sources(q)) \in Nat \ {0} /\ n \in 1..Len(Sources(q))
      /\ x \in Path /\ x \in Files(q)
  BY <1>1, <1>3, AtWork
<1>5. /\ disk' \in [Path -> Content] /\ disk'[x] = NoFile
      /\ \A y \in Path : y # x => disk'[y] = disk[y]
  BY <1>2, <1>4, PutsFacts, Contents
<1>6. error'[q] = e
  BY <1>2 DEF TypeOK
<1>7. /\ \A i \in 1..(n - 1) : ~disk[ObjectPath(q, i)].there
      /\ error[q] = "none" => Distinct(q, n - 1)
      /\ ~killed[q] /\ AllDistinct(q) => disk[ExecutablePath(q)] = Holds(Sources(q))
  BY <1>1, <1>2 DEF DriverInv, Alone, Removed
<1>8. ASSUME NEW i \in 1..n PROVE ~disk'[ObjectPath(q, i)].there
  <2>1. ObjectPath(q, i) \in Path /\ (i = n \/ i \in 1..(n - 1))
    BY <1>4, PathFacts DEF TypeOK
  <2>2. CASE ObjectPath(q, i) = x
    BY <1>5, <2>2, Contents
  <2>3. CASE ObjectPath(q, i) # x
    BY <1>5, <1>7, <2>1, <2>3
  <2> QED
    BY <2>2, <2>3
<1>9. ASSUME e = "none" PROVE Distinct(q, n)
  <2>1. disk[x].there /\ Distinct(q, n - 1)
    BY <1>7, <1>9
  <2>2. \A i \in 1..(n - 1) : BaseOf[Sources(q)[i]] # BaseOf[Sources(q)[n]]
    <3> SUFFICES ASSUME NEW i \in 1..(n - 1), BaseOf[Sources(q)[i]] = BaseOf[Sources(q)[n]]
                 PROVE  FALSE
      OBVIOUS
    <3>1. ObjectPath(q, i) = x
      BY PathFacts DEF TypeOK
    <3> QED
      BY <1>7, <2>1, <3>1
  <2>3. \A i \in 1..n : i = n \/ i \in 1..(n - 1)
    OBVIOUS
  <2> QED
    BY <2>1, <2>2, <2>3 DEF Distinct
<1>10. disk'[ExecutablePath(q)] = disk[ExecutablePath(q)]
  <2>1. Sources(q) # <<>>
    BY <1>4, EmptySeq
  <2>2. ExecutablePath(q) \in Path /\ ExecutablePath(q) # x
    BY <1>4, <2>1, PathFacts DEF TypeOK
  <2> QED
    BY <1>5, <2>2
<1> QED
  BY <1>1, <1>6, <1>7, <1>8, <1>9, <1>10

(* the removal of the next object,                                          *)
LEMMA RemoveObjectKeeps ==
  ASSUME TypeOK, DriverInv, NEW q \in Proc, RemoveObject(q), UNCHANGED crossed
  PROVE  Keeps(q)
<1>1. PICK n \in Nat : n = at[q]
  BY DEF TypeOK
<1> DEFINE x == ObjectPath(q, n)
           e == IF disk[x].there THEN error[q] ELSE "code_generation_error"
<1>2. /\ pc[q] = "remove" /\ Puts(x, NoFile) /\ AfterRemove(q, e)
      /\ error' = [error EXCEPT ![q] = e] /\ UNCHANGED <<told, crossed>>
  BY <1>1 DEF RemoveObject
<1>3. pc[q] \in Building
  BY <1>2 DEF Building
<1>4. /\ Len(Sources(q)) \in Nat \ {0} /\ n \in 1..Len(Sources(q))
      /\ x \in Path /\ x \in Files(q)
  BY <1>1, <1>3, AtWork
<1>5. /\ disk' \in [Path -> Content] /\ disk'[x] = NoFile
      /\ \A y \in Path : y # x => disk'[y] = disk[y]
  BY <1>2, <1>4, PutsFacts, Contents
<1>6. /\ e \in {"none", "parse_error", "code_generation_error"}
      /\ error' \in [Proc -> {"none", "parse_error", "code_generation_error"}]
      /\ error'[q] = e /\ \A p \in Proc \ {q} : error'[p] = error[p]
  BY <1>2 DEF TypeOK
<1>7. UNCHANGED scenario
  BY <1>2 DEF AfterRemove, Goes, Throws, Ends
<1>8. Objects'
  BY <1>4, <1>5, <1>7, Contents, EmptyObjects DEF DriverInv
<1>9. q \notin crossed =>
        /\ \A i \in 1..n : ~disk'[ObjectPath(q, i)].there
        /\ e = "none" => Distinct(q, n)
        /\ ~killed[q] /\ AllDistinct(q) => disk'[ExecutablePath(q)] = Holds(Sources(q))
  BY <1>1, <1>6, RemovesHere
<1> HIDE DEF e, x
<1>10. Action(q) \in {"--run", "compile"} /\ 1 \in 1..Len(Sources(q))
  BY <1>2, <1>4 DEF DriverInv, Placed, Building
<1>11. CASE n < Len(Sources(q)) /\ Goes(q, "remove", n + 1)
  <2>1. n + 1 \in 1..Len(Sources(q))
    BY <1>4, <1>11
  <2>2. Alone(q)'
    <3>1. pc'[q] = "remove" /\ at'[q] = n + 1 /\ UNCHANGED killed
      BY <1>11, <2>1, GoesFacts DEF Places
    <3>2. at'[q] - 1 = n
      BY <3>1
    <3> QED
      BY <1>2, <1>6, <1>7, <1>9, <3>1, <3>2, SameScenario DEF Alone, Removed
  <2> QED
    BY <1>2, <1>3, <1>4, <1>5, <1>6, <1>8, <1>10, <1>11, <2>1, <2>2, GoesKeeps DEF Building
<1>12. CASE n = Len(Sources(q)) /\ e = "none" /\ Action(q) = "--run" /\ Goes(q, "run", 1)
  <2>1. Alone(q)'
    <3>1. pc'[q] = "run" /\ UNCHANGED killed
      BY <1>12, GoesFacts DEF Places
    <3> QED
      BY <1>2, <1>7, <1>9, <1>12, <3>1, SameScenario DEF Alone, Removed, AllDistinct
  <2> QED
    BY <1>2, <1>3, <1>4, <1>5, <1>6, <1>8, <1>10, <1>12, <2>1, GoesKeeps DEF Building
<1>13. CASE Throws(q, e)
  <2>1. do_compiler_action(e) \in Nat
    BY <1>6, ExitStatus DEF Exceptions
  <2> QED
    BY <1>2, <1>3, <1>4, <1>5, <1>6, <1>8, <1>13, <2>1, StopKeeps DEF Throws
<1> QED
  BY <1>1, <1>2, <1>4, <1>11, <1>12, <1>13 DEF AfterRemove

(* running the executable,                                                  *)
LEMMA RunKeeps ==
  ASSUME TypeOK, DriverInv, NEW q \in Proc, Run(q), UNCHANGED crossed
  PROVE  Keeps(q)
<1>1. /\ pc[q] = "run" /\ UNCHANGED <<scenario, at, exit, killed, error, told, disk, crossed>>
      /\ ran' = [ran EXCEPT ![q] = disk[ExecutablePath(q)]]
      /\ pc' = [pc EXCEPT ![q] = "cleanup"]
  BY DEF Run
<1>2. pc[q] \in Building /\ Action(q) = "--run"
  BY <1>1 DEF Building, DriverInv, Placed
<1>3. ExecutablePath(q) \in Path /\ at[q] \in 1..Len(Sources(q))
  BY <1>2, AtWork
<1>4. /\ pc' \in [Proc -> Places] /\ pc'[q] = "cleanup"
      /\ ran' \in [Proc -> Content] /\ ran'[q] = disk[ExecutablePath(q)]
      /\ \A p \in Proc \ {q} : pc'[p] = pc[p] /\ ran'[p] = ran[p]
  BY <1>1, <1>3 DEF TypeOK, Places
<1>5. Objects'
  BY <1>1, SameObjects DEF DriverInv
<1>6. Alone(q)'
  <2>1. q \notin crossed =>
          /\ ~killed[q] /\ AllDistinct(q) => disk[ExecutablePath(q)] = Holds(Sources(q))
          /\ Removed(q, Len(Sources(q))) /\ AllDistinct(q)
    BY <1>1 DEF DriverInv, Alone
  <2> QED
    BY <1>1, <1>4, <2>1, SameScenario DEF Alone, Removed
<1> QED
  BY <1>1, <1>2, <1>3, <1>4, <1>5, <1>6, GoKeeps DEF Building, TypeOK

(* and its removal.                                                         *)
LEMMA CleanupKeeps ==
  ASSUME TypeOK, DriverInv, NEW q \in Proc, Cleanup(q), UNCHANGED crossed
  PROVE  Keeps(q)
<1> DEFINE x == ExecutablePath(q)
<1>1. /\ pc[q] = "cleanup" /\ Puts(x, NoFile) /\ Throws(q, "none")
      /\ UNCHANGED <<error, told, crossed>>
  BY DEF Cleanup
<1>2. pc[q] \in Building
  BY <1>1 DEF Building
<1>3. x \in Path /\ x \in Files(q)
  BY <1>2, AtWork
<1> HIDE DEF x
<1>4. /\ disk' \in [Path -> Content] /\ disk'[x].code = <<>>
      /\ \A y \in Path : y # x => disk'[y] = disk[y]
  BY <1>1, <1>3, PutsFacts, Contents
<1>5. UNCHANGED scenario
  BY <1>1 DEF Throws, Ends
<1>6. Objects'
  BY <1>3, <1>4, <1>5, EmptyObjects DEF DriverInv
<1>7. do_compiler_action("none") \in Nat
  BY ExitStatus DEF Exceptions
<1> QED
  BY <1>1, <1>2, <1>3, <1>4, <1>6, <1>7, StopKeeps DEF Throws, TypeOK

(* A process is interrupted, or aborts: it leaves the disk as it is.        *)
LEMMA InterruptKeeps ==
  ASSUME TypeOK, DriverInv, NEW q \in Proc,
         Interrupt(q) \/ (Abort(q) /\ UNCHANGED crossed)
  PROVE  Keeps(q)
<1>1. PICK s \in {Killed, Aborted} :
        /\ Ends(q, s) /\ UNCHANGED <<error, told, crossed, disk>>
        /\ s = Aborted => pc[q] = "run"
  <2>1. CASE Interrupt(q)
    BY <2>1 DEF Interrupt, Killed, Aborted
  <2>2. CASE Abort(q) /\ UNCHANGED crossed
    BY <2>2 DEF Abort
  <2> QED
    BY <2>1, <2>2
<1>2. s \in Nat /\ (s # Aborted => s = Killed)
  BY DEF Killed, Aborted
<1>3. /\ UNCHANGED <<scenario, at, ran, killed>> /\ pc'[q] = "done" /\ exit'[q] = s
      /\ \A p \in Proc \ {q} : pc'[p] = pc[p] /\ exit'[p] = exit[p]
      /\ pc' \in [Proc -> Places] /\ exit' \in [Proc -> Nat]
  BY <1>1, <1>2, EndsFacts
<1>4. Local(q)
  BY <1>1, <1>3 DEF Local, TypeOK
<1>5. Verdict(q)'
  <2>1. CASE s = Killed
    BY <1>3, <2>1, Undecided
  <2>2. CASE s = Aborted
    BY <1>1, <1>3, <2>2, BuildingKeeps DEF Building
  <2> QED
    BY <2>1, <2>2
<1> QED
  BY <1>1, <1>3, <1>4, <1>5, Ended, SameObjects DEF Keeps, DriverInv
-----------------------------------------------------------------------------
(* All processes.                                                           *)

(* A step of one process keeps what is known of another: it writes none of  *)
(* its files, unless the two are in crossed.                                *)
LEMMA OthersKeep ==
  ASSUME TypeOK, DriverInv, NEW q \in Proc, Keeps(q),
         Busy(q) => Placed(q), NEW p \in Proc \ {q}
  PROVE  (Placed(p) /\ Examined(p) /\ Verdict(p) /\ Alone(p))'
<1>1. /\ UNCHANGED scenario /\ crossed \subseteq crossed'
      /\ pc'[p] = pc[p] /\ at'[p] = at[p] /\ error'[p] = error[p] /\ exit'[p] = exit[p]
      /\ ran'[p] = ran[p] /\ told'[p] = told[p] /\ killed'[p] = killed[p]
      /\ \A x \in Path : x \notin Files(q) => disk'[x] = disk[x]
      /\ ~Busy(q) => disk' = disk
  BY DEF Keeps, Local
<1>2. Placed(p) /\ Examined(p) /\ Verdict(p) /\ Alone(p)
  BY DEF DriverInv
<1>3. Placed(p)'
  BY <1>1, <1>2, SameScenario DEF Placed
<1>4. Examined(p)'
  <2>1. Before(p)' = Before(p)
    BY <1>1, SameScenario DEF Before
  <2> QED
    BY <1>1, <1>2, <2>1, SameScenario DEF Examined
<1>5. Verdict(p)'
  BY <1>1, <1>2, SameScenario DEF Verdict, ChecksAll, Checked, Succeeded
<1>6. ASSUME p \notin crossed, pc[p] \in Building
      PROVE  \A x \in Files(p) \cap Path : disk'[x] = disk[x]
  <2>1. CASE ~Busy(q)
    BY <1>1, <2>1
  <2>2. CASE Busy(q)
    <3>1. ~Shares(p, q)
      BY <1>6, <2>2, AtWork DEF DriverInv, Crossing
    <3>2. at[q] \in 1..Len(Sources(q)) /\ Len(Sources(q)) \in Nat
      BY <2>2, PathFacts DEF Placed, Busy, Building, TypeOK, Places
    <3>3. Sources(p) # <<>> /\ Sources(q) # <<>>
      BY <1>6, <3>2, AtWork, EmptySeq
    <3>4. Files(p) \cap Files(q) = {}
      BY <3>1, <3>3, FilesApart DEF TypeOK
    <3> QED
      BY <1>1, <3>4
  <2> QED
    BY <2>1, <2>2
<1>7. Alone(p)'
  <2>1. CASE p \in crossed' \/ pc[p] \notin Building
    BY <1>1, <2>1 DEF Alone, Building
  <2>2. CASE p \notin crossed' /\ pc[p] \in Building
    <3>1. p \notin crossed
      BY <1>1, <2>2
    <3>2. \A i \in 1..Len(Sources(p)) : disk'[ObjectPath(p, i)] = disk[ObjectPath(p, i)]
      BY <1>6, <2>2, <3>1, PathFacts DEF TypeOK, Files
    <3>3. disk'[ExecutablePath(p)] = disk[ExecutablePath(p)]
      BY <1>6, <2>2, <3>1, AtWork
    <3>4. at[p] \in 1..Len(Sources(p)) /\ Len(Sources(p)) \in Nat
      BY <2>2, AtWork
    <3>5. \A n \in {at[p] - 1, Len(Sources(p))} : \A i \in 1..n : i \in 1..Len(Sources(p))
      BY <3>4
    <3>6. \A n \in {at[p] - 1, Len(Sources(p))} :
            (Written(p, n) => Written(p, n)') /\ (Removed(p, n) => Removed(p, n)')
      BY <1>1, <3>2, <3>5, SameScenario DEF Written, Removed
    <3> QED
      BY <1>1, <1>2, <3>1, <3>3, <3>6, SameScenario DEF Alone, Written, Removed
  <2> QED
    BY <2>1, <2>2
<1> QED
  BY <1>3, <1>4, <1>5, <1>7
(* Two processes that meet at work are entered when the second one starts.  *)
LEMMA CrossingKept ==
  ASSUME TypeOK, DriverInv, NEW q \in Proc, Local(q),
         Main(q) \/ (Busy(q)' => Busy(q))
  PROVE  Crossing'
<1> SUFFICES ASSUME NEW p \in Proc, NEW r \in Proc, p # r, Busy(p)', Busy(r)', Shares(p, r)
             PROVE  p \in crossed'
  BY SameScenario DEF Crossing, Local
<1>1. \A o \in Proc \ {q} : Busy(o)' => Busy(o)
  BY DEF Local, Busy
<1>2. crossed \subseteq crossed'
  BY DEF Local
<1>3. CASE Busy(p) /\ Busy(r)
  BY <1>2, <1>3 DEF DriverInv, Crossing
<1>4. CASE Main(q) /\ ~(Busy(p) /\ Busy(r))
  <2>1. crossed' = crossed \cup UNION {{q, o} : o \in {o \in Proc \ {q} : Busy(o) /\ Shares(q, o)}}
    BY <1>4 DEF Main
  <2>2. CASE p = q
    <3>1. r \in Proc \ {q} /\ Busy(r) /\ Shares(q, r)
      BY <1>1, <2>2
    <3> QED
      BY <2>1, <2>2, <3>1
  <2>3. CASE p # q
    <3>1. Busy(p) /\ r = q
      BY <1>1, <1>4, <2>3
    <3>2. Shares(q, p)
      BY <3>1 DEF Shares
    <3> QED
      BY <2>1, <2>3, <3>1, <3>2
  <2> QED
    BY <2>2, <2>3
<1> QED
  BY <1>1, <1>3, <1>4

(* Every step keeps what is known of the process that takes it, and begins  *)
(* the work of a process only in main.                                      *)
LEMMA StepKeeps ==
  ASSUME TypeOK, DriverInv, NEW q \in Proc, Step(q) \/ Interrupt(q)
  PROVE  Keeps(q) /\ (Main(q) \/ (Busy(q)' => Busy(q)))
<1>1. CASE Main(q)
  BY <1>1, MainKeeps
<1>2. CASE SourcePasses(q) /\ UNCHANGED crossed
  BY <1>2, SourcePassesKeeps DEF SourcePasses, Busy
<1>3. CASE SourceFails(q) /\ UNCHANGED crossed
  BY <1>3, SourceFailsKeeps DEF SourceFails, Busy
<1>4. CASE check_syntax(q) /\ UNCHANGED crossed
  BY <1>4, check_syntaxKeeps DEF check_syntax, Busy
<1>5. CASE generate_object(q) /\ UNCHANGED crossed
  BY <1>5, generate_objectKeeps DEF generate_object, Busy
<1>6. CASE ObjectFails(q) /\ UNCHANGED crossed
  BY <1>6, ObjectFailsKeeps DEF ObjectFails, Busy
<1>7. CASE Link(q) /\ UNCHANGED crossed
  BY <1>7, LinkKeeps DEF Link, Busy
<1>8. CASE LinkFails(q) /\ UNCHANGED crossed
  BY <1>8, LinkFailsKeeps DEF LinkFails, Busy
<1>9. CASE LinkKilled(q) /\ UNCHANGED crossed
  BY <1>9, LinkKilledKeeps DEF LinkKilled, Busy
<1>10. CASE RemoveObject(q) /\ UNCHANGED crossed
  BY <1>10, RemoveObjectKeeps DEF RemoveObject, Busy
<1>11. CASE Run(q) /\ UNCHANGED crossed
  BY <1>11, RunKeeps DEF Run, Busy
<1>12. CASE Abort(q) /\ UNCHANGED crossed
  BY <1>12, InterruptKeeps DEF Abort, Busy
<1>13. CASE Cleanup(q) /\ UNCHANGED crossed
  BY <1>13, CleanupKeeps DEF Cleanup, Busy
<1>14. CASE Interrupt(q)
  <2>1. pc'[q] = "done"
    BY <1>14 DEF Interrupt, Ends, TypeOK
  <2> QED
    BY <1>14, <2>1, InterruptKeeps DEF Busy
<1> QED
  BY <1>1, <1>2, <1>3, <1>4, <1>5, <1>6, <1>7, <1>8, <1>9, <1>10, <1>11, <1>12, <1>13, <1>14
  DEF Step

(* No step changes a command line.                                          *)
LEMMA ScenarioKept ==
  ASSUME TypeOK, DriverInv, [Next]_vars
  PROVE  UNCHANGED scenario
<1>1. ASSUME NEW q \in Proc, Step(q) \/ Interrupt(q) PROVE UNCHANGED scenario
  BY <1>1, StepKeeps DEF Keeps, Local
<1> QED
  BY <1>1 DEF Next, Done, vars

(* Every step of any process, or an interruption of it, keeps the invariant. *)
LEMMA NextDriverInv == TypeOK /\ DriverInv /\ [Next]_vars => TypeOK' /\ DriverInv'
<1> SUFFICES ASSUME TypeOK, DriverInv, [Next]_vars PROVE TypeOK' /\ DriverInv'
  OBVIOUS
<1>1. ASSUME NEW q \in Proc, Step(q) \/ Interrupt(q) PROVE TypeOK' /\ DriverInv'
  <2>1. Keeps(q) /\ (Main(q) \/ (Busy(q)' => Busy(q)))
    BY <1>1, StepKeeps
  <2>2. TypeOK' /\ Objects' /\ Local(q)
    BY <2>1 DEF Keeps, Local
  <2>3. Crossing'
    BY <2>1, <2>2, CrossingKept
  <2>4. ASSUME NEW p \in Proc PROVE (Placed(p) /\ Examined(p) /\ Verdict(p) /\ Alone(p))'
    <3>1. CASE p = q
      BY <2>1, <3>1 DEF Keeps
    <3>2. CASE p # q
      <4>1. Placed(q)
        BY DEF DriverInv
      <4> QED
        BY <2>1, <3>2, <4>1, OthersKeep
    <3> QED
      BY <3>1, <3>2
  <2> QED
    BY <2>2, <2>3, <2>4 DEF DriverInv
<1>2. CASE UNCHANGED vars
  <2>1. \A p \in Proc : Before(p)' = Before(p)
    BY <1>2, SameScenario DEF vars, Before
  <2>2. Objects'
    BY <1>2, SameObjects DEF vars, DriverInv
  <2>3. TypeOK' /\ Crossing'
    BY <1>2, SameScenario DEF vars, TypeOK, DriverInv, Crossing, Busy
  <2>4. ASSUME NEW p \in Proc PROVE (Placed(p) /\ Examined(p) /\ Verdict(p))'
    BY <1>2, <2>1, SameScenario DEF vars, DriverInv, Placed, Examined, Verdict, ChecksAll, Checked, Succeeded
  <2>5. ASSUME NEW p \in Proc PROVE Alone(p)'
    <3>1. /\ pc'[p] = pc[p] /\ at'[p] = at[p] /\ error'[p] = error[p] /\ ran'[p] = ran[p]
          /\ killed'[p] = killed[p] /\ crossed' = crossed /\ disk' = disk
      BY <1>2 DEF vars
    <3>2. UNCHANGED scenario /\ Alone(p)
      BY <1>2 DEF vars, DriverInv
    <3>3. ASSUME NEW n PROVE (Written(p, n)' <=> Written(p, n)) /\ (Removed(p, n)' <=> Removed(p, n))
      BY <3>1, <3>2, SameScenario DEF Written, Removed
    <3> HIDE DEF Written, Removed
    <3> QED
      BY <3>1, <3>2, <3>3, SameScenario DEF Alone
  <2> QED
    BY <2>2, <2>3, <2>4, <2>5 DEF DriverInv
<1> QED
  BY <1>1, <1>2 DEF Next, Done

(* It holds when the processes start.                                       *)
LEMMA InitDriverInv == Init => TypeOK /\ DriverInv
<1> SUFFICES ASSUME Init PROVE TypeOK /\ DriverInv
  OBVIOUS
<1>1. TypeOK
  BY Contents DEF Init, TypeOK, Places, Running
<1>2. Objects
  <2>1. ToSet(<<>>) = {}
    BY DEF ToSet
  <2> QED
    BY <2>1, Contents DEF Init, Objects
<1>3. Crossing
  BY DEF Init, Crossing, Busy
<1>4. ASSUME NEW p \in Proc PROVE Placed(p) /\ Examined(p) /\ Verdict(p) /\ Alone(p)
  <2>1. pc[p] = "main" /\ exit[p] = Running /\ error[p] = "none" /\ told[p] = {}
    BY DEF Init
  <2> QED
    BY <2>1 DEF Placed, Examined, Alone, Building, Verdict, ChecksAll, Checked, Succeeded, Running, Killed
<1> QED
  BY <1>1, <1>2, <1>3, <1>4 DEF DriverInv

(* Every reachable state of the command line driver is type correct.        *)
THEOREM DriverTypeCorrect == Spec => []TypeOK
BY InitDriverInv, NextDriverInv, PTL DEF Spec

(* Whatever the sources, the options and the other processes: an exit       *)
(* status of 0 means that all sources passed every stage, no object of a    *)
(* command with a wrong source is ever written, and --check-syntax reports  *)
(* all sources with a syntax error.                                         *)
THEOREM DefectsAlwaysFail == Spec => []DefectsFail
<1>1. TypeOK /\ DriverInv => DefectsFail
  BY DEF DriverInv, Objects, Verdict, Passes, DefectsFail, AllOrNothing
<1> QED
  BY <1>1, InitDriverInv, NextDriverInv, PTL DEF Spec

(* A step by which a compilation succeeds.                                  *)
LEMMA Successes ==
  ASSUME TypeOK, DriverInv, [Next]_vars, NEW p \in Proc, Succeeds(p, {"compile", "--run"})
  PROVE  \/ /\ Action(p) = "compile" /\ RemoveObject(p)
            /\ at[p] = Len(Sources(p)) /\ error'[p] = "none"
         \/ Action(p) = "--run" /\ Cleanup(p)
<1>1. exit[p] # 0 /\ exit'[p] = 0 /\ p \notin crossed
  BY DEF Succeeds, Succeeded
<1>2. PICK q \in Proc : Step(q) \/ Interrupt(q)
  BY <1>1 DEF Next, Done, vars
<1>3. Local(q)
  BY <1>2, StepKeeps DEF Keeps
<1>4. p = q /\ UNCHANGED scenario
  BY <1>1, <1>3 DEF Local
<1>5. ~Opts(p).help /\ Action(p) \in {"compile", "--run"}
  BY <1>4, SameScenario DEF Succeeds, Succeeded
<1>6. /\ Placed(p) /\ Examined(p) /\ Running # 0 /\ Killed # 0 /\ Aborted # 0
      /\ do_compiler_action("code_generation_error") # 0
  BY ExitStatus DEF DriverInv, Running, Killed, Aborted, Exceptions
<1>7. \A s : Ends(p, s) => s = 0
  BY <1>1 DEF Ends, TypeOK
<1>8. \A place, i : ~Goes(p, place, i)
  BY <1>1 DEF Goes
<1>9. ~Interrupt(p) /\ ~Abort(p) /\ ~ObjectFails(p) /\ ~LinkFails(p)
  BY <1>6, <1>7 DEF Interrupt, Abort, ObjectFails, LinkFails, Throws
<1>10. ~Link(p) /\ ~LinkKilled(p) /\ ~Run(p)
  BY <1>1, <1>8 DEF Link, LinkKilled, Run
<1>11. ~Main(p)
  <2>1. 1 # 0 /\ 2 # 0 /\ Action(p) # "usage"
    BY <1>5
  <2> QED
    BY <1>5, <1>7, <1>8, <2>1 DEF Main
<1>12. ~SourcePasses(p) /\ ~check_syntax(p)
  <2>1. pc[p] = "source" => at[p] \in 1..Len(Sources(p)) /\ Len(Sources(p)) \in Nat
    BY <1>6, PathFacts DEF Placed, TypeOK
  <2>2. pc[p] = "source" => \A e : ~AfterSource(p, e)
    BY <1>5, <1>8, <2>1 DEF AfterSource
  <2> QED
    BY <2>2 DEF SourcePasses, check_syntax
<1>13. ~SourceFails(p)
  <2> SUFFICES ASSUME SourceFails(p) PROVE FALSE
    OBVIOUS
  <2>1. pc[p] = "source" /\ Fails(p) /\ Throws(p, Thrown[scenario.defect[Here(p)]])
    BY DEF SourceFails
  <2>2. scenario.defect[Here(p)] \in Defects /\ scenario.defect[Here(p)] # "none"
    BY <2>1, AtSource, DefectKinds, StageKinds DEF Fails
  <2>3. do_compiler_action(Thrown[scenario.defect[Here(p)]]) # 0
    BY <2>2, DefectKinds, ExitStatus
  <2> QED
    BY <1>7, <2>1, <2>3 DEF Throws
<1>14. ~generate_object(p)
  <2>1. pc[p] = "object" => at[p] \in 1..Len(Sources(p)) /\ Len(Sources(p)) \in Nat
    BY <1>6, PathFacts DEF Placed, TypeOK, Building
  <2> QED
    BY <1>5, <1>8, <2>1 DEF generate_object, AfterObject
<1>15. ASSUME RemoveObject(p)
       PROVE  Action(p) = "compile" /\ at[p] = Len(Sources(p)) /\ error'[p] = "none"
  <2> DEFINE e == IF disk[ObjectPath(p, at[p])].there THEN error[p] ELSE "code_generation_error"
  <2>1. /\ pc[p] = "remove" /\ AfterRemove(p, e) /\ error' = [error EXCEPT ![p] = e]
    BY <1>15 DEF RemoveObject
  <2>2. at[p] \in 1..Len(Sources(p)) /\ Len(Sources(p)) \in Nat
    BY <1>6, <2>1, PathFacts DEF Placed, TypeOK, Building
  <2>3. e \in Exceptions /\ error'[p] = e
    BY <2>1 DEF TypeOK, Exceptions
  <2> HIDE DEF e
  <2>4. /\ at[p] = Len(Sources(p)) /\ ~(e = "none" /\ Action(p) = "--run") /\ Throws(p, e)
    BY <1>8, <2>1, <2>2 DEF AfterRemove
  <2>5. e = "none"
    BY <1>7, <2>3, <2>4, ExitStatus DEF Throws
  <2> QED
    BY <1>5, <2>3, <2>4, <2>5
<1>16. Cleanup(p) => Action(p) = "--run"
  BY <1>6 DEF Cleanup, Placed
<1> QED
  BY <1>2, <1>4, <1>9, <1>10, <1>11, <1>12, <1>13, <1>14, <1>15, <1>16 DEF Step

(* The last object of a compilation is removed when it succeeds.            *)
LEMMA CompileSucceeds ==
  ASSUME TypeOK, DriverInv, NEW p \in Proc, RemoveObject(p),
         p \notin crossed, at[p] = Len(Sources(p)), error'[p] = "none"
  PROVE  /\ \A x \in ObjectPaths(p) : ~disk'[x].there
         /\ ~killed[p] => disk'[ExecutablePath(p)] = Holds(Sources(p))
<1>1. /\ \A i \in 1..at[p] : ~disk'[ObjectPath(p, i)].there
      /\ Distinct(p, at[p])
      /\ ~killed[p] /\ AllDistinct(p) => disk'[ExecutablePath(p)] = Holds(Sources(p))
  BY RemovesHere
<1>2. DOMAIN Sources(p) = 1..Len(Sources(p))
  BY PathFacts DEF TypeOK
<1> QED
  BY <1>1, <1>2 DEF ObjectPaths, AllDistinct

(* The executable of --run is removed when it succeeds.                     *)
LEMMA RunSucceeds ==
  ASSUME TypeOK, DriverInv, NEW p \in Proc, Cleanup(p), p \notin crossed
  PROVE  /\ \A x \in ObjectPaths(p) : ~disk'[x].there
         /\ ~disk'[ExecutablePath(p)].there
         /\ ~killed[p] => ran'[p] = Holds(Sources(p))
<1>1. pc[p] = "cleanup" /\ Puts(ExecutablePath(p), NoFile) /\ UNCHANGED ran
  BY DEF Cleanup, Throws, Ends
<1>2. pc[p] \in Building
  BY <1>1 DEF Building
<1>3. Len(Sources(p)) \in Nat \ {0} /\ ExecutablePath(p) \in Path
  BY <1>2, AtWork
<1>4. Removed(p, Len(Sources(p))) /\ (~killed[p] => ran[p] = Holds(Sources(p)))
  BY <1>1 DEF DriverInv, Alone
<1>5. disk'[ExecutablePath(p)] = NoFile /\ \A y \in Path : y # ExecutablePath(p) => disk'[y] = disk[y]
  BY <1>1, <1>3, PutsFacts, Contents
<1>6. ASSUME NEW i \in 1..Len(Sources(p)) PROVE ~disk'[ObjectPath(p, i)].there
  <2>1. ObjectPath(p, i) \in Path /\ ObjectPath(p, i) # ExecutablePath(p)
    <3>1. Sources(p) # <<>>
      BY <1>3, EmptySeq
    <3> QED
      BY <1>3, <3>1, PathFacts DEF TypeOK
  <2>2. ~disk[ObjectPath(p, i)].there
    BY <1>4 DEF Removed
  <2> QED
    BY <1>5, <2>1, <2>2
<1>7. DOMAIN Sources(p) = 1..Len(Sources(p))
  BY PathFacts DEF TypeOK
<1> QED
  BY <1>1, <1>4, <1>5, <1>6, <1>7, Contents DEF ObjectPaths

(* Action: a process that exits with 0 leaves no object of compile and      *)
(* nothing at all of --run behind, unless another process used its paths    *)
(* meanwhile.                                                               *)
THEOREM SuccessCleansUp == Spec => CleansUp
<1>1. ASSUME TypeOK, DriverInv, [Next]_vars, NEW p \in Proc
      PROVE  /\ Succeeds(p, {"compile", "--run"}) => \A x \in ObjectPaths(p) : ~disk'[x].there
             /\ Succeeds(p, {"--run"}) => ~disk'[ExecutablePath(p)].there
  <2>1. ASSUME Succeeds(p, {"compile", "--run"})
        PROVE  \A x \in ObjectPaths(p) : ~disk'[x].there
    BY <1>1, <2>1, Successes, CompileSucceeds, RunSucceeds DEF Succeeds
  <2>2. ASSUME Succeeds(p, {"--run"}) PROVE ~disk'[ExecutablePath(p)].there
    <3>1. Succeeds(p, {"compile", "--run"}) /\ Action(p)' = "--run"
      BY <2>2 DEF Succeeds, Succeeded
    <3>2. Action(p)' = Action(p)
      BY <1>1, ScenarioKept, SameScenario
    <3> QED
      BY <1>1, <3>1, <3>2, Successes, RunSucceeds DEF Succeeds
  <2> QED
    BY <2>1, <2>2
<1>2. TypeOK /\ DriverInv /\ [Next]_vars =>
        [\A p \in Proc :
          /\ Succeeds(p, {"compile", "--run"}) => \A x \in ObjectPaths(p) : ~disk'[x].there
          /\ Succeeds(p, {"--run"}) => ~disk'[ExecutablePath(p)].there]_vars
  BY <1>1
<1> QED
  BY <1>2, InitDriverInv, NextDriverInv, PTL DEF Spec, CleansUp

(* Action: a compilation that exits with 0 has linked all of its sources in *)
(* their order, and --run has run that program, whatever earlier processes  *)
(* left on the disk, unless a signal ended the linker.                      *)
THEOREM SuccessBuildsItsProgram == Spec => BuildsItsProgram
<1>1. ASSUME TypeOK, DriverInv, [Next]_vars, NEW p \in Proc, ~killed[p]
      PROVE  /\ Succeeds(p, {"compile"}) => disk'[ExecutablePath(p)] = Holds(Sources(p))
             /\ Succeeds(p, {"--run"}) => ran'[p] = Holds(Sources(p))
  <2>1. \A b \in {"compile", "--run"} :
          Succeeds(p, {b}) => Succeeds(p, {"compile", "--run"}) /\ Action(p) = b
    <3>1. Action(p)' = Action(p)
      BY <1>1, ScenarioKept, SameScenario
    <3> QED
      BY <3>1 DEF Succeeds, Succeeded
  <2>2. ASSUME Succeeds(p, {"compile"}) PROVE disk'[ExecutablePath(p)] = Holds(Sources(p))
    BY <1>1, <2>1, <2>2, Successes, CompileSucceeds DEF Succeeds
  <2>3. ASSUME Succeeds(p, {"--run"}) PROVE ran'[p] = Holds(Sources(p))
    BY <1>1, <2>1, <2>3, Successes, RunSucceeds DEF Succeeds
  <2> QED
    BY <2>2, <2>3
<1>2. TypeOK /\ DriverInv /\ [Next]_vars =>
        [\A p \in Proc : ~killed[p] =>
          /\ Succeeds(p, {"compile"}) => disk'[ExecutablePath(p)] = Holds(Sources(p))
          /\ Succeeds(p, {"--run"}) => ran'[p] = Holds(Sources(p))]_vars
  BY <1>1
<1> QED
  BY <1>2, InitDriverInv, NextDriverInv, PTL DEF Spec, BuildsItsProgram
=============================================================================
