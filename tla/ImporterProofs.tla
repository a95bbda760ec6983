--------------------------- MODULE ImporterProofs ---------------------------
(***************************************************************************)
(* Proofs about Importer, for every number of search directories, every    *)
(* set of module names and every disk.                                     *)
(***************************************************************************)
EXTENDS Importer, ProofLemmas

(* What a type-correct state says about the innermost frame.                *)
LEMMA TypeFacts ==
  ASSUME TypeOK
  PROVE  /\ Len(stack) \in Nat \ {0}
         /\ Top \in Frame
         /\ \A i \in 1..Len(stack) : stack[i] \in Frame
         /\ \A p \in Path : Imports(p) \in Seq(Name)
         /\ HasImport => Wanted \in Name
         /\ \A n \in Name : Candidates(n) # {} => find_path(n) \in Path
<1>1. Len(stack) \in Nat \ {0} /\ \A i \in 1..Len(stack) : stack[i] \in Frame
  BY EmptySeq, ElementOfSeq DEF TypeOK
<1>2. Top \in Frame
  BY <1>1 DEF Top
<1>3. ASSUME NEW p \in Path PROVE Imports(p) \in Seq(Name)
  <2>1. FileOf(p) \in File
    BY DEF TypeOK, FileOf, Disk
  <2>2. disk.explicit \in [File -> Seq(Name)] /\ disk.implicit \in [File -> Seq(Name)]
    BY DEF TypeOK, Disk
  <2> QED
    BY <2>1, <2>2, ConcatProperties DEF Imports
<1>4. HasImport => Wanted \in Name
  <2>1. Top.file \in Path /\ Top.next \in Nat \ {0}
    BY <1>2 DEF Frame
  <2> QED
    BY <2>1, <1>3, ElementOfSeq DEF HasImport, Wanted
<1>5. ASSUME NEW n \in Name, Candidates(n) # {} PROVE find_path(n) \in Path
  <2>1. Candidates(n) \in SUBSET Nat
    BY NDirsAssumption DEF Candidates, SearchDir
  <2>2. Min(Candidates(n)) \in SearchDir
    BY <2>1, <1>5, MinNat DEF Candidates
  <2> QED
    BY <2>2 DEF find_path, Place, TypeOK, Disk
<1> QED
  BY <1>1, <1>2, <1>3, <1>4, <1>5

(* A new frame is a frame,                                                  *)
LEMMA ImportType ==
  ASSUME NEW p \in Path PROVE import(p) \in Frame
BY DEF import, parse, Frame, Program

(* and merged programs are a program.                                       *)
LEMMA MergeType ==
  ASSUME NEW l \in Program, NEW r \in Program PROVE merge(l, r) \in Program
BY DEF merge, Program

(* The stack that Leave produces.                                           *)
Below == Len(stack) - 1
Left == Append(SubSeq(stack, 1, Len(stack) - 2), Resume(stack[Below], Top.program))

(* Leaving a file changes only the frame below it.                          *)
LEMMA LeftFacts ==
  ASSUME TypeOK, Len(stack) > 1
  PROVE  /\ Left \in Seq(Frame) /\ Len(Left) = Below /\ Below \in 1..Len(stack)
         /\ \A i \in 1..Below : i # Below => Left[i] = stack[i]
         /\ Left[Below].file = stack[Below].file
         /\ Left[Below].next = stack[Below].next + 1
         /\ Left[Below].program = merge(stack[Below].program, Top.program)
<1> DEFINE s == SubSeq(stack, 1, Len(stack) - 2)
           f == Resume(stack[Below], Top.program)
<1>1. Below \in 1..Len(stack) /\ Len(stack) - 2 \in Nat
      /\ \A i \in 1..Len(stack) : stack[i] \in Frame
  BY TypeFacts DEF Below
<1>2. s \in Seq(Frame) /\ Len(s) = Len(stack) - 2
      /\ \A i \in 1..(Len(stack) - 2) : s[i] = stack[i]
  <2> DEFINE k == Len(stack) - 2
  <2>1. k \in Nat /\ \A i \in 1..k : stack[i] \in Frame
    BY <1>1
  <2> HIDE DEF k
  <2>2. /\ SubSeq(stack, 1, k) \in Seq(Frame)
        /\ Len(SubSeq(stack, 1, k)) = IF 1 <= k THEN k - 1 + 1 ELSE 0
        /\ \A i \in 1..(k - 1 + 1) : SubSeq(stack, 1, k)[i] = stack[1 + i - 1]
    BY <2>1, SubSeqProperties
  <2>3. SubSeq(stack, 1, k) \in Seq(Frame) /\ Len(SubSeq(stack, 1, k)) = k
        /\ \A i \in 1..k : SubSeq(stack, 1, k)[i] = stack[i]
    BY <2>1, <2>2
  <2> QED
    BY <2>3 DEF k
<1>3. stack[Below] \in Frame /\ Top \in Frame
  BY <1>1, TypeFacts
<1>4. merge(stack[Below].program, Top.program) \in Program
  BY <1>3, MergeType DEF Frame
<1>5. f \in Frame /\ f.file = stack[Below].file /\ f.next = stack[Below].next + 1
      /\ f.program = merge(stack[Below].program, Top.program)
  BY <1>3, <1>4 DEF Frame, Resume
<1> HIDE DEF s, f
<1>6. Left = Append(s, f)
  BY DEF Left, s, f
<1>7. Left \in Seq(Frame) /\ Len(Left) = Below /\ Left[Below] = f
      /\ \A i \in 1..(Len(stack) - 2) : Left[i] = s[i]
  BY <1>1, <1>2, <1>5, <1>6, AppendProperties DEF Below
<1> QED
  BY <1>1, <1>2, <1>5, <1>7 DEF Below

(* Skipping an import changes only the top frame.                           *)
LEMMA AdvanceFacts ==
  ASSUME TypeOK
  PROVE  /\ Advance(stack) \in Seq(Frame)
         /\ Len(Advance(stack)) = Len(stack)
         /\ \A i \in 1..Len(stack) :
              /\ Advance(stack)[i].file = stack[i].file
              /\ Advance(stack)[i].program = stack[i].program
              /\ Advance(stack)[i].next =
                   IF i = Len(stack) THEN stack[i].next + 1 ELSE stack[i].next
<1> DEFINE n == Len(stack)
           f == [stack[n] EXCEPT !.next = @ + 1]
<1>1. n \in 1..Len(stack) /\ \A i \in 1..n : stack[i] \in Frame
  BY TypeFacts
<1>2. f \in Frame /\ f.file = stack[n].file /\ f.program = stack[n].program
      /\ f.next = stack[n].next + 1
  BY <1>1 DEF Frame
<1>3. Advance(stack) = [stack EXCEPT ![n] = f]
  BY DEF Advance
<1> QED
  BY <1>1, <1>2, <1>3, ExceptSeq DEF TypeOK

(* Entering a file adds one frame.                                          *)
LEMMA EnterFacts ==
  ASSUME TypeOK, NEW p \in Path
  PROVE  /\ Append(stack, import(p)) \in Seq(Frame)
         /\ Len(Append(stack, import(p))) = Len(stack) + 1
         /\ \A i \in 1..Len(stack) : Append(stack, import(p))[i] = stack[i]
         /\ Append(stack, import(p))[Len(stack) + 1] = import(p)
BY ImportType, AppendProperties DEF TypeOK

(* Unless it stops the walk, a step is one of three changes of the stack.   *)
LEMMA EnterStep ==
  ASSUME TypeOK, Enter
  PROVE  /\ AtImport /\ Candidates(Wanted) # {}
         /\ find_path(Wanted) \in Path
         /\ find_path(Wanted) \notin already
BY TypeFacts DEF Enter, Unseen, AtImport

-----------------------------------------------------------------------------
(* Types hold at the start,                                                 *)
LEMMA InitTypeOK == Init => TypeOK
<1> SUFFICES ASSUME Init PROVE TypeOK
  OBVIOUS
<1>1. Root \in Path
  BY RootAssumption
<1>2. import(Root) \in Frame
  BY <1>1, ImportType
<1> QED
  BY <1>1, <1>2, DisksAssumption DEF Init, TypeOK, Status

(* and after every step.                                                    *)
LEMMA NextTypeOK == TypeOK /\ [Next]_vars => TypeOK'
<1> SUFFICES ASSUME TypeOK, [Next]_vars PROVE TypeOK'
  OBVIOUS
<1>1. ASSUME SkipImported PROVE TypeOK'
  <2>1. Advance(stack) # <<>>
    BY AdvanceFacts, TypeFacts, EmptySeq
  <2> QED
    BY <1>1, <2>1, AdvanceFacts DEF SkipImported, TypeOK
<1>2. ASSUME Enter PROVE TypeOK'
  <2> DEFINE p == find_path(Wanted)
  <2>1. p \in Path
    BY <1>2, EnterStep
  <2>2. Append(stack, import(p)) # <<>>
    BY <2>1, EnterFacts, TypeFacts, EmptySeq
  <2> QED
    BY <1>2, <2>1, <2>2, EnterFacts DEF Enter, TypeOK
<1>3. ASSUME Leave PROVE TypeOK'
  <2>1. stack' = Left
    BY <1>3 DEF Leave, Left, Below
  <2>2. Left # <<>>
    BY <1>3, LeftFacts, TypeFacts, EmptySeq DEF Leave, Below
  <2> QED
    BY <1>3, <2>1, <2>2, LeftFacts DEF Leave, TypeOK
<1>4. CASE NotFound \/ CannotOpen \/ ParseError \/ Finish
  BY <1>4 DEF NotFound, CannotOpen, ParseError, Finish, Throw, TypeOK, Status
<1>5. CASE Stopped \/ UNCHANGED vars
  BY <1>5 DEF Stopped, vars, TypeOK
<1> QED
  BY <1>1, <1>2, <1>3, <1>4, <1>5 DEF Next

(* Every reachable state of the module loader is type correct.              *)
THEOREM TypeCorrect == Spec => []TypeOK
<1>1. Init => TypeOK
  BY InitTypeOK
<1>2. TypeOK /\ [Next]_vars => TypeOK'
  BY NextTypeOK
<1> QED
  BY <1>1, <1>2, PTL DEF Spec

-----------------------------------------------------------------------------
(* The import graph depends on the disk only, which no step changes.        *)
LEMMA SameDisk ==
  ASSUME UNCHANGED disk
  PROVE  /\ \A p : Imports(p)' = Imports(p)
         /\ \A n : Candidates(n)' = Candidates(n)
         /\ \A n : find_path(n)' = find_path(n)
         /\ \A p : Needs(p)' = Needs(p)
         /\ \A T : Closed(T)' <=> Closed(T)
<1>1. \A p : Imports(p)' = Imports(p)
  BY DEF Imports, FileOf
<1>2. \A n : Candidates(n)' = Candidates(n)
  BY DEF Candidates, FileOf
<1>3. \A n : find_path(n)' = find_path(n)
  BY <1>2 DEF find_path
<1>4. \A p : Needs(p)' = Needs(p)
  BY <1>1, <1>2, <1>3 DEF Needs
<1>5. \A T : Closed(T)' <=> Closed(T)
  BY <1>4 DEF Closed
<1> QED
  BY <1>1, <1>2, <1>3, <1>4, <1>5

(* The next import of the innermost file is an edge of the import graph.    *)
LEMMA WantedIsNeeded ==
  ASSUME TypeOK, HasImport, Candidates(Wanted) # {}
  PROVE  find_path(Wanted) \in Needs(Top.file)
<1>1. Top.file \in Path /\ Top.next \in Nat \ {0}
  BY TypeFacts DEF Frame
<1>2. Top.next \in DOMAIN Imports(Top.file)
  BY <1>1, TypeFacts, LenProperties DEF HasImport
<1> QED
  BY <1>2 DEF Needs, Wanted

(* A frame whose loop is over has marked all imports of its file.           *)
LEMMA LoopOver ==
  ASSUME TypeOK, PassedMarked, ~HasImport
  PROVE  Needs(Top.file) \subseteq already
<1>1. Top.file \in Path /\ Top.next \in Nat \ {0}
  BY TypeFacts DEF Frame
<1>2. Imports(Top.file) \in Seq(Name)
  BY <1>1, TypeFacts
<1>3. Len(stack) \in DOMAIN stack
  BY TypeFacts, LenProperties DEF TypeOK
<1>4. Top.next = Len(Imports(Top.file)) + 1
  BY <1>1, <1>2, <1>3, LenProperties DEF PassedMarked, HasImport, Top
<1>5. DOMAIN Imports(Top.file) = 1..(Top.next - 1)
  BY <1>2, <1>4, LenProperties
<1>6. \A k \in DOMAIN Imports(Top.file) : Imports(Top.file)[k] \in Passed(Top)
  BY <1>5 DEF Passed
<1>7. \A n \in Passed(Top) : Candidates(n) # {} => find_path(n) \in already
  BY <1>3 DEF PassedMarked, Top
<1> QED
  BY <1>6, <1>7 DEF Needs

(* WalkInv holds at the start,                                              *)
LEMMA InitWalkInv == Init => WalkInv
<1> SUFFICES ASSUME Init PROVE WalkInv
  OBVIOUS
<1>1. TypeOK
  BY InitTypeOK
<1>2. Root \in Path
  BY RootAssumption
<1>3. Len(stack) = 1 /\ stack[1] = import(Root) /\ DOMAIN stack = {1}
  BY DEF Init
<1>4. \A p \in Path : Copies(1, p) = IF p = Root THEN 1 ELSE 0
  BY <1>3 DEF Copies, import, parse
<1>5. stack[1].file = Root /\ stack[1].next = 1 /\ already = {Root}
  BY <1>3 DEF Init, import
<1>6. HeldOnce
  BY <1>2, <1>3, <1>4, <1>5 DEF HeldOnce
<1>7. OnlyReachable
  BY <1>5 DEF OnlyReachable, Closed
<1>8. PassedMarked
  <2>1. Len(Imports(Root)) \in Nat
    BY <1>1, <1>2, TypeFacts, LenProperties
  <2>2. Passed(stack[1]) = {}
    BY <1>5 DEF Passed
  <2> QED
    BY <1>3, <1>5, <2>1, <2>2 DEF PassedMarked
<1>9. Waiting /\ Complete
  BY <1>3, <1>5 DEF Waiting, Complete
<1> QED
  BY <1>6, <1>7, <1>8, <1>9 DEF WalkInv, Init

(* A repeated import changes no program and marks nothing.                  *)
LEMMA SkipKeepsWalkInv ==
  ASSUME TypeOK, WalkInv, SkipImported
  PROVE  WalkInv'
<1>0. PICK n \in Nat \ {0} : n = Len(stack)
  BY TypeFacts
<1>1. /\ UNCHANGED <<disk, already, status>> /\ stack' = Advance(stack)
      /\ status = "running" /\ HasImport
      /\ Candidates(Wanted) # {} /\ find_path(Wanted) \in already
  BY DEF SkipImported, AtImport
<1>2. /\ DOMAIN stack = 1..n /\ DOMAIN stack' = 1..n
      /\ Len(stack') = n /\ stack' \in Seq(Frame)
  BY <1>0, <1>1, AdvanceFacts, LenProperties DEF TypeOK
<1>3. \A i \in 1..n : /\ stack'[i].file = stack[i].file
                      /\ stack'[i].program = stack[i].program
                      /\ stack'[i].next = IF i = n THEN stack[i].next + 1
                                                 ELSE stack[i].next
  BY <1>0, <1>1, AdvanceFacts
<1>4. \A i \in 1..n : stack[i].file \in Path /\ stack[i].next \in Nat \ {0}
  BY <1>0, TypeFacts DEF Frame
<1>5. HeldOnce'
  <2>1. \A i \in 1..n : \A p : Copies(i, p)' = Copies(i, p)
    BY <1>3 DEF Copies
  <2> QED
    BY <1>1, <1>2, <2>1 DEF WalkInv, HeldOnce
<1>6. OnlyReachable'
  BY <1>1, SameDisk DEF WalkInv, OnlyReachable
<1>7. PassedMarked'
  <2> SUFFICES ASSUME NEW i \in 1..n
               PROVE  /\ stack'[i].file \in already
                      /\ stack'[i].next <= Len(Imports(stack'[i].file)) + 1
                      /\ \A m \in (Passed(stack[i]))' :
                           Candidates(m) # {} => find_path(m) \in already
    BY <1>1, <1>2, SameDisk DEF PassedMarked
  <2>1. stack[i].file \in already /\ stack[i].next <= Len(Imports(stack[i].file)) + 1
        /\ \A m \in Passed(stack[i]) : Candidates(m) # {} => find_path(m) \in already
    BY <1>2 DEF WalkInv, PassedMarked
  <2>2. CASE i # n
    <3>1. (Passed(stack[i]))' = Passed(stack[i])
      BY <1>1, <1>3, <2>2, SameDisk DEF Passed
    <3> QED
      BY <2>1, <2>2, <3>1, <1>3
  <2>3. CASE i = n
    <3>1. Top = stack[i]
      BY <1>0, <2>3 DEF Top
    <3>2. (Passed(stack[i]))' \subseteq Passed(stack[i]) \cup {Wanted}
      BY <1>1, <1>3, <1>4, <2>3, <3>1, SameDisk DEF Passed, Wanted
    <3>3. Imports(stack[i].file) \in Seq(Name)
      BY <1>4, TypeFacts
    <3>4. stack[i].next + 1 <= Len(Imports(stack[i].file)) + 1
      BY <1>1, <1>4, <3>1, <3>3, LenProperties DEF HasImport
    <3> QED
      BY <1>1, <1>3, <2>1, <2>3, <3>2, <3>4
  <2> QED
    BY <2>2, <2>3
<1>8. Waiting'
  <2> SUFFICES ASSUME NEW i \in 1..n, i # n
               PROVE  /\ stack'[i].next <= Len(Imports(stack'[i].file))
                      /\ find_path(Imports(stack'[i].file)[stack'[i].next]) = stack'[i + 1].file
    BY <1>1, <1>2, SameDisk DEF Waiting
  <2>1. /\ stack[i].next <= Len(Imports(stack[i].file))
        /\ find_path(Imports(stack[i].file)[stack[i].next]) = stack[i + 1].file
    BY <1>0, <1>2 DEF WalkInv, Waiting
  <2>2. i + 1 \in 1..n
    OBVIOUS
  <2> QED
    BY <1>3, <2>1, <2>2
<1>9. Complete'
  <2> SUFFICES ASSUME NEW p \in already, \A i \in 1..n : stack'[i].file # p
               PROVE  Needs(p) \subseteq already
    BY <1>1, <1>2, SameDisk DEF Complete
  <2> QED
    BY <1>2, <1>3 DEF WalkInv, Complete
<1> QED
  BY <1>1, <1>5, <1>6, <1>7, <1>8, <1>9 DEF WalkInv

(* A new frame holds its file, which was marked nowhere before.             *)
LEMMA EnterKeepsWalkInv ==
  ASSUME TypeOK, WalkInv, Enter
  PROVE  WalkInv'
<1>0. PICK n \in Nat \ {0} : n = Len(stack)
  BY TypeFacts
<1>p. PICK p : p = find_path(Wanted)
  OBVIOUS
<1>1. /\ UNCHANGED <<disk, status>> /\ stack' = Append(stack, import(p))
      /\ already' = already \cup {p} /\ status = "running" /\ HasImport
      /\ Candidates(Wanted) # {} /\ p \in Path /\ p \notin already
  BY <1>p, EnterStep DEF Enter, AtImport
<1>2. /\ DOMAIN stack = 1..n /\ DOMAIN stack' = 1..(n + 1)
      /\ Len(stack') = n + 1
      /\ \A i \in 1..n : stack'[i] = stack[i]
      /\ stack'[n + 1] = import(p)
  BY <1>0, <1>1, EnterFacts, LenProperties DEF TypeOK
<1>3. \A i \in 1..n : stack[i].file \in Path /\ stack[i].next \in Nat \ {0}
                      /\ stack[i].program.defs \in [Path -> Nat]
  BY <1>0, TypeFacts DEF Frame, Program
<1>4. stack'[n + 1].file = p /\ stack'[n + 1].next = 1
  BY <1>2 DEF import
<1>5. HeldOnce'
  <2>1. \A i \in 1..n : \A q : Copies(i, q)' = Copies(i, q)
    BY <1>2 DEF Copies
  <2>2. \A q \in Path : Copies(n + 1, q)' = IF q = p THEN 1 ELSE 0
    BY <1>2 DEF Copies, import, parse
  <2>3. \A i \in 1..n : \A q \in Path :
          /\ Copies(i, q) \in Nat /\ Copies(i, q) <= 1
          /\ Copies(i, q) = 1 => q \in already
          /\ \A j \in 1..n : Copies(i, q) = 1 /\ Copies(j, q) = 1 => i = j
    BY <1>2, <1>3 DEF WalkInv, HeldOnce, Copies
  <2>4. \A i \in 1..(n + 1) : i \in 1..n \/ i = n + 1
    OBVIOUS
  <2>5. \A i \in 1..(n + 1) : \A q \in Path :
          /\ Copies(i, q)' <= 1
          /\ Copies(i, q)' = 1 => q \in already'
          /\ \A j \in 1..(n + 1) : Copies(i, q)' = 1 /\ Copies(j, q)' = 1 => i = j
    BY <1>1, <2>1, <2>2, <2>3, <2>4
  <2>6. \A q \in already' : \E i \in 1..(n + 1) : Copies(i, q)' = 1
    <3> SUFFICES ASSUME NEW q \in already' PROVE \E i \in 1..(n + 1) : Copies(i, q)' = 1
      OBVIOUS
    <3>1. CASE q = p
      BY <1>1, <1>2, <2>2, <3>1
    <3>2. CASE q \in already
      <4>1. PICK i \in 1..n : Copies(i, q) = 1
        BY <1>2, <3>2 DEF WalkInv, HeldOnce
      <4> QED
        BY <4>1, <2>1, <1>2
    <3> QED
      BY <1>1, <3>1, <3>2
  <2> QED
    BY <1>2, <2>5, <2>6 DEF HeldOnce
<1>6. OnlyReachable'
  <2>1. ASSUME NEW T \in SUBSET Path, Closed(T) PROVE already' \subseteq T
    <3>1. already \subseteq T /\ Top.file \in already
      BY <1>0, <1>2, <2>1 DEF WalkInv, OnlyReachable, PassedMarked, Top
    <3>2. p \in T
      BY <1>1, <1>p, <2>1, <3>1, WantedIsNeeded DEF Closed
    <3> QED
      BY <1>1, <3>1, <3>2
  <2> QED
    BY <1>1, <2>1, SameDisk DEF WalkInv, OnlyReachable
<1>7. PassedMarked'
  <2> SUFFICES ASSUME NEW i \in 1..(n + 1)
               PROVE  /\ stack'[i].file \in already'
                      /\ stack'[i].next <= Len(Imports(stack'[i].file)) + 1
                      /\ \A m \in (Passed(stack[i]))' :
                           Candidates(m) # {} => find_path(m) \in already'
    BY <1>1, <1>2, SameDisk DEF PassedMarked
  <2>1. CASE i \in 1..n
    <3>1. (Passed(stack[i]))' = Passed(stack[i])
      BY <1>1, <1>2, <2>1, SameDisk DEF Passed
    <3>2. stack[i].file \in already /\ stack[i].next <= Len(Imports(stack[i].file)) + 1
          /\ \A m \in Passed(stack[i]) : Candidates(m) # {} => find_path(m) \in already
      BY <1>2, <2>1 DEF WalkInv, PassedMarked
    <3> QED
      BY <1>1, <1>2, <2>1, <3>1, <3>2
  <2>2. CASE i = n + 1
    <3>1. (Passed(stack[i]))' = {}
      BY <1>4, <2>2 DEF Passed
    <3>2. Len(Imports(p)) \in Nat
      BY <1>1, TypeFacts, LenProperties
    <3>3. stack'[i].file = p /\ stack'[i].next = 1
      BY <1>4, <2>2
    <3>4. stack'[i].next <= Len(Imports(stack'[i].file)) + 1
      BY <3>2, <3>3
    <3> QED
      BY <1>1, <3>1, <3>3, <3>4
  <2> QED
    BY <2>1, <2>2
<1>8. Waiting'
  <2> SUFFICES ASSUME NEW i \in 1..n
               PROVE  /\ stack[i].next <= Len(Imports(stack[i].file))
                      /\ find_path(Imports(stack[i].file)[stack[i].next]) = stack'[i + 1].file
    BY <1>1, <1>2, SameDisk DEF Waiting
  <2>1. CASE i # n
    <3>1. i + 1 \in 1..n
      BY <2>1
    <3> QED
      BY <1>0, <1>2, <2>1, <3>1 DEF WalkInv, Waiting
  <2>2. CASE i = n
    BY <1>0, <1>1, <1>4, <1>p, <2>2 DEF HasImport, Top, Wanted
  <2> QED
    BY <2>1, <2>2
<1>9. Complete'
  <2> SUFFICES ASSUME NEW q \in already', \A i \in 1..(n + 1) : stack'[i].file # q
               PROVE  Needs(q) \subseteq already'
    BY <1>1, <1>2, SameDisk DEF Complete
  <2>1. q \in already /\ \A i \in 1..n : stack[i].file # q
    BY <1>1, <1>2, <1>4
  <2> QED
    BY <1>1, <1>2, <2>1 DEF WalkInv, Complete
<1> QED
  BY <1>1, <1>5, <1>6, <1>7, <1>8, <1>9 DEF WalkInv

(* The program of a frame that returns moves to the frame below it.         *)
LEMMA LeaveKeepsWalkInv ==
  ASSUME TypeOK, WalkInv, Leave
  PROVE  WalkInv'
<1>0. PICK n \in Nat \ {0} : n = Len(stack) /\ n > 1
  BY TypeFacts DEF Leave
<1>b. PICK b \in 1..n : b = n - 1
  BY <1>0
<1>1. /\ UNCHANGED <<disk, already, status>> /\ stack' = Left
      /\ status = "running" /\ ~HasImport
  BY DEF Leave, Left, Below
<1>2. /\ DOMAIN stack = 1..n /\ DOMAIN stack' = 1..b /\ Len(stack') = b
      /\ \A i \in 1..b : i # b => stack'[i] = stack[i]
      /\ stack'[b].file = stack[b].file
      /\ stack'[b].next = stack[b].next + 1
      /\ stack'[b].program = merge(stack[b].program, stack[n].program)
  BY <1>0, <1>b, <1>1, LeftFacts, LenProperties DEF Below, TypeOK, Top
<1>3. \A i \in 1..n : stack[i].file \in Path /\ stack[i].next \in Nat \ {0}
                      /\ stack[i].program.defs \in [Path -> Nat]
  BY <1>0, TypeFacts DEF Frame, Program
<1>4. \A i \in 1..b : i \in 1..n /\ stack'[i].file = stack[i].file
  BY <1>b, <1>2
<1>5. HeldOnce'
  <2>1. \A i \in 1..b : \A q : i # b => Copies(i, q)' = Copies(i, q)
    BY <1>2 DEF Copies
  <2>2. \A q \in Path : Copies(b, q)' = Copies(b, q) + Copies(n, q)
    BY <1>2 DEF Copies, merge
  <2>3. \A i \in 1..n : \A q \in Path :
          /\ Copies(i, q) \in Nat /\ Copies(i, q) <= 1
          /\ Copies(i, q) = 1 => q \in already
          /\ \A j \in 1..n : Copies(i, q) = 1 /\ Copies(j, q) = 1 => i = j
    BY <1>2, <1>3 DEF WalkInv, HeldOnce, Copies
  <2>4. \A q \in Path : /\ Copies(b, q)' <= 1
                        /\ Copies(b, q)' = 1 <=> Copies(b, q) = 1 \/ Copies(n, q) = 1
    <3> SUFFICES ASSUME NEW q \in Path
                 PROVE  /\ Copies(b, q)' <= 1
                        /\ Copies(b, q)' = 1 <=> Copies(b, q) = 1 \/ Copies(n, q) = 1
      OBVIOUS
    <3>1. ~(Copies(b, q) = 1 /\ Copies(n, q) = 1)
      BY <1>0, <1>b, <2>3
    <3>2. /\ Copies(b, q) \in Nat /\ Copies(b, q) <= 1
          /\ Copies(n, q) \in Nat /\ Copies(n, q) <= 1
      BY <1>0, <2>3
    <3> QED
      BY <3>1, <3>2, <2>2
  <2>5. \A i \in 1..b : \A q \in Path :
          /\ Copies(i, q)' <= 1
          /\ Copies(i, q)' = 1 => q \in already
          /\ Copies(i, q)' = 1 => Copies(i, q) = 1 \/ (i = b /\ Copies(n, q) = 1)
    <3> SUFFICES ASSUME NEW i \in 1..b, NEW q \in Path
                 PROVE  /\ Copies(i, q)' <= 1
                        /\ Copies(i, q)' = 1 => q \in already
                        /\ Copies(i, q)' = 1 => Copies(i, q) = 1 \/ (i = b /\ Copies(n, q) = 1)
      OBVIOUS
    <3>1. i \in 1..n /\ b \in 1..n /\ n \in 1..n
      BY <1>0, <1>b
    <3>2. CASE i # b
      BY <3>1, <3>2, <2>1, <2>3
    <3>3. CASE i = b
      BY <3>1, <3>3, <2>3, <2>4
    <3> QED
      BY <3>2, <3>3
  <2>6. \A i, j \in 1..b : \A q \in Path :
          Copies(i, q)' = 1 /\ Copies(j, q)' = 1 => i = j
    BY <1>0, <1>b, <2>3, <2>5
  <2>7. \A q \in already : \E i \in 1..b : Copies(i, q)' = 1
    <3> SUFFICES ASSUME NEW q \in already PROVE \E i \in 1..b : Copies(i, q)' = 1
      OBVIOUS
    <3>1. PICK i \in 1..n : Copies(i, q) = 1
      BY <1>2 DEF WalkInv, HeldOnce
    <3>2. q \in Path
      BY DEF TypeOK
    <3>3. CASE i \in 1..b /\ i # b
      BY <2>1, <3>1, <3>3
    <3>4. CASE i = b \/ i = n
      BY <1>b, <2>4, <3>1, <3>2, <3>4
    <3> QED
      BY <1>0, <1>b, <3>3, <3>4
  <2> QED
    BY <1>1, <1>2, <2>5, <2>6, <2>7 DEF HeldOnce
<1>6. OnlyReachable'
  BY <1>1, SameDisk DEF WalkInv, OnlyReachable
<1>7. b # n /\ stack[b].next <= Len(Imports(stack[b].file))
      /\ find_path(Imports(stack[b].file)[stack[b].next]) = stack[n].file
  <2>1. \A i \in 1..n : i # n =>
          /\ stack[i].next <= Len(Imports(stack[i].file))
          /\ find_path(Imports(stack[i].file)[stack[i].next]) = stack[i + 1].file
    <3>1. Waiting
      BY DEF WalkInv
    <3> QED
      BY <1>0, <1>2, <3>1 DEF Waiting
  <2>2. b \in 1..n /\ b # n /\ b + 1 = n
    BY <1>0, <1>b
  <2> QED
    BY <2>1, <2>2
<1>8. PassedMarked'
  <2> SUFFICES ASSUME NEW i \in 1..b
               PROVE  /\ stack'[i].file \in already
                      /\ stack'[i].next <= Len(Imports(stack'[i].file)) + 1
                      /\ \A m \in (Passed(stack[i]))' :
                           Candidates(m) # {} => find_path(m) \in already
    BY <1>1, <1>2, SameDisk DEF PassedMarked
  <2>1. stack[i].file \in already /\ stack[i].next <= Len(Imports(stack[i].file)) + 1
        /\ \A m \in Passed(stack[i]) : Candidates(m) # {} => find_path(m) \in already
    BY <1>2, <1>4 DEF WalkInv, PassedMarked
  <2>2. CASE i # b
    <3>1. (Passed(stack[i]))' = Passed(stack[i])
      BY <1>1, <1>2, <2>2, SameDisk DEF Passed
    <3> QED
      BY <1>2, <2>1, <2>2, <3>1
  <2>3. CASE i = b
    <3>1. (Passed(stack[i]))' \subseteq
             Passed(stack[i]) \cup {Imports(stack[b].file)[stack[b].next]}
      BY <1>1, <1>2, <1>3, <2>3, SameDisk DEF Passed
    <3>2. stack[n].file \in already
      BY <1>2 DEF WalkInv, PassedMarked
    <3>3. Len(Imports(stack[b].file)) \in Nat
      BY <1>3, TypeFacts, LenProperties
    <3>4. stack'[i].next <= Len(Imports(stack'[i].file)) + 1
      BY <1>2, <1>3, <1>7, <2>3, <3>3
    <3> QED
      BY <1>4, <1>7, <2>1, <2>3, <3>1, <3>2, <3>4
  <2> QED
    BY <2>2, <2>3
<1>9. Waiting'
  <2> SUFFICES ASSUME NEW i \in 1..b, i # b
               PROVE  /\ stack[i].next <= Len(Imports(stack[i].file))
                      /\ find_path(Imports(stack[i].file)[stack[i].next]) = stack'[i + 1].file
    BY <1>1, <1>2, SameDisk DEF Waiting
  <2>1. i + 1 \in 1..b /\ i \in 1..n /\ i # n
    BY <1>b
  <2>2. stack'[i + 1].file = stack[i + 1].file
    BY <1>4, <2>1
  <2> QED
    BY <1>0, <1>2, <2>1, <2>2 DEF WalkInv, Waiting
<1>10. Complete'
  <2> SUFFICES ASSUME NEW q \in already, \A i \in 1..b : stack'[i].file # q
               PROVE  Needs(q) \subseteq already
    BY <1>1, <1>2, SameDisk DEF Complete
  <2>1. CASE q = stack[n].file
    BY <1>0, <1>1, <2>1, LoopOver DEF WalkInv, Top
  <2>2. CASE q # stack[n].file
    <3>1. \A i \in 1..n : i = n \/ i \in 1..b
      BY <1>b
    <3>2. \A i \in 1..n : stack[i].file # q
      BY <1>4, <2>2, <3>1
    <3> QED
      BY <1>2, <3>2 DEF WalkInv, Complete
  <2> QED
    BY <2>1, <2>2
<1> QED
  BY <1>1, <1>5, <1>6, <1>8, <1>9, <1>10 DEF WalkInv

(* and after every step.                                                    *)
LEMMA NextWalkInv == TypeOK /\ WalkInv /\ [Next]_vars => WalkInv'
<1> SUFFICES ASSUME TypeOK, WalkInv, [Next]_vars PROVE WalkInv'
  OBVIOUS
<1>1. ASSUME UNCHANGED <<disk, stack, already>>,
             status' = "done" => Len(stack) = 1 /\ ~HasImport
      PROVE  WalkInv'
  <2>1. HeldOnce'
    BY <1>1 DEF WalkInv, HeldOnce, Copies
  <2>2. OnlyReachable' /\ Complete'
    BY <1>1, SameDisk DEF WalkInv, OnlyReachable, Complete
  <2>3. PassedMarked'
    <3>1. \A i : (Passed(stack[i]))' = Passed(stack[i])
      BY <1>1, SameDisk DEF Passed
    <3> QED
      BY <1>1, <3>1, SameDisk DEF WalkInv, PassedMarked
  <2>4. Waiting'
    BY <1>1, SameDisk DEF WalkInv, Waiting
  <2>5. HasImport' <=> HasImport
    BY <1>1, SameDisk DEF HasImport, Top
  <2> QED
    BY <1>1, <2>1, <2>2, <2>3, <2>4, <2>5 DEF WalkInv
<1>2. CASE NotFound \/ CannotOpen \/ ParseError
  BY <1>1, <1>2 DEF NotFound, CannotOpen, ParseError, Throw
<1>3. CASE Finish
  BY <1>1, <1>3 DEF Finish
<1>4. CASE Stopped \/ UNCHANGED vars
  BY <1>1, <1>4 DEF Stopped, vars, WalkInv
<1> QED
  BY <1>2, <1>3, <1>4, SkipKeepsWalkInv, EnterKeepsWalkInv, LeaveKeepsWalkInv DEF Next

-----------------------------------------------------------------------------
(* No file's definitions are ever held twice, by one program of the walk or *)
(* by two of them together.                                                 *)
THEOREM NoDuplicates == Spec => []NoDuplicateDefinitions
<1>1. TypeOK /\ WalkInv => NoDuplicateDefinitions
  <2> SUFFICES ASSUME TypeOK, WalkInv, NEW i \in DOMAIN stack, NEW j \in DOMAIN stack,
                      NEW p \in Path
               PROVE  /\ Copies(i, p) <= 1
                      /\ i # j => Copies(i, p) + Copies(j, p) <= 1
    BY DEF NoDuplicateDefinitions, Copies
  <2>1. stack[i] \in Frame /\ stack[j] \in Frame
    BY TypeFacts, LenProperties DEF TypeOK
  <2>2. Copies(i, p) \in Nat /\ Copies(j, p) \in Nat
    BY <2>1 DEF Frame, Program, Copies
  <2>3. /\ Copies(i, p) <= 1 /\ Copies(j, p) <= 1
        /\ Copies(i, p) = 1 /\ Copies(j, p) = 1 => i = j
    BY DEF WalkInv, HeldOnce
  <2> QED
    BY <2>2, <2>3
<1> QED
  BY <1>1, InitTypeOK, NextTypeOK, InitWalkInv, NextWalkInv, PTL DEF Spec

(* A successful walk yields the definitions of exactly the files that the   *)
(* imports reach from the root, each of them once.                          *)
THEOREM ExactlyReachable == Spec => []ImportsExactlyReachable
<1>1. TypeOK /\ WalkInv => ImportsExactlyReachable
  <2> SUFFICES ASSUME TypeOK, WalkInv, status = "done" PROVE ImportsExactlyReachable
    BY DEF ImportsExactlyReachable
  <2> DEFINE S == {p \in Path : Merged.defs[p] = 1}
  <2>1. Len(stack) = 1 /\ ~HasImport /\ DOMAIN stack = {1}
    BY LenProperties DEF WalkInv, TypeOK
  <2>2. \A p \in Path : Copies(1, p) = Merged.defs[p]
    BY DEF Copies, Merged
  <2>3. \A p \in Path : Merged.defs[p] <= 1
    BY <2>1, <2>2 DEF WalkInv, HeldOnce
  <2>4. S = already
    BY <2>1, <2>2 DEF WalkInv, HeldOnce, TypeOK
  <2>5. ASSUME NEW p \in already PROVE Needs(p) \subseteq already
    <3>1. CASE p = Top.file
      BY <2>1, <3>1, LoopOver DEF WalkInv
    <3>2. CASE p # Top.file
      BY <2>1, <3>2 DEF WalkInv, Complete, Top
    <3> QED
      BY <3>1, <3>2
  <2>6. Closed(already) /\ \A T \in SUBSET Path : Closed(T) => already \subseteq T
    BY <2>5 DEF WalkInv, OnlyReachable, Closed
  <2> QED
    BY <2>3, <2>4, <2>6 DEF ImportsExactlyReachable
<1> QED
  BY <1>1, InitTypeOK, NextTypeOK, InitWalkInv, NextWalkInv, PTL DEF Spec

-----------------------------------------------------------------------------
(* Every marked path but the root is the one that find_path gives a name    *)
(* that a marked file imports.                                              *)
Imported ==
    \A p \in already \ {Root} : \E q \in already : \E i \in DOMAIN Imports(q) :
        Candidates(Imports(q)[i]) # {} /\ p = find_path(Imports(q)[i])

(* A file is marked on behalf of the marked file that imports it.           *)
LEMMA NextImported == TypeOK /\ WalkInv /\ Imported /\ [Next]_vars => Imported'
<1> SUFFICES ASSUME TypeOK, WalkInv, Imported, [Next]_vars PROVE Imported'
  OBVIOUS
<1>1. CASE UNCHANGED <<disk, already>>
  BY <1>1, SameDisk DEF Imported
<1>2. CASE Enter
  <2>1. /\ UNCHANGED disk /\ already' = already \cup {find_path(Wanted)}
        /\ HasImport /\ Candidates(Wanted) # {}
    BY <1>2 DEF Enter, Unseen, AtImport
  <2>2. Top.file \in already
    <3>1. Len(stack) \in DOMAIN stack
      BY TypeFacts, LenProperties DEF TypeOK
    <3> QED
      BY <3>1 DEF WalkInv, PassedMarked, Top
  <2>3. Top.next \in DOMAIN Imports(Top.file)
    <3>1. Top.file \in Path /\ Top.next \in Nat \ {0}
      BY TypeFacts DEF Frame
    <3>2. Imports(Top.file) \in Seq(Name)
      BY <3>1, TypeFacts
    <3> QED
      BY <2>1, <3>1, <3>2, LenProperties DEF HasImport
  <2> QED
    BY <2>1, <2>2, <2>3, SameDisk DEF Imported, Wanted
<1>3. CASE NotFound \/ SkipImported \/ CannotOpen \/ ParseError \/ Leave \/ Finish
  BY <1>1, <1>3 DEF NotFound, SkipImported, CannotOpen, ParseError, Leave, Finish, Throw
<1>4. CASE Stopped \/ UNCHANGED vars
  BY <1>1, <1>4 DEF Stopped, vars
<1> QED
  BY <1>2, <1>3, <1>4 DEF Next

(* No file that the walk imports by one name is loaded under two paths, but *)
(* for the root, which the command line names and an import may find again: *)
(* a loaded path is marked, and is the one of a name that was imported.     *)
THEOREM LoadedOnce == Spec => []OncePerFile
<1>1. Init => Imported
  BY DEF Init, Imported
<1>2. TypeOK /\ WalkInv /\ Imported => OncePerFile
  <2> SUFFICES ASSUME TypeOK, WalkInv, Imported,
                      NEW p \in Path \ {Root}, NEW q \in Path \ {Root},
                      Merged.defs[p] > 0, Merged.defs[q] > 0, FileOf(p) = FileOf(q),
                      \A m, n \in NamesOf(FileOf(p)) : m = n
               PROVE  p = q
    BY DEF OncePerFile
  <2>1. 1 \in DOMAIN stack /\ stack[1] \in Frame
    BY TypeFacts, LenProperties DEF TypeOK
  <2>2. \A r \in Path : Copies(1, r) \in Nat /\ Copies(1, r) <= 1
    BY <2>1 DEF WalkInv, HeldOnce, Frame, Program, Copies
  <2>3. \A r \in Path : Copies(1, r) > 0 => r \in already
    BY <2>1, <2>2 DEF WalkInv, HeldOnce
  <2>4. p \in already \ {Root} /\ q \in already \ {Root}
    BY <2>3 DEF Copies, Merged
  <2>5. ASSUME NEW r \in already \ {Root}
        PROVE  \E n \in NamesOf(FileOf(r)) : r = find_path(n)
    <3>0. PICK s \in already : \E i \in DOMAIN Imports(s) :
             Candidates(Imports(s)[i]) # {} /\ r = find_path(Imports(s)[i])
      BY DEF Imported
    <3>1. PICK i \in DOMAIN Imports(s) :
             Candidates(Imports(s)[i]) # {} /\ r = find_path(Imports(s)[i])
      BY <3>0
    <3>2. Imports(s)[i] \in Name
      <4>1. Imports(s) \in Seq(Name)
        BY TypeFacts DEF TypeOK
      <4> QED
        BY <3>1, <4>1, LenProperties, ElementOfSeq
    <3> QED
      BY <3>1, <3>2 DEF NamesOf
  <2>6. PICK m \in NamesOf(FileOf(p)), n \in NamesOf(FileOf(q)) :
          p = find_path(m) /\ q = find_path(n)
    BY <2>4, <2>5
  <2>7. m = n
    BY <2>6
  <2> QED
    BY <2>6, <2>7
<1> QED
  BY <1>1, <1>2, InitTypeOK, NextTypeOK, InitWalkInv, NextWalkInv, NextImported,
     PTL DEF Spec
=============================================================================
