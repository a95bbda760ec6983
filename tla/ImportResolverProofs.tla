------------------------ MODULE ImportResolverProofs ------------------------
(***************************************************************************)
(* Proofs about ImportResolver, for every disk: any number of library      *)
(* paths, any files, and imports of any shape, cyclic ones included.       *)
(***************************************************************************)
EXTENDS ImportResolver, ProofLemmas

Frame == [file : PathName, next : Nat \ {0}, pc : {"pick", "climb", "try"},
          dir : PathName, entry : PathName, lib : Nat \ {0}]

(* The type invariant of the import resolver.                               *)
TypeOK ==
    /\ disk \in Disks
    /\ stack \in Seq(Frame) /\ stack # <<>>
    /\ parsedAST \in SUBSET disk.files
    /\ modules \in [disk.files -> Seq(PathName)]
    /\ result \in {"none", "error"}
    /\ status \in {"running", "ok", "failed"}

(* The import a frame is at, and the file it is looked for in.              *)
HasNode(fr) == fr.next <= Len(Imports(fr.file))
NodeOf(fr) == Imports(fr.file)[fr.next]
TargetOf(fr) == fr.dir \o NodeOf(fr).parents

(* A local import of a file outside of the project stays in a library of    *)
(* the file.                                                                *)
StaysInLibrary(f, node, dir) ==
    node.local /\ ~InProject(f) => dir \in LibraryRoots(f)

(* What resolveImport has chosen for the import of a frame.                 *)
Chosen(fr) ==
    /\ fr.lib \in Lib
    /\ fr.pc = "climb" /\ fr.dir # <<>> =>
         /\ IsStrictPrefix(fr.dir, Dir(fr.file))
         /\ fr.entry = <<fr.file[Len(fr.dir) + 1]>>
    /\ fr.pc = "try" /\ HasNode(fr) =>
         /\ fr.dir \in SearchedDirs /\ fr.dir # <<>>
         /\ StaysInLibrary(fr.file, NodeOf(fr), fr.dir)

(* The frame fr waits for the walk of the file g.                           *)
Waits(fr, g) == fr.pc = "try" /\ HasNode(fr) /\ g = TargetOf(fr) /\ g # fr.file

(* Every frame belongs to a file of its own, has a module for each import   *)
(* it has passed, and waits for the file of the frame above.                *)
Walk ==
    /\ stack[1].file = root
    /\ \A i \in 1..Len(stack) :
         /\ stack[i].file \in parsedAST \cup {root}
         /\ stack[i].next <= Len(Imports(stack[i].file)) + 1
         /\ Len(modules[stack[i].file]) = stack[i].next - 1
         /\ Chosen(stack[i])
         /\ i < Len(stack) => Waits(stack[i], stack[i + 1].file)
         /\ \A j \in 1..Len(stack) : stack[i].file = stack[j].file => i = j
    /\ result = "error" => Last(stack).pc = "try" /\ HasNode(Last(stack))

(* Modules are cached programs; a program that is not cached has none.      *)
Cache ==
    /\ root # Stdin => root \in parsedAST
    /\ \A f \in disk.files :
         /\ f \notin parsedAST \cup {root} => modules[f] = <<>>
         /\ \A i \in 1..Len(modules[f]) : modules[f][i] \in parsedAST

(* The i-th module of f is what its i-th import names.                      *)
Matches(f, i) ==
    /\ FoundInSearchedDirs(f, i)
    /\ \E d \in SearchedDirs : /\ modules[f][i] = d \o Imports(f)[i].parents
                               /\ StaysInLibrary(f, Imports(f)[i], d)
Matching == \A f \in disk.files : \A i \in 1..Len(modules[f]) : Matches(f, i)

(* With one library path, as long as nothing has failed, a cached program   *)
(* has all of its modules unless its walk is still on the stack.            *)
OnStack(f) == \E i \in 1..Len(stack) : stack[i].file = f
Complete ==
    Len(LibPaths) = 1 /\ result = "none" /\ status # "failed" =>
        \A f \in parsedAST : OnStack(f) \/ Len(modules[f]) = Len(Imports(f))

Ending == status = "ok" => Len(stack) = 1 /\ ~HasNode(Last(stack)) /\ result = "none"

(* The inductive invariant.                                                 *)
ResolverInv == Walk /\ Cache /\ Matching /\ Complete /\ Ending

-----------------------------------------------------------------------------
(* The disk.                                                                *)

(* What is assumed of a disk.                                               *)
LEMMA DiskFacts ==
  ASSUME TypeOK
  PROVE  /\ Len(LibPaths) \in Nat \ {0} /\ Lib = 1..Len(LibPaths)
         /\ \A k \in Lib : LibPaths[k] \in PathName /\ LibPaths[k] # <<>>
         /\ root \in disk.files /\ disk.files \subseteq PathName
         /\ projectPath \in PathName /\ (root # Stdin => projectPath # <<>>)
         /\ \A f \in disk.files : /\ Len(Imports(f)) \in Nat
                                  /\ DOMAIN Imports(f) = 1..Len(Imports(f))
                                  /\ \A i \in 1..Len(Imports(f)) : Imports(f)[i] \in Import
<1>1. Disk(disk)
  BY DisksAssumption DEF TypeOK
<1>2. LibPaths \in Seq(PathName \ {<<>>}) /\ LibPaths # <<>>
  BY <1>1 DEF Disk, LibPaths
<1>3. Len(LibPaths) \in Nat \ {0} /\ Lib = 1..Len(LibPaths)
  BY <1>2, LenProperties, EmptySeq DEF Lib
<1>4. \A k \in Lib : LibPaths[k] \in PathName \ {<<>>}
  BY <1>2, <1>3, ElementOfSeq
<1>5. root \in disk.files /\ disk.files \subseteq PathName
  BY <1>1 DEF Disk, root
<1>6. projectPath \in PathName /\ (root # Stdin => projectPath # <<>>)
  <2>1. CASE root = Stdin
    BY <2>1, EmptySeq DEF projectPath, Dir, Stdin, PathName
  <2>2. CASE root # Stdin
    <3>1. root \in Seq(Name) /\ Len(root) > 1 /\ Len(root) \in Nat
      BY <1>1, <1>5, <2>2, LenProperties DEF Disk, root, PathName
    <3>2. \A i \in 1..(Len(root) - 1) : root[i] \in Name
      BY <3>1, ElementOfSeq
    <3>3. SubSeq(root, 1, Len(root) - 1) \in Seq(Name) /\ Len(SubSeq(root, 1, Len(root) - 1)) = Len(root) - 1
      BY <3>1, <3>2, SubSeqProperties
    <3>4. projectPath = SubSeq(root, 1, Len(root) - 1)
      BY <2>2 DEF projectPath, Dir, Front, Stdin
    <3>5. projectPath # <<>>
      <4>1. Len(projectPath) # 0
        BY <3>1, <3>3, <3>4
      <4> HIDE DEF projectPath
      <4> QED
        BY <4>1, EmptySeq
    <3> QED
      BY <3>3, <3>4, <3>5 DEF PathName
  <2> QED
    BY <2>1, <2>2
<1>7. ASSUME NEW f \in disk.files
      PROVE  /\ Len(Imports(f)) \in Nat
             /\ DOMAIN Imports(f) = 1..Len(Imports(f))
             /\ \A i \in 1..Len(Imports(f)) : Imports(f)[i] \in Import
  <2>1. Imports(f) \in Seq(Import)
    BY <1>1 DEF Disk, Imports
  <2> QED
    BY <2>1, LenProperties, ElementOfSeq
<1> QED
  BY <1>3, <1>4, <1>5, <1>6, <1>7

(* The disk never changes, nor what is said of it.                          *)
LEMMA SameDisk ==
  ASSUME UNCHANGED disk
  PROVE  /\ LibPaths' = LibPaths /\ root' = root
         /\ \A f : Imports(f)' = Imports(f)
         /\ SearchedDirs' = SearchedDirs
         /\ \A fr : /\ HasNode(fr)' <=> HasNode(fr)
                    /\ Chosen(fr)' <=> Chosen(fr)
                    /\ \A g : Waits(fr, g)' <=> Waits(fr, g)
         /\ \A f, node, dir : StaysInLibrary(f, node, dir)' <=> StaysInLibrary(f, node, dir)
<1>1. LibPaths' = LibPaths /\ root' = root /\ \A f : Imports(f)' = Imports(f)
  BY DEF LibPaths, root, Imports
<1>2. Lib' = Lib /\ projectPath' = projectPath
  BY <1>1 DEF Lib, projectPath
<1>3. SearchedDirs' = SearchedDirs
  BY <1>1, <1>2 DEF SearchedDirs
<1>4. \A f : (InProject(f)' <=> InProject(f)) /\ LibraryRoots(f)' = LibraryRoots(f)
  BY <1>1, <1>2 DEF InProject, LibraryRoots
<1>5. \A f, node, dir : StaysInLibrary(f, node, dir)' <=> StaysInLibrary(f, node, dir)
  BY <1>4 DEF StaysInLibrary
<1>6. \A fr : (HasNode(fr)' <=> HasNode(fr)) /\ NodeOf(fr)' = NodeOf(fr)
  BY <1>1 DEF HasNode, NodeOf
<1>7. \A fr : TargetOf(fr)' = TargetOf(fr)
  BY <1>6 DEF TargetOf
<1>8. \A fr : Chosen(fr)' <=> Chosen(fr)
  BY <1>2, <1>3, <1>5, <1>6 DEF Chosen
<1>9. \A fr, g : Waits(fr, g)' <=> Waits(fr, g)
  BY <1>6, <1>7 DEF Waits
<1> QED
  BY <1>1, <1>3, <1>5, <1>6, <1>8, <1>9

-----------------------------------------------------------------------------
(* The call stack.                                                          *)

(* The frame in which resolve is active, and those below it.                *)
LEMMA TopFacts ==
  ASSUME TypeOK
  PROVE  /\ Len(stack) \in Nat \ {0} /\ Top = stack[Len(stack)] /\ Last(stack) = Top
         /\ \A i \in 1..Len(stack) : stack[i] \in Frame
         /\ Front(stack) \in Seq(Frame) /\ Len(Front(stack)) = Len(stack) - 1
         /\ \A i \in 1..(Len(stack) - 1) : Front(stack)[i] = stack[i]
<1>1. Len(stack) \in Nat \ {0} /\ \A i \in 1..Len(stack) : stack[i] \in Frame
  BY EmptySeq, ElementOfSeq DEF TypeOK
<1>2. \A i \in 1..(Len(stack) - 1) : stack[i] \in Frame
  BY <1>1
<1>3. /\ Front(stack) \in Seq(Frame) /\ Len(Front(stack)) = Len(stack) - 1
      /\ \A i \in 1..(Len(stack) - 1) : Front(stack)[i] = stack[i]
  <2> DEFINE n == Len(stack) - 1
  <2>1. n \in Nat /\ 1 <= n + 1 /\ \A i \in 1..n : stack[i] \in Frame
    BY <1>1, <1>2
  <2>2. Front(stack) = SubSeq(stack, 1, n)
    BY DEF Front
  <2> HIDE DEF n
  <2>3. /\ SubSeq(stack, 1, n) \in Seq(Frame)
        /\ Len(SubSeq(stack, 1, n)) = IF 1 <= n THEN n - 1 + 1 ELSE 0
        /\ \A i \in 1..(n - 1 + 1) : SubSeq(stack, 1, n)[i] = stack[1 + i - 1]
    BY <2>1, SubSeqProperties
  <2>4. Len(SubSeq(stack, 1, n)) = n /\ \A i \in 1..n : SubSeq(stack, 1, n)[i] = stack[i]
    BY <2>1, <2>3
  <2> QED
    BY <2>2, <2>3, <2>4 DEF n
<1> QED
  BY <1>1, <1>3 DEF Top, Last

(* A stack that ends in a given frame.                                      *)
LEMMA Pushed ==
  ASSUME NEW s \in Seq(Frame), NEW fr \in Frame, stack' = Append(s, fr)
  PROVE  /\ stack' \in Seq(Frame) /\ stack' # <<>> /\ Len(stack') = Len(s) + 1
         /\ \A i \in 1..Len(s) : stack'[i] = s[i]
         /\ stack'[Len(s) + 1] = fr /\ Last(stack') = fr
<1>1. /\ Append(s, fr) \in Seq(Frame) /\ Len(Append(s, fr)) = Len(s) + 1
      /\ \A i \in 1..Len(s) : Append(s, fr)[i] = s[i]
      /\ Append(s, fr)[Len(s) + 1] = fr
  BY AppendProperties
<1>2. Len(s) \in Nat
  BY LenProperties
<1>3. stack' # <<>>
  BY <1>1, <1>2, EmptySeq
<1> QED
  BY <1>1, <1>3 DEF Last

-----------------------------------------------------------------------------
(* The kinds of steps.                                                      *)

(* The search of the current import goes on.                                *)
LEMMA TopReplaced ==
  ASSUME TypeOK, ResolverInv, status = "running",
         UNCHANGED <<disk, parsedAST, modules, status>>,
         NEW fr \in Frame, SetTop(fr), fr.file = Top.file, fr.next = Top.next, Chosen(fr),
         result' = "none", Len(LibPaths) = 1 => result = "none"
  PROVE  TypeOK' /\ ResolverInv'
<1> DEFINE n == Len(stack)
<1>1. /\ n \in Nat \ {0} /\ Top = stack[n]
      /\ Front(stack) \in Seq(Frame) /\ Len(Front(stack)) = n - 1
      /\ \A i \in 1..(n - 1) : Front(stack)[i] = stack[i]
  BY TopFacts
<1>2. /\ stack' \in Seq(Frame) /\ stack' # <<>> /\ Len(stack') = n
      /\ \A i \in 1..(n - 1) : stack'[i] = stack[i]
      /\ stack'[n] = fr
  BY <1>1, Pushed DEF SetTop
<1> HIDE DEF n
<1>3. \A i \in 1..n : stack'[i].file = stack[i].file /\ stack'[i].next = stack[i].next
  <2> SUFFICES ASSUME NEW i \in 1..n
               PROVE  stack'[i].file = stack[i].file /\ stack'[i].next = stack[i].next
    OBVIOUS
  <2> QED
    BY <1>1, <1>2
<1>4. Walk /\ Cache /\ Matching /\ Complete
  BY DEF ResolverInv
<1>5. TypeOK'
  BY <1>2 DEF TypeOK
<1>6. Walk'
  <2>1. stack'[1].file = root
    BY <1>1, <1>3, <1>4 DEF Walk
  <2>2. ASSUME NEW i \in 1..n
        PROVE  /\ stack'[i].file \in parsedAST \cup {root}
               /\ stack'[i].next <= Len(Imports(stack'[i].file)) + 1
               /\ Len(modules[stack'[i].file]) = stack'[i].next - 1
               /\ \A j \in 1..n : stack'[i].file = stack'[j].file => i = j
    BY <1>3, <1>4 DEF Walk, n
  <2>3. ASSUME NEW i \in 1..n PROVE Chosen(stack'[i])
    BY <1>1, <1>2, <1>4 DEF Walk, n
  <2>4. ASSUME NEW i \in 1..n, i < n PROVE Waits(stack'[i], stack'[i + 1].file)
    <3>1. i \in 1..(n - 1) /\ i + 1 \in 1..n
      BY <1>1, <2>4
    <3> QED
      BY <1>2, <1>3, <1>4, <2>4, <3>1 DEF Walk, n
  <2> QED
    BY <1>2, <2>1, <2>2, <2>3, <2>4, SameDisk DEF Walk
<1>7. Cache'
  BY <1>4, SameDisk DEF Cache
<1>8. Matching'
  <2>1. ASSUME NEW f \in disk.files, NEW i \in 1..Len(modules[f]) PROVE Matches(f, i)'
    BY <1>4, SameDisk DEF Matching, Matches, FoundInSearchedDirs
  <2> QED
    BY <2>1 DEF Matching
<1>9. Complete'
  BY <1>2, <1>3, <1>4, SameDisk DEF Complete, OnStack, n
<1> QED
  BY <1>5, <1>6, <1>7, <1>8, <1>9 DEF ResolverInv, Ending

(* An error is returned.                                                    *)
LEMMA Returned ==
  ASSUME TypeOK, ResolverInv, status = "running", ReturnError
  PROVE  TypeOK' /\ ResolverInv'
<1> DEFINE n == Len(stack)
<1>1. /\ n \in Nat \ {0} /\ Last(stack) = stack[n]
      /\ \A i \in 1..n : stack[i] \in Frame
      /\ Front(stack) \in Seq(Frame) /\ Len(Front(stack)) = n - 1
      /\ \A i \in 1..(n - 1) : Front(stack)[i] = stack[i]
  BY TopFacts
<1>2. Walk /\ Cache /\ Matching
  BY DEF ResolverInv
<1>3. UNCHANGED <<disk, parsedAST, modules>>
  BY DEF ReturnError
<1>4. Cache'
  BY <1>2, <1>3, SameDisk DEF Cache
<1>5. Matching'
  <2>1. ASSUME NEW f \in disk.files, NEW i \in 1..Len(modules[f]) PROVE Matches(f, i)'
    BY <1>2, <1>3, SameDisk DEF Matching, Matches, FoundInSearchedDirs
  <2> QED
    BY <1>3, <2>1 DEF Matching
<1>6. CASE n = 1
  <2>1. status' = "failed" /\ UNCHANGED <<stack, result>>
    BY <1>6 DEF ReturnError
  <2>2. TypeOK' /\ Walk'
    BY <1>2, <1>3, <2>1, SameDisk DEF TypeOK, Walk
  <2> QED
    BY <1>4, <1>5, <2>1, <2>2 DEF ResolverInv, Complete, Ending
<1>7. CASE n # 1
  <2>1. stack' = Front(stack) /\ result' = "error" /\ UNCHANGED status
    BY <1>7 DEF ReturnError
  <2>2. /\ n - 1 \in 1..n /\ Len(stack') = n - 1
        /\ \A i \in 1..(n - 1) : i \in 1..n /\ stack'[i] = stack[i]
    BY <1>1, <1>7, <2>1
  <2> HIDE DEF n
  <2>3. stack' # <<>>
    BY <1>1, <1>7, <2>2, EmptySeq
  <2>4. Last(stack') = stack[n - 1]
    BY <1>1, <1>7, <2>2 DEF Last
  <2>5. Waits(stack[n - 1], stack[n].file)
    <3>1. n - 1 \in 1..n /\ n - 1 < n /\ n - 1 + 1 = n
      BY <1>1, <2>2
    <3>2. Waits(stack[n - 1], stack[n - 1 + 1].file)
      BY <1>2, <3>1 DEF Walk, n
    <3> QED
      BY <3>1, <3>2
  <2>6. TypeOK'
    BY <1>1, <1>3, <2>1, <2>3 DEF TypeOK
  <2>7. Walk'
    <3>1. stack'[1].file = root
      BY <1>1, <1>2, <1>7, <2>2 DEF Walk
    <3>2. ASSUME NEW i \in 1..(n - 1)
          PROVE  /\ stack'[i].file \in parsedAST \cup {root}
                 /\ stack'[i].next <= Len(Imports(stack'[i].file)) + 1
                 /\ Len(modules[stack'[i].file]) = stack'[i].next - 1
                 /\ \A j \in 1..(n - 1) : stack'[i].file = stack'[j].file => i = j
                 /\ Chosen(stack'[i])
      BY <1>2, <2>2 DEF Walk, n
    <3>3. ASSUME NEW i \in 1..(n - 1), i < n - 1 PROVE Waits(stack'[i], stack'[i + 1].file)
      <4>1. i \in 1..n /\ i < n /\ i + 1 \in 1..(n - 1)
        BY <1>1, <3>3
      <4> QED
        BY <1>2, <2>2, <4>1 DEF Walk, n
    <3>4. Last(stack').pc = "try" /\ HasNode(Last(stack'))
      BY <2>4, <2>5 DEF Waits
    <3> QED
      BY <1>3, <2>2, <3>1, <3>2, <3>3, <3>4, SameDisk DEF Walk
  <2> QED
    BY <1>4, <1>5, <2>1, <2>6, <2>7 DEF ResolverInv, Complete, Ending
<1> QED
  BY <1>6, <1>7

(* A module is appended, and its frame goes on with the next import; the    *)
(* frame above, if the module was walked there, is left.                    *)
LEMMA ModuleAdded ==
  ASSUME TypeOK, ResolverInv, status = "running", result = "none",
         NEW m \in 1..Len(stack), m \in {Len(stack) - 1, Len(stack)},
         m # Len(stack) => ~HasNode(Top),
         NEW g \in parsedAST, Waits(stack[m], g),
         AddModule(stack[m].file, g),
         NEW s \in Seq(Frame), Len(s) = m - 1, \A i \in 1..(m - 1) : s[i] = stack[i],
         stack' = Append(s, NextImport(stack[m])),
         UNCHANGED <<disk, parsedAST, result, status>>
  PROVE  TypeOK' /\ ResolverInv'
<1> DEFINE n == Len(stack)
<1>0. PICK f, nx, fr : f = stack[m].file /\ nx = stack[m].next /\ fr = NextImport(stack[m])
  OBVIOUS
<1>1. /\ n \in Nat \ {0} /\ Top = stack[n]
      /\ \A i \in 1..n : stack[i] \in Frame
      /\ m \in Nat
  BY TopFacts
<1>2. /\ Len(LibPaths) \in Nat \ {0} /\ Lib = 1..Len(LibPaths)
      /\ disk.files \subseteq PathName /\ root \in disk.files
  BY DiskFacts
<1>3. Walk /\ Cache /\ Matching /\ Complete /\ <<>> \in PathName
  BY EmptySeq DEF ResolverInv, PathName
<1>4. /\ f \in disk.files /\ f \in parsedAST \cup {root} /\ nx \in Nat \ {0}
      /\ Len(modules[f]) = nx - 1 /\ nx \in 1..Len(Imports(f))
      /\ Len(Imports(f)) \in Nat
  <2>1. f \in parsedAST \cup {root} /\ Len(modules[f]) = nx - 1
    BY <1>0, <1>3 DEF Walk
  <2>2. nx \in Nat \ {0} /\ f \in disk.files
    BY <1>0, <1>1, <1>2, <2>1 DEF Frame, TypeOK
  <2>3. nx <= Len(Imports(f)) /\ Len(Imports(f)) \in Nat
    BY <1>0, <2>2, DiskFacts DEF Waits, HasNode
  <2> QED
    BY <2>1, <2>2, <2>3
<1>5. /\ fr.file = f /\ fr.next = nx + 1 /\ fr.pc = "pick" /\ fr.dir = <<>>
      /\ fr.entry = <<>> /\ fr.lib = 1 /\ fr \in Frame
  <2>1. fr = [file |-> f, next |-> nx + 1, pc |-> "pick", dir |-> <<>>, entry |-> <<>>, lib |-> 1]
    BY <1>0 DEF NextImport, resolve
  <2>2. f \in PathName /\ nx + 1 \in Nat \ {0}
    BY <1>2, <1>4
  <2> QED
    BY <1>3, <2>1, <2>2 DEF Frame
<1>6. /\ stack' \in Seq(Frame) /\ stack' # <<>> /\ Len(stack') = m
      /\ \A i \in 1..(m - 1) : stack'[i] = stack[i]
      /\ stack'[m] = fr
  <2>1. /\ stack' \in Seq(Frame) /\ stack' # <<>> /\ Len(stack') = Len(s) + 1
        /\ \A i \in 1..Len(s) : stack'[i] = s[i]
        /\ stack'[Len(s) + 1] = fr
    BY <1>0, <1>5, Pushed
  <2> QED
    BY <1>1, <2>1
<1>7. /\ modules' \in [disk.files -> Seq(PathName)]
      /\ Len(modules'[f]) = nx /\ modules'[f][nx] = g
      /\ \A i \in 1..(nx - 1) : modules'[f][i] = modules[f][i]
      /\ \A h \in disk.files : h # f => modules'[h] = modules[h]
  <2> DEFINE u == modules[f]
  <2>1. u \in Seq(PathName) /\ g \in PathName /\ Len(u) = nx - 1
    BY <1>2, <1>4 DEF TypeOK
  <2>2. modules' = [modules EXCEPT ![f] = Append(u, g)]
    BY <1>0 DEF AddModule
  <2> HIDE DEF u
  <2>3. /\ Append(u, g) \in Seq(PathName) /\ Len(Append(u, g)) = nx
        /\ Append(u, g)[nx] = g /\ \A i \in 1..(nx - 1) : Append(u, g)[i] = u[i]
    BY <1>4, <2>1, AppendProperties
  <2>4. modules'[f] = Append(u, g) /\ \A h \in disk.files : h # f => modules'[h] = modules[h]
    BY <1>4, <2>2 DEF TypeOK
  <2>5. modules' \in [disk.files -> Seq(PathName)]
    BY <1>4, <2>2, <2>3 DEF TypeOK
  <2> QED
    BY <2>3, <2>4, <2>5 DEF u
<1> HIDE DEF n
<1>8. \A i \in 1..m : /\ i \in 1..n /\ stack'[i].file = stack[i].file
                      /\ i # m => stack'[i] = stack[i]
  <2> SUFFICES ASSUME NEW i \in 1..m
               PROVE  /\ i \in 1..n /\ stack'[i].file = stack[i].file
                      /\ i # m => stack'[i] = stack[i]
    OBVIOUS
  <2>1. i \in 1..n
    BY <1>1 DEF n
  <2>2. i # m => i \in 1..(m - 1)
    BY <1>1
  <2> QED
    BY <1>0, <1>5, <1>6, <2>1, <2>2
<1>9. TypeOK'
  BY <1>6, <1>7 DEF TypeOK
<1>10. Walk'
  <2>1. stack'[1].file = root
    BY <1>1, <1>3, <1>8 DEF Walk
  <2>2. ASSUME NEW i \in 1..m
        PROVE  /\ stack'[i].file \in parsedAST \cup {root}
               /\ \A j \in 1..m : stack'[i].file = stack'[j].file => i = j
    BY <1>3, <1>8 DEF Walk, n
  <2>3. ASSUME NEW i \in 1..m
        PROVE  /\ stack'[i].next <= Len(Imports(stack'[i].file)) + 1
               /\ Len(modules'[stack'[i].file]) = stack'[i].next - 1
               /\ Chosen(stack'[i])
    <3>1. CASE i = m
      <4>1. stack'[i] = fr
        BY <1>6, <3>1
      <4>2. Chosen(fr)
        BY <1>2, <1>5 DEF Chosen
      <4> QED
        BY <1>4, <1>5, <1>7, <4>1, <4>2
    <3>2. CASE i # m
      <4>1. stack'[i] = stack[i] /\ i \in 1..n /\ m \in 1..n
        BY <1>8, <3>2 DEF n
      <4>2. stack[i].file # f /\ stack[i].file \in disk.files
        BY <1>0, <1>2, <1>3, <3>2, <4>1 DEF Walk, n, TypeOK
      <4>3. modules'[stack[i].file] = modules[stack[i].file]
        BY <1>7, <4>2
      <4> QED
        BY <1>3, <4>1, <4>3 DEF Walk, n
    <3> QED
      BY <3>1, <3>2
  <2>4. ASSUME NEW i \in 1..m, i < m PROVE Waits(stack'[i], stack'[i + 1].file)
    <3>1. i \in 1..n /\ i < n /\ i # m /\ i + 1 \in 1..m
      BY <1>1, <1>8, <2>4 DEF n
    <3>2. stack'[i] = stack[i] /\ stack'[i + 1].file = stack[i + 1].file
      BY <1>8, <3>1
    <3>3. Waits(stack[i], stack[i + 1].file)
      BY <1>3, <3>1 DEF Walk, n
    <3> QED
      BY <3>2, <3>3
  <2>5. result' = "none" /\ parsedAST' = parsedAST /\ root' = root
    BY SameDisk
  <2>6. \A i \in 1..m :
          /\ (stack[i].file \in parsedAST \cup {root})'
          /\ (stack[i].next <= Len(Imports(stack[i].file)) + 1)'
          /\ (Len(modules[stack[i].file]) = stack[i].next - 1)'
          /\ Chosen(stack[i])' /\ (i < m => Waits(stack[i], stack[i + 1].file)')
          /\ \A j \in 1..m : stack'[i].file = stack'[j].file => i = j
    BY <2>2, <2>3, <2>4, <2>5, SameDisk
  <2> QED
    BY <1>6, <2>1, <2>5, <2>6 DEF Walk
<1>11. Cache'
  <2>1. ASSUME NEW h \in disk.files
        PROVE  /\ h \notin parsedAST \cup {root} => modules'[h] = <<>>
               /\ \A i \in 1..Len(modules'[h]) : modules'[h][i] \in parsedAST
    <3>1. CASE h = f
      <4>1. \A i \in 1..nx : i = nx \/ i \in 1..(nx - 1)
        BY <1>4
      <4>2. \A i \in 1..(nx - 1) : modules[f][i] \in parsedAST
        BY <1>3, <1>4 DEF Cache
      <4> QED
        BY <1>4, <1>7, <3>1, <4>1, <4>2
    <3>2. CASE h # f
      BY <1>3, <1>7, <3>2 DEF Cache
    <3> QED
      BY <3>1, <3>2
  <2>2. root # Stdin => root \in parsedAST
    BY <1>3 DEF Cache
  <2> QED
    BY <2>1, <2>2, SameDisk DEF Cache
<1>12. Matching'
  <2>1. ASSUME NEW h \in disk.files, NEW i \in 1..Len(modules'[h]) PROVE Matches(h, i)'
    <3>1. CASE h = f /\ i = nx
      <4> DEFINE d == stack[m].dir
                 node == Imports(f)[nx]
      <4>1. g = d \o node.parents /\ g # f /\ HasNode(stack[m]) /\ stack[m].pc = "try"
        BY <1>0 DEF Waits, TargetOf, NodeOf
      <4>2. Chosen(stack[m])
        BY <1>3 DEF Walk
      <4>3. d \in SearchedDirs /\ StaysInLibrary(f, node, d)
        BY <1>0, <4>1, <4>2 DEF Chosen, NodeOf
      <4>4. nx \in DOMAIN Imports(f)
        BY <1>4, DiskFacts
      <4> HIDE DEF d
      <4> QED
        BY <1>7, <3>1, <4>1, <4>3, <4>4, SameDisk DEF Matches, FoundInSearchedDirs
    <3>2. CASE ~(h = f /\ i = nx)
      <4>1. i \in 1..Len(modules[h]) /\ modules'[h][i] = modules[h][i]
        <5>1. CASE h = f
          <6>1. i \in 1..(nx - 1)
            BY <1>4, <1>7, <3>2, <5>1
          <6> QED
            BY <1>4, <1>7, <5>1, <6>1
        <5>2. CASE h # f
          BY <1>7, <5>2
        <5> QED
          BY <5>1, <5>2
      <4>2. Matches(h, i)
        BY <1>3, <4>1 DEF Matching
      <4> QED
        BY <4>1, <4>2, SameDisk DEF Matches, FoundInSearchedDirs
    <3> QED
      BY <3>1, <3>2
  <2> QED
    BY <2>1 DEF Matching
<1>13. Complete'
  <2> SUFFICES ASSUME Len(LibPaths) = 1, NEW h \in parsedAST
               PROVE  OnStack(h)' \/ Len(modules'[h]) = Len(Imports(h))
    BY SameDisk DEF Complete
  <2>1. OnStack(h) \/ Len(modules[h]) = Len(Imports(h))
    BY <1>3 DEF Complete
  <2>2. OnStack(f)'
    <3>1. stack'[m].file = f /\ m \in 1..Len(stack')
      BY <1>1, <1>5, <1>6
    <3> QED
      BY <3>1 DEF OnStack
  <2>3. CASE h = f
    BY <2>2, <2>3
  <2>4. CASE h # f /\ OnStack(h)
    <3>1. PICK i \in 1..n : stack[i].file = h
      BY <2>4 DEF OnStack, n
    <3>2. CASE i \in 1..m
      <4>1. stack'[i].file = h /\ i \in 1..Len(stack')
        BY <1>6, <1>8, <3>1, <3>2
      <4> QED
        BY <4>1 DEF OnStack
    <3>3. CASE i \notin 1..m
      <4>1. i = n /\ m # n
        BY <1>1, <3>3 DEF n
      <4>2. ~HasNode(stack[n]) /\ h \in disk.files
        BY <1>1, <4>1 DEF n, TypeOK
      <4>3. /\ stack[n].next \in Nat /\ Len(Imports(h)) \in Nat
            /\ stack[n].next <= Len(Imports(h)) + 1 /\ Len(modules[h]) = stack[n].next - 1
        BY <1>1, <1>3, <3>1, <4>1, <4>2, DiskFacts DEF Walk, n, Frame
      <4>4. Len(modules[h]) = Len(Imports(h))
        <5>1. ~ (stack[n].next <= Len(Imports(h)))
          BY <3>1, <4>1, <4>2 DEF HasNode
        <5>2. PICK x \in Nat, y \in Nat : x = stack[n].next /\ y = Len(Imports(h))
          BY <4>3
        <5>3. x = y + 1
          BY <4>3, <5>1, <5>2
        <5> QED
          BY <4>3, <5>2, <5>3
      <4> QED
        BY <1>7, <2>4, <4>2, <4>4
    <3> QED
      BY <3>2, <3>3
  <2>5. CASE h # f /\ Len(modules[h]) = Len(Imports(h))
    BY <1>7, <2>5 DEF TypeOK
  <2> QED
    BY <2>1, <2>3, <2>4, <2>5
<1> QED
  <2>1. status' # "ok"
    OBVIOUS
  <2> QED
    BY <1>9, <1>10, <1>11, <1>12, <1>13, <2>1 DEF ResolverInv, Ending

(* What is said of the current import in terms of the frame on top.         *)
LEMMA TopNode == (HasImport <=> HasNode(Top)) /\ Node = NodeOf(Top) /\ Target = TargetOf(Top)
BY DEF HasImport, HasNode, Node, NodeOf, Target, TargetOf

(* A program that is not cached is entered into the cache, without modules, *)
(* and walked in a frame of its own.                                        *)
LEMMA Descended ==
  ASSUME TypeOK, ResolverInv, Descend
  PROVE  TypeOK' /\ ResolverInv'
<1> DEFINE n == Len(stack)
<1>0. PICK t, fr : t = Target /\ fr = resolve(Target)
  OBVIOUS
<1>1. /\ n \in Nat \ {0} /\ Top = stack[n]
      /\ \A i \in 1..n : stack[i] \in Frame
  BY TopFacts
<1>2. Walk /\ Cache /\ Matching /\ Complete /\ <<>> \in PathName
  BY EmptySeq DEF ResolverInv, PathName
<1>3. /\ status = "running" /\ result = "none" /\ HasNode(Top) /\ Top.pc = "try"
      /\ t = TargetOf(Top) /\ t # Top.file /\ t \notin parsedAST /\ t \in disk.files
      /\ stack' = Append(stack, fr) /\ parsedAST' = parsedAST \cup {t}
      /\ disk' = disk /\ modules' = modules /\ result' = result /\ status' = status
  BY <1>0, TopNode DEF Descend, At, Cached, Myself, Readable
<1>4. t # root
  <2>1. CASE root # Stdin
    BY <1>2, <1>3, <2>1 DEF Cache
  <2>2. CASE root = Stdin
    <3>1. Chosen(Top) /\ Top \in Frame /\ Top.file \in disk.files
      BY <1>1, <1>2, DiskFacts DEF Walk, n, TypeOK
    <3>2. Top.dir # <<>> /\ Top.dir \in Seq(Name)
      BY <1>3, <3>1 DEF Chosen, Frame, PathName
    <3>3. NodeOf(Top).parents \in Seq(Name)
      <4>1. /\ Len(Imports(Top.file)) \in Nat /\ Top.next \in Nat \ {0}
            /\ \A i \in 1..Len(Imports(Top.file)) : Imports(Top.file)[i] \in Import
        BY <3>1, DiskFacts DEF Frame
      <4>2. Top.next \in 1..Len(Imports(Top.file))
        BY <1>3, <4>1 DEF HasNode
      <4> QED
        BY <4>1, <4>2 DEF Import, PathName, NodeOf
    <3>4. TargetOf(Top) # <<>>
      <4> DEFINE d == Top.dir
                 q == NodeOf(Top).parents
      <4>1. d \in Seq(Name) /\ d # <<>> /\ q \in Seq(Name) /\ TargetOf(Top) = d \o q
        BY <3>2, <3>3 DEF TargetOf
      <4> HIDE DEF d, q
      <4> QED
        BY <4>1, ConcatEqualIffEmpty
    <3> QED
      BY <1>3, <2>2, <3>4 DEF Stdin
  <2> QED
    BY <2>1, <2>2
<1>5. /\ fr.file = t /\ fr.next = 1 /\ fr.pc = "pick" /\ fr.lib = 1
      /\ fr \in Frame
  <2>1. fr = [file |-> t, next |-> 1, pc |-> "pick", dir |-> <<>>, entry |-> <<>>, lib |-> 1]
    BY <1>0 DEF resolve
  <2>2. t \in PathName
    BY <1>3, DiskFacts
  <2> QED
    BY <1>2, <2>1, <2>2 DEF Frame
<1>6. /\ stack' \in Seq(Frame) /\ stack' # <<>> /\ Len(stack') = n + 1
      /\ \A i \in 1..n : stack'[i] = stack[i]
      /\ stack'[n + 1] = fr
  BY <1>3, <1>5, Pushed DEF TypeOK
<1>7. modules[t] = <<>> /\ Len(modules[t]) = 0
  BY <1>2, <1>3, <1>4, EmptySeq DEF Cache
<1>8. TypeOK'
  BY <1>3, <1>6 DEF TypeOK
<1>9. Walk'
  <2>1. (stack[1].file = root)'
    BY <1>1, <1>2, <1>3, <1>6, SameDisk DEF Walk
  <2>2. ASSUME NEW i \in 1..(n + 1)
        PROVE  /\ stack'[i].file \in parsedAST' \cup {root}
               /\ stack'[i].next <= Len(Imports(stack'[i].file)) + 1
               /\ Len(modules[stack'[i].file]) = stack'[i].next - 1
               /\ Chosen(stack'[i])
               /\ \A j \in 1..(n + 1) : stack'[i].file = stack'[j].file => i = j
    <3>1. \A j \in 1..(n + 1) : j = n + 1 \/ j \in 1..n
      BY <1>1
    <3>2. \A j \in 1..n : stack'[j] = stack[j] /\ stack[j].file # t
      BY <1>2, <1>3, <1>4, <1>6 DEF Walk, n
    <3>3. CASE i = n + 1
      <4>1. Len(Imports(t)) \in Nat /\ Chosen(fr)
        BY <1>3, <1>5, DiskFacts DEF Chosen
      <4>2. 1 <= Len(Imports(t)) + 1 /\ 0 = 1 - 1
        BY <4>1
      <4>3. \A j \in 1..(n + 1) : stack'[j].file = t => j = n + 1
        BY <3>1, <3>2
      <4> QED
        BY <1>3, <1>5, <1>6, <1>7, <3>3, <4>1, <4>2, <4>3
    <3>4. CASE i \in 1..n
      <4>1. \A j \in 1..(n + 1) : stack'[i].file = stack'[j].file => j \in 1..n
        BY <1>5, <1>6, <3>1, <3>2, <3>4
      <4> QED
        BY <1>2, <1>3, <3>2, <3>4, <4>1 DEF Walk, n
    <3> QED
      BY <3>1, <3>3, <3>4
  <2>3. ASSUME NEW i \in 1..(n + 1), i < n + 1 PROVE Waits(stack'[i], stack'[i + 1].file)
    <3>1. i \in 1..n /\ stack'[i] = stack[i]
      BY <1>1, <1>6, <2>3
    <3>2. CASE i = n
      BY <1>1, <1>3, <1>5, <1>6, <3>1, <3>2 DEF Waits
    <3>3. CASE i # n
      <4>1. i < n /\ i + 1 \in 1..n
        BY <1>1, <3>1, <3>3
      <4> QED
        BY <1>2, <1>6, <3>1, <4>1 DEF Walk, n
    <3> QED
      BY <3>2, <3>3
  <2>4. result' = "none"
    BY <1>3
  <2>5. \A i \in 1..(n + 1) :
          /\ (stack[i].file \in parsedAST \cup {root})'
          /\ (stack[i].next <= Len(Imports(stack[i].file)) + 1)'
          /\ (Len(modules[stack[i].file]) = stack[i].next - 1)'
          /\ Chosen(stack[i])' /\ (i < n + 1 => Waits(stack[i], stack[i + 1].file)')
          /\ \A j \in 1..(n + 1) : stack'[i].file = stack'[j].file => i = j
    BY <1>3, <2>2, <2>3, SameDisk
  <2> HIDE DEF n
  <2> QED
    BY <1>6, <2>1, <2>4, <2>5 DEF Walk
<1>10. Cache'
  BY <1>2, <1>3, SameDisk DEF Cache
<1>11. Matching'
  <2>1. ASSUME NEW f \in disk.files, NEW i \in 1..Len(modules[f]) PROVE Matches(f, i)'
    BY <1>2, <1>3, SameDisk DEF Matching, Matches, FoundInSearchedDirs
  <2> QED
    BY <1>3, <2>1 DEF Matching
<1>12. Complete'
  <2> SUFFICES ASSUME Len(LibPaths) = 1, NEW h \in parsedAST \cup {t}
               PROVE  OnStack(h)' \/ Len(modules[h]) = Len(Imports(h))
    BY <1>3, SameDisk DEF Complete
  <2>1. CASE h = t
    <3>1. stack'[n + 1].file = t /\ n + 1 \in 1..Len(stack')
      BY <1>1, <1>5, <1>6
    <3> QED
      BY <2>1, <3>1 DEF OnStack
  <2>2. CASE h \in parsedAST /\ OnStack(h)
    <3>1. PICK i \in 1..n : stack[i].file = h
      BY <2>2 DEF OnStack
    <3>2. i \in 1..Len(stack') /\ stack'[i].file = h
      BY <1>1, <1>6, <3>1
    <3> QED
      BY <3>2 DEF OnStack
  <2>3. CASE h \in parsedAST /\ Len(modules[h]) = Len(Imports(h))
    BY <2>3
  <2>4. h = t \/ OnStack(h) \/ Len(modules[h]) = Len(Imports(h))
    BY <1>2, <1>3 DEF Complete
  <2> QED
    BY <2>1, <2>2, <2>3, <2>4
<1> QED
  BY <1>3, <1>8, <1>9, <1>10, <1>11, <1>12 DEF ResolverInv, Ending

-----------------------------------------------------------------------------
(* Directories.                                                             *)

(* The directory of a path is the path without its last entry.              *)
LEMMA DirFacts ==
  ASSUME NEW f \in Seq(Name)
  PROVE  /\ Dir(f) \in Seq(Name) /\ Entry(f) \in Seq(Name)
         /\ f = <<>> => Dir(f) = <<>>
         /\ f # <<>> => /\ Len(f) \in Nat \ {0} /\ Len(Dir(f)) = Len(f) - 1
                        /\ \A i \in 1..(Len(f) - 1) : Dir(f)[i] = f[i]
                        /\ Entry(f) = <<f[Len(f)]>>
<1>1. CASE f = <<>>
  BY <1>1, EmptySeq DEF Dir, Entry
<1>2. CASE f # <<>>
  <2> DEFINE n == Len(f) - 1
  <2>1. Len(f) \in Nat \ {0} /\ n \in Nat /\ n + 1 = Len(f)
    BY <1>2, EmptySeq
  <2>2. f[Len(f)] \in Name /\ \A i \in 1..n : f[i] \in Name
    BY <2>1, ElementOfSeq
  <2>3. Dir(f) = SubSeq(f, 1, n) /\ Entry(f) = <<f[Len(f)]>>
    BY <1>2 DEF Dir, Entry, Front, Last
  <2>4. <<f[Len(f)]>> \in Seq(Name)
    BY <2>2
  <2> HIDE DEF n
  <2>5. /\ SubSeq(f, 1, n) \in Seq(Name)
        /\ Len(SubSeq(f, 1, n)) = IF 1 <= n THEN n - 1 + 1 ELSE 0
        /\ \A i \in 1..(n - 1 + 1) : SubSeq(f, 1, n)[i] = f[1 + i - 1]
    BY <2>1, <2>2, SubSeqProperties
  <2>6. Len(SubSeq(f, 1, n)) = n /\ \A i \in 1..n : SubSeq(f, 1, n)[i] = f[i]
    BY <2>1, <2>5
  <2> QED
    BY <1>2, <2>1, <2>3, <2>4, <2>5, <2>6 DEF n
<1> QED
  BY <1>1, <1>2

(* One step up from a directory that holds f: above it, f goes on with the  *)
(* entry that was left.                                                     *)
LEMMA ClimbFacts ==
  ASSUME NEW f \in Seq(Name), NEW d \in Seq(Name), IsPrefix(d, Dir(f)), Dir(d) # <<>>
  PROVE  IsStrictPrefix(Dir(d), Dir(f)) /\ Entry(d) = <<f[Len(Dir(d)) + 1]>>
<1>1. Dir(f) \in Seq(Name) /\ Dir(d) \in Seq(Name) /\ d # <<>>
  BY DirFacts
<1>2. /\ Len(d) \in Nat \ {0} /\ Len(Dir(d)) = Len(d) - 1
      /\ \A i \in 1..(Len(d) - 1) : Dir(d)[i] = d[i]
      /\ Entry(d) = <<d[Len(d)]>>
  BY <1>1, DirFacts
<1>3. Len(Dir(f)) \in Nat /\ Len(d) <= Len(Dir(f)) /\ \A i \in 1..Len(d) : d[i] = Dir(f)[i]
  BY <1>1, PrefixElements, LenProperties
<1>4. IsStrictPrefix(Dir(d), Dir(f))
  <2>1. Len(Dir(d)) < Len(Dir(f))
    BY <1>2, <1>3
  <2>2. \A i \in 1..Len(Dir(d)) : Dir(d)[i] = Dir(f)[i]
    BY <1>2, <1>3
  <2> QED
    BY <1>1, <2>1, <2>2, PrefixElements
<1>5. d[Len(d)] = f[Len(d)]
  <2>1. f # <<>>
    BY <1>2, <1>3, DirFacts, EmptySeq
  <2>2. Len(Dir(f)) = Len(f) - 1 /\ \A i \in 1..(Len(f) - 1) : Dir(f)[i] = f[i]
    BY <2>1, DirFacts
  <2> QED
    BY <1>2, <1>3, <2>2
<1> QED
  BY <1>2, <1>4, <1>5

(* An entry of a library path is searched.                                  *)
LEMMA Joined == \A k \in Lib, c \in Name : LibPaths[k] \o <<c>> \in SearchedDirs
<1> SUFFICES ASSUME NEW k \in Lib, NEW c \in Name PROVE LibPaths[k] \o <<c>> \in SearchedDirs
  OBVIOUS
<1> DEFINE d == LibPaths[k] \o <<c>>
           E == {LibPaths[k] \o <<b>> : b \in Name}
<1>1. d \in E
  OBVIOUS
<1>2. E \in {{LibPaths[j] \o <<b>> : b \in Name} : j \in Lib}
  OBVIOUS
<1>3. E \subseteq SearchedDirs
  BY <1>2 DEF SearchedDirs
<1> QED
  BY <1>1, <1>3

(* At the end of a climb dir and entry make the root of a library of f.     *)
LEMMA ClimbedFacts ==
  ASSUME TypeOK, NEW f \in Seq(Name), NEW k \in Lib, IsStrictPrefix(LibPaths[k], Dir(f))
  PROVE  LET r == LibPaths[k] \o <<f[Len(LibPaths[k]) + 1]>>
         IN  r \in LibraryRoots(f) /\ r \in SearchedDirs /\ r # <<>>
<1> DEFINE d == LibPaths[k]
           c == f[Len(d) + 1]
<1>1. d \in Seq(Name) /\ d # <<>> /\ Len(d) \in Nat /\ Dir(f) \in Seq(Name)
  BY DiskFacts, DirFacts, LenProperties DEF PathName
<1>2. Len(d) < Len(Dir(f)) /\ Len(Dir(f)) \in Nat
  BY <1>1, PrefixElements, LenProperties
<1>3. f # <<>>
  <2>1. f = <<>> => Dir(f) = <<>>
    BY DirFacts
  <2>2. Len(<<>>) = 0 /\ Len(Dir(f)) # 0
    BY <1>1, <1>2
  <2> QED
    BY <2>1, <2>2
<1>4. Len(f) \in Nat /\ Len(Dir(f)) = Len(f) - 1
  BY <1>3, DirFacts
<1>5. c \in Name
  <2>1. Len(d) + 1 \in 1..Len(f)
    BY <1>1, <1>2, <1>4
  <2> QED
    BY <2>1, ElementOfSeq
<1>6. d \o <<c>> \in LibraryRoots(f)
  BY DEF LibraryRoots
<1>7. d \o <<c>> \in SearchedDirs
  BY <1>5, Joined
<1>8. d \o <<c>> # <<>>
  <2>1. <<c>> \in Seq(Name)
    BY <1>5
  <2> DEFINE q == <<c>>
  <2>2. q \in Seq(Name)
    BY <2>1
  <2> HIDE DEF d, q
  <2>3. d \o q # <<>>
    BY <1>1, <2>2, ConcatEqualIffEmpty
  <2> QED
    BY <2>3 DEF q
<1> QED
  BY <1>6, <1>7, <1>8

-----------------------------------------------------------------------------
(* The search of an import.                                                 *)

(* While the walk is in resolveImport, the frame on top is as Chosen says.  *)
LEMMA Searching ==
  ASSUME TypeOK, ResolverInv
  PROVE  /\ Top \in Frame /\ Chosen(Top) /\ Top.file \in disk.files /\ Top.file \in Seq(Name)
         /\ result = "error" => Top.pc = "try" /\ HasNode(Top)
<1>1. /\ Top \in Frame /\ Chosen(Top) /\ Top.file \in parsedAST \cup {root}
      /\ result = "error" => Top.pc = "try" /\ HasNode(Top)
  BY TopFacts DEF ResolverInv, Walk
<1>2. Top.file \in disk.files
  BY <1>1, DiskFacts DEF TypeOK
<1> QED
  BY <1>1, <1>2, DiskFacts DEF PathName

(* The search goes on in another directory, or with another step upwards.   *)
LEMMA Searches ==
  ASSUME TypeOK, ResolverInv, status = "running",
         UNCHANGED <<disk, parsedAST, modules, status>>,
         NEW pc \in {"climb", "try"}, NEW dir \in PathName, NEW entry \in PathName, NEW lib \in Lib,
         SetTop([Top EXCEPT !.pc = pc, !.dir = dir, !.entry = entry, !.lib = lib]),
         pc = "climb" /\ dir # <<>> =>
            IsStrictPrefix(dir, Dir(Top.file)) /\ entry = <<Top.file[Len(dir) + 1]>>,
         pc = "try" => /\ dir \in SearchedDirs /\ dir # <<>>
                       /\ StaysInLibrary(Top.file, NodeOf(Top), dir),
         result' = "none", Len(LibPaths) = 1 => result = "none"
  PROVE  TypeOK' /\ ResolverInv'
<1>1. PICK fr : fr = [Top EXCEPT !.pc = pc, !.dir = dir, !.entry = entry, !.lib = lib]
  OBVIOUS
<1>2. /\ fr.file = Top.file /\ fr.next = Top.next /\ fr.pc = pc /\ fr.dir = dir
      /\ fr.entry = entry /\ fr.lib = lib /\ fr \in Frame
  <2>1. lib \in Nat \ {0} /\ Top \in Frame
    BY DiskFacts, Searching
  <2> QED
    BY <1>1, <2>1 DEF Frame
<1>3. NodeOf(fr) = NodeOf(Top)
  BY <1>2 DEF NodeOf
<1>4. Chosen(fr)
  BY <1>2, <1>3 DEF Chosen
<1> QED
  BY <1>1, <1>2, <1>4, TopReplaced

(* Choosing the library paths keeps the invariant.                          *)
LEMMA PickLibPathsKeeps == TypeOK /\ ResolverInv /\ PickLibPaths => TypeOK' /\ ResolverInv'
<1> SUFFICES ASSUME TypeOK, ResolverInv, PickLibPaths PROVE TypeOK' /\ ResolverInv'
  OBVIOUS
<1>1. /\ status = "running" /\ result = "none" /\ ~NodeOf(Top).local
      /\ SetTop([Top EXCEPT !.pc = "try", !.dir = LibPaths[1], !.lib = 1])
      /\ UNCHANGED <<disk, parsedAST, modules, result, status>>
  BY TopNode DEF PickLibPaths, At
<1>2. 1 \in Lib /\ LibPaths[1] \in PathName /\ LibPaths[1] # <<>>
  BY DiskFacts
<1>3. Top \in Frame
  BY Searching
<1>4. [Top EXCEPT !.pc = "try", !.dir = LibPaths[1], !.lib = 1]
        = [Top EXCEPT !.pc = "try", !.dir = LibPaths[1], !.entry = Top.entry, !.lib = 1]
  BY <1>3 DEF Frame
<1>5. Top.entry \in PathName
  BY <1>3 DEF Frame
<1>6. LibPaths[1] \in SearchedDirs
  BY <1>2 DEF SearchedDirs
<1>7. StaysInLibrary(Top.file, NodeOf(Top), LibPaths[1])
  BY <1>1 DEF StaysInLibrary
<1> QED
  BY <1>1, <1>2, <1>4, <1>5, <1>6, <1>7, Searches

(* So does choosing the project,                                            *)
LEMMA PickProjectKeeps == TypeOK /\ ResolverInv /\ PickProject => TypeOK' /\ ResolverInv'
<1> SUFFICES ASSUME TypeOK, ResolverInv, PickProject PROVE TypeOK' /\ ResolverInv'
  OBVIOUS
<1>1. /\ status = "running" /\ result = "none" /\ InProject(Top.file)
      /\ SetTop([Top EXCEPT !.pc = "try", !.dir = projectPath])
      /\ UNCHANGED <<disk, parsedAST, modules, result, status>>
  BY DEF PickProject, At
<1>2. projectPath \in PathName /\ projectPath # <<>>
  BY <1>1, DiskFacts DEF InProject
<1>3. Top \in Frame /\ Top.lib \in Lib
  BY Searching DEF Chosen
<1>4. [Top EXCEPT !.pc = "try", !.dir = projectPath]
        = [Top EXCEPT !.pc = "try", !.dir = projectPath, !.entry = Top.entry, !.lib = Top.lib]
  BY <1>3 DEF Frame
<1>5. Top.entry \in PathName
  BY <1>3 DEF Frame
<1>6. projectPath \in SearchedDirs
  BY DEF SearchedDirs
<1>7. StaysInLibrary(Top.file, NodeOf(Top), projectPath)
  BY <1>1 DEF StaysInLibrary
<1> QED
  BY <1>1, <1>2, <1>3, <1>4, <1>5, <1>6, <1>7, Searches

(* choosing the library of the file,                                        *)
LEMMA PickLibraryKeeps == TypeOK /\ ResolverInv /\ PickLibrary => TypeOK' /\ ResolverInv'
<1> SUFFICES ASSUME TypeOK, ResolverInv, PickLibrary PROVE TypeOK' /\ ResolverInv'
  OBVIOUS
<1> DEFINE f == Top.file
           k == Min(LibsOf(f))
<1>1. /\ status = "running" /\ result = "none" /\ LibsOf(f) # {}
      /\ SetTop([Top EXCEPT !.pc = "climb", !.lib = k, !.dir = Dir(Dir(f)), !.entry = Entry(Dir(f))])
      /\ UNCHANGED <<disk, parsedAST, modules, result, status>>
  BY DEF PickLibrary, At
<1>2. k \in Lib
  <2>1. LibsOf(f) \in SUBSET Nat /\ LibsOf(f) \subseteq Lib
    BY DiskFacts DEF LibsOf
  <2> QED
    BY <1>1, <2>1, MinNat
<1>3. Top \in Frame /\ f \in Seq(Name)
  BY Searching
<1>4. Dir(f) \in Seq(Name) /\ Dir(Dir(f)) \in Seq(Name) /\ Entry(Dir(f)) \in Seq(Name)
  BY <1>3, DirFacts
<1>5. Dir(Dir(f)) # <<>> =>
        IsStrictPrefix(Dir(Dir(f)), Dir(f)) /\ Entry(Dir(f)) = <<f[Len(Dir(Dir(f))) + 1]>>
  <2>1. IsPrefix(Dir(f), Dir(f))
    BY <1>4, PrefixElements, LenProperties
  <2> QED
    BY <1>3, <1>4, <2>1, ClimbFacts
<1> HIDE DEF f, k
<1>6. [Top EXCEPT !.pc = "climb", !.lib = k, !.dir = Dir(Dir(f)), !.entry = Entry(Dir(f))]
        = [Top EXCEPT !.pc = "climb", !.dir = Dir(Dir(f)), !.entry = Entry(Dir(f)), !.lib = k]
  BY <1>3 DEF Frame
<1> QED
  BY <1>1, <1>2, <1>4, <1>5, <1>6, Searches DEF f, PathName

(* a step of the climb,                                                     *)
LEMMA ClimbKeeps == TypeOK /\ ResolverInv /\ Climb => TypeOK' /\ ResolverInv'
<1> SUFFICES ASSUME TypeOK, ResolverInv, Climb PROVE TypeOK' /\ ResolverInv'
  OBVIOUS
<1> DEFINE f == Top.file
           d == Top.dir
<1>1. /\ status = "running" /\ result = "none" /\ Top.pc = "climb"
      /\ SetTop([Top EXCEPT !.dir = Dir(@), !.entry = Entry(Top.dir)])
      /\ UNCHANGED <<disk, parsedAST, modules, result, status>>
  BY DEF Climb, At
<1>2. Top \in Frame /\ f \in Seq(Name) /\ Chosen(Top)
  BY Searching
<1>3. d \in Seq(Name) /\ Top.lib \in Lib
  BY <1>2 DEF Frame, PathName, Chosen
<1>4. Dir(d) \in Seq(Name) /\ Entry(d) \in Seq(Name) /\ Dir(f) \in Seq(Name)
  BY <1>2, <1>3, DirFacts
<1>5. Dir(d) # <<>> =>
        IsStrictPrefix(Dir(d), Dir(f)) /\ Entry(d) = <<f[Len(Dir(d)) + 1]>>
  <2> SUFFICES ASSUME Dir(d) # <<>>
               PROVE  IsStrictPrefix(Dir(d), Dir(f)) /\ Entry(d) = <<f[Len(Dir(d)) + 1]>>
    OBVIOUS
  <2>1. d # <<>>
    BY <1>3, DirFacts
  <2>2. IsPrefix(d, Dir(f))
    BY <1>1, <1>2, <2>1 DEF Chosen, IsStrictPrefix
  <2> QED
    BY <1>2, <1>3, <2>2, ClimbFacts
<1>6. [Top EXCEPT !.dir = Dir(@), !.entry = Entry(Top.dir)]
        = [Top EXCEPT !.pc = "climb", !.dir = Dir(d), !.entry = Entry(d), !.lib = Top.lib]
  BY <1>1, <1>2 DEF Frame
<1> HIDE DEF f, d
<1> QED
  BY <1>1, <1>3, <1>4, <1>5, <1>6, Searches DEF f, PathName

(* its end,                                                                 *)
LEMMA ClimbedKeeps == TypeOK /\ ResolverInv /\ Climbed => TypeOK' /\ ResolverInv'
<1> SUFFICES ASSUME TypeOK, ResolverInv, Climbed PROVE TypeOK' /\ ResolverInv'
  OBVIOUS
<1> DEFINE f == Top.file
           d == Top.dir \o Top.entry
<1>1. /\ status = "running" /\ result = "none" /\ Top.pc = "climb"
      /\ Top.dir = LibPaths[Top.lib]
      /\ SetTop([Top EXCEPT !.pc = "try", !.dir = @ \o Top.entry])
      /\ UNCHANGED <<disk, parsedAST, modules, result, status>>
  BY DEF Climbed, At
<1>2. Top \in Frame /\ f \in Seq(Name) /\ Chosen(Top)
  BY Searching
<1>3. /\ Top.dir \in Seq(Name) /\ Top.entry \in Seq(Name) /\ Top.entry \in PathName
      /\ Top.lib \in Lib /\ Top.dir # <<>>
  BY <1>1, <1>2, DiskFacts DEF Frame, PathName, Chosen
<1>4. IsStrictPrefix(Top.dir, Dir(f)) /\ Top.entry = <<f[Len(Top.dir) + 1]>>
  BY <1>1, <1>2, <1>3 DEF Chosen
<1>5. d \in LibraryRoots(f) /\ d \in SearchedDirs /\ d # <<>>
  BY <1>1, <1>2, <1>3, <1>4, ClimbedFacts
<1>6. d \in PathName
  BY <1>3, ConcatProperties DEF PathName
<1>7. [Top EXCEPT !.pc = "try", !.dir = @ \o Top.entry]
        = [Top EXCEPT !.pc = "try", !.dir = d, !.entry = Top.entry, !.lib = Top.lib]
  BY <1>2 DEF Frame
<1> HIDE DEF f, d
<1>8. StaysInLibrary(Top.file, NodeOf(Top), d)
  BY <1>5 DEF StaysInLibrary, f
<1> QED
  BY <1>1, <1>3, <1>5, <1>6, <1>7, <1>8, Searches

(* trying the next library path,                                            *)
LEMMA TryNextLibKeeps == TypeOK /\ ResolverInv /\ TryNextLib => TypeOK' /\ ResolverInv'
<1> SUFFICES ASSUME TypeOK, ResolverInv, TryNextLib PROVE TypeOK' /\ ResolverInv'
  OBVIOUS
<1> DEFINE k == Top.lib + 1
<1>1. /\ status = "running" /\ result' = "none" /\ ~NodeOf(Top).local
      /\ Top.lib < Len(LibPaths)
      /\ result = "error" \/ Top.pc = "try"
      /\ SetTop([Top EXCEPT !.lib = @ + 1, !.dir = LibPaths[Top.lib + 1]])
      /\ UNCHANGED <<disk, parsedAST, modules, status>>
  BY TopNode DEF TryNextLib, TryFails, At
<1>2. Top \in Frame /\ Top.pc = "try" /\ Top.lib \in Nat \ {0} /\ Top.entry \in PathName
  BY <1>1, Searching DEF Frame
<1>3. k \in Lib /\ Len(LibPaths) # 1
  <2>1. Len(LibPaths) \in Nat /\ Lib = 1..Len(LibPaths)
    BY DiskFacts
  <2>2. Top.lib < Len(LibPaths) /\ Top.lib \in Nat \ {0}
    BY <1>1, <1>2
  <2>3. \A l \in Nat \ {0}, n \in Nat : l < n => l + 1 \in 1..n /\ n # 1
    OBVIOUS
  <2>4. k \in 1..Len(LibPaths) /\ Len(LibPaths) # 1
    BY <2>1, <2>2, <2>3
  <2> QED
    BY <2>1, <2>4
<1>4. LibPaths[k] \in PathName /\ LibPaths[k] # <<>>
  BY <1>3, DiskFacts
<1>5. [Top EXCEPT !.lib = @ + 1, !.dir = LibPaths[Top.lib + 1]]
        = [Top EXCEPT !.pc = "try", !.dir = LibPaths[k], !.entry = Top.entry, !.lib = k]
  BY <1>2 DEF Frame
<1> HIDE DEF k
<1>6. LibPaths[k] \in SearchedDirs
  BY <1>3 DEF SearchedDirs
<1>7. StaysInLibrary(Top.file, NodeOf(Top), LibPaths[k])
  BY <1>1 DEF StaysInLibrary
<1>8. SetTop([Top EXCEPT !.pc = "try", !.dir = LibPaths[k], !.entry = Top.entry, !.lib = k])
  BY <1>1, <1>5
<1>9. /\ status = "running" /\ result' = "none" /\ (Len(LibPaths) = 1 => result = "none")
      /\ UNCHANGED <<disk, parsedAST, modules, status>>
  BY <1>1, <1>3
<1> QED
  BY <1>2, <1>3, <1>4, <1>6, <1>7, <1>8, <1>9, Searches

(* taking a file from the cache,                                            *)
LEMMA FromCacheKeeps == TypeOK /\ ResolverInv /\ FromCache => TypeOK' /\ ResolverInv'
<1> SUFFICES ASSUME TypeOK, ResolverInv, FromCache PROVE TypeOK' /\ ResolverInv'
  OBVIOUS
<1> DEFINE n == Len(stack)
           g == Target
<1>1. /\ status = "running" /\ result = "none" /\ Waits(Top, g) /\ g \in parsedAST
      /\ AddModule(Top.file, g)
      /\ stack' = Append(Front(stack), NextImport(Top))
      /\ UNCHANGED <<disk, parsedAST, result, status>>
  BY TopNode DEF FromCache, At, Cached, Myself, Waits, SetTop
<1>2. /\ n \in 1..n /\ Top = stack[n] /\ Front(stack) \in Seq(Frame)
      /\ Len(Front(stack)) = n - 1 /\ \A i \in 1..(n - 1) : Front(stack)[i] = stack[i]
  BY TopFacts
<1> HIDE DEF g
<1> QED
  BY <1>1, <1>2, ModuleAdded

(* and returning from a file.                                               *)
LEMMA ReturnKeeps == TypeOK /\ ResolverInv /\ Return => TypeOK' /\ ResolverInv'
<1> SUFFICES ASSUME TypeOK, ResolverInv, Return PROVE TypeOK' /\ ResolverInv'
  OBVIOUS
<1> DEFINE n == Len(stack)
           m == n - 1
           s == Front(Front(stack))
<1>1. /\ n \in Nat \ {0} /\ Top = stack[n] /\ Front(stack) \in Seq(Frame)
      /\ Len(Front(stack)) = n - 1 /\ \A i \in 1..(n - 1) : Front(stack)[i] = stack[i]
  BY TopFacts
<1>2. /\ status = "running" /\ result = "none" /\ ~HasNode(Top) /\ n > 1
      /\ AddModule(Last(Front(stack)).file, Top.file)
      /\ stack' = Append(s, NextImport(Last(Front(stack))))
      /\ UNCHANGED <<disk, parsedAST, result, status>>
  BY TopNode DEF Return
<1>3. m \in 1..n /\ m # n /\ m < n /\ m + 1 = n /\ Last(Front(stack)) = stack[m]
  BY <1>1, <1>2 DEF Last
<1>4. s \in Seq(Frame) /\ Len(s) = m - 1 /\ \A i \in 1..(m - 1) : s[i] = stack[i]
  <2> DEFINE q == Front(stack)
             l == m - 1
  <2>1. /\ q \in Seq(Frame) /\ Len(q) = m /\ l \in Nat
        /\ \A i \in 1..l : q[i] \in Frame /\ q[i] = stack[i]
    BY <1>1, <1>3, ElementOfSeq
  <2>2. s = SubSeq(q, 1, l)
    BY <2>1 DEF Front
  <2> HIDE DEF q, l, m
  <2>3. /\ SubSeq(q, 1, l) \in Seq(Frame)
        /\ Len(SubSeq(q, 1, l)) = IF 1 <= l THEN l - 1 + 1 ELSE 0
        /\ \A i \in 1..(l - 1 + 1) : SubSeq(q, 1, l)[i] = q[1 + i - 1]
    BY <2>1, SubSeqProperties
  <2>4. Len(SubSeq(q, 1, l)) = l /\ \A i \in 1..l : SubSeq(q, 1, l)[i] = q[i]
    BY <2>1, <2>3
  <2> QED
    BY <2>1, <2>2, <2>3, <2>4 DEF l
<1> HIDE DEF s, m
<1>5. Waits(stack[m], Top.file)
  <2>1. Waits(stack[m], stack[m + 1].file)
    BY <1>3 DEF ResolverInv, Walk
  <2> QED
    BY <1>1, <1>3, <2>1
<1>6. Top.file \in parsedAST
  <2>1. Top.file \in parsedAST \cup {root} /\ stack[1].file = root /\ 1 \in 1..n
    BY <1>1 DEF ResolverInv, Walk
  <2>2. Top.file # root
    BY <1>1, <1>2, <2>1 DEF ResolverInv, Walk
  <2> QED
    BY <2>1, <2>2
<1> QED
  BY <1>1, <1>2, <1>3, <1>4, <1>5, <1>6, ModuleAdded

(* Every step keeps the invariant.                                          *)
LEMMA NextResolverInv == TypeOK /\ ResolverInv /\ [Next]_vars => TypeOK' /\ ResolverInv'
<1> SUFFICES ASSUME TypeOK, ResolverInv, [Next]_vars PROVE TypeOK' /\ ResolverInv'
  OBVIOUS
<1>1. CASE NoPlace
  BY <1>1, Returned DEF NoPlace, At
<1>2. CASE GiveUp
  BY <1>2, Returned DEF GiveUp, TryFails
<1>3. ASSUME UNCHANGED <<disk, stack, parsedAST, modules, result>>, Ending'
      PROVE  status' \in {"running", "ok", "failed"} /\ (status' # "failed" => status # "failed")
               => TypeOK' /\ ResolverInv'
  <2>1. TypeOK /\ Walk /\ Cache /\ Matching /\ Complete
    BY DEF ResolverInv
  <2>2. status' \in {"running", "ok", "failed"} => TypeOK'
    BY <1>3 DEF TypeOK
  <2>3. Walk' /\ Cache'
    BY <1>3, <2>1, SameDisk DEF Walk, Cache
  <2>4. Matching'
    <3>1. ASSUME NEW f \in disk.files, NEW i \in 1..Len(modules[f]) PROVE Matches(f, i)'
      BY <1>3, <2>1, SameDisk DEF Matching, Matches, FoundInSearchedDirs
    <3> QED
      BY <1>3, <3>1 DEF Matching
  <2>5. status # "failed" => Complete'
    BY <1>3, <2>1, SameDisk DEF Complete, OnStack
  <2>6. status' = "failed" => Complete'
    BY DEF Complete
  <2> QED
    BY <1>3, <2>2, <2>3, <2>4, <2>5, <2>6 DEF ResolverInv
<1>4. CASE Succeed
  <2>1. Last(stack) = Top
    BY DEF Last, Top
  <2>2. /\ UNCHANGED <<disk, stack, parsedAST, modules, result>> /\ status' = "ok"
        /\ status = "running" /\ result = "none"
        /\ ~HasNode(Last(stack)) /\ Len(stack) = 1
    BY <1>4, <2>1, TopNode DEF Succeed
  <2>3. Ending'
    BY <2>2, SameDisk DEF Ending
  <2> QED
    BY <1>3, <2>2, <2>3
<1>5. CASE UNCHANGED vars
  <2>1. UNCHANGED <<disk, stack, parsedAST, modules, result>> /\ status' = status
    BY <1>5 DEF vars
  <2>2. Ending'
    BY <2>1, SameDisk DEF ResolverInv, Ending
  <2> QED
    BY <1>3, <2>1, <2>2 DEF TypeOK
<1> QED
  BY <1>1, <1>2, <1>4, <1>5, PickLibPathsKeeps, PickProjectKeeps, PickLibraryKeeps, ClimbKeeps,
     ClimbedKeeps, TryNextLibKeeps, FromCacheKeeps, Descended, ReturnKeeps
  DEF Next, Stopped

(* It holds at the start.                                                   *)
LEMMA InitResolverInv == Init => TypeOK /\ ResolverInv
<1> SUFFICES ASSUME Init PROVE TypeOK /\ ResolverInv
  OBVIOUS
<1>1. PICK fr : fr = resolve(root)
  OBVIOUS
<1>2. /\ disk \in Disks /\ stack = <<fr>>
      /\ parsedAST = IF root = Stdin THEN {} ELSE {root}
      /\ modules = [f \in disk.files |-> <<>>] /\ result = "none" /\ status = "running"
  BY <1>1 DEF Init
<1>3. /\ root \in disk.files /\ disk.files \subseteq PathName
      /\ Len(Imports(root)) \in Nat /\ 1 \in Lib
  <2>1. Disk(disk)
    BY <1>2, DisksAssumption
  <2>2. root \in disk.files /\ disk.files \subseteq PathName /\ Imports(root) \in Seq(Import)
    BY <2>1 DEF Disk, root, Imports
  <2>3. LibPaths \in Seq(PathName \ {<<>>}) /\ LibPaths # <<>>
    BY <2>1 DEF Disk, LibPaths
  <2> QED
    BY <2>2, <2>3, LenProperties, EmptySeq DEF Lib
<1>4. <<>> \in PathName
  BY EmptySeq DEF PathName
<1>5. /\ fr.file = root /\ fr.next = 1 /\ fr.pc = "pick" /\ fr.lib = 1 /\ fr \in Frame
  <2>1. fr = [file |-> root, next |-> 1, pc |-> "pick", dir |-> <<>>, entry |-> <<>>, lib |-> 1]
    BY <1>1 DEF resolve
  <2> QED
    BY <1>3, <1>4, <2>1 DEF Frame
<1>6. stack \in Seq(Frame) /\ stack # <<>> /\ Len(stack) = 1 /\ stack[1] = fr
  BY <1>2, <1>5
<1>7. \A f \in disk.files : modules[f] = <<>> /\ Len(modules[f]) = 0
  BY <1>2
<1>8. TypeOK
  BY <1>2, <1>3, <1>4, <1>6 DEF TypeOK
<1>9. Walk
  <2>1. Chosen(fr)
    BY <1>3, <1>5 DEF Chosen
  <2>2. 1 <= Len(Imports(root)) + 1 /\ 0 = 1 - 1
    BY <1>3
  <2>3. ASSUME NEW i \in 1..1
        PROVE  /\ i = 1 /\ stack[i].file \in parsedAST \cup {root}
               /\ stack[i].next <= Len(Imports(stack[i].file)) + 1
               /\ Len(modules[stack[i].file]) = stack[i].next - 1
               /\ Chosen(stack[i])
    BY <1>3, <1>5, <1>6, <1>7, <2>1, <2>2
  <2> QED
    BY <1>2, <1>5, <1>6, <2>3 DEF Walk
<1>10. Cache /\ Matching
  BY <1>2, <1>7 DEF Cache, Matching
<1>11. Complete
  <2>1. OnStack(root)
    <3>1. 1 \in 1..Len(stack) /\ stack[1].file = root
      BY <1>5, <1>6
    <3> QED
      BY <3>1 DEF OnStack
  <2> QED
    BY <1>2, <2>1 DEF Complete
<1> QED
  BY <1>2, <1>8, <1>9, <1>10, <1>11 DEF ResolverInv, Ending

(* Every reachable state of the import resolver is type correct.            *)
THEOREM ResolverTypeCorrect == Spec => []TypeOK
BY InitResolverInv, NextResolverInv, PTL DEF Spec

(* A file of a library is not taken for one of the project when the two     *)
(* directories lie apart.                                                   *)
LEMMA LibraryNotInProject ==
  ASSUME TypeOK, ProjectApart, NEW f \in disk.files, LibraryRoots(f) # {}
  PROVE  ~InProject(f)
<1> DEFINE d == Dir(f)
           p == projectPath
<1>1. d \in Seq(Name) /\ p \in Seq(Name) /\ Len(d) \in Nat /\ Len(p) \in Nat
  BY DiskFacts, DirFacts, LenProperties DEF PathName
<1>2. PICK k \in Lib : IsStrictPrefix(LibPaths[k], d)
  BY DEF LibraryRoots
<1>3. PICK l : l = LibPaths[k]
  OBVIOUS
<1>4. l \in Seq(Name) /\ Len(l) \in Nat \ {0} /\ \A i \in 1..Len(l) : l[i] \in Name
  BY <1>3, DiskFacts, EmptySeq, ElementOfSeq DEF PathName
<1>5. Len(l) < Len(d) /\ \A i \in 1..Len(l) : l[i] = d[i]
  BY <1>1, <1>2, <1>3, <1>4, PrefixElements
<1> SUFFICES ASSUME InProject(f) PROVE FALSE
  OBVIOUS
<1>6. p # <<>> /\ HasPrefix(d, p)
  BY DiskFacts DEF InProject
<1>7. ~HasPrefix(l, p) /\ ~HasPrefix(p, l)
  BY <1>3 DEF ProjectApart, InProject
<1> HIDE DEF d, p
<1>8. /\ Len(p) \in Nat \ {0} /\ Len(p) <= Len(d)
      /\ \A i \in 1..(Len(p) - 1) : d[i] = p[i]
      /\ <<p[Len(p)], d[Len(p)]>> \in TextPrefix
  BY <1>1, <1>6, EmptySeq DEF HasPrefix
<1>9. CASE Len(p) <= Len(l)
  <2>1. \A i \in 1..(Len(p) - 1) : l[i] = p[i]
    BY <1>4, <1>5, <1>8, <1>9
  <2>2. l[Len(p)] = d[Len(p)]
    BY <1>4, <1>5, <1>8, <1>9
  <2>3. <<p[Len(p)], l[Len(p)]>> \in TextPrefix
    BY <1>8, <2>2
  <2> QED
    BY <1>7, <1>9, <2>1, <2>3 DEF HasPrefix
<1>10. CASE Len(l) < Len(p)
  <2>1. \A i \in 1..Len(l) : i \in 1..(Len(p) - 1) /\ p[i] = l[i]
    BY <1>4, <1>5, <1>8, <1>10
  <2>2. Len(l) \in 1..Len(l) /\ l[Len(l)] \in Name
    BY <1>4
  <2>3. <<l[Len(l)], p[Len(l)]>> \in TextPrefix
    BY <2>1, <2>2, TextPrefixAssumption
  <2>4. \A i \in 1..(Len(l) - 1) : p[i] = l[i]
    BY <1>4, <2>1
  <2>5. Len(l) <= Len(p)
    BY <1>4, <1>8, <1>10
  <2> QED
    BY <1>7, <2>3, <2>4, <2>5 DEF HasPrefix
<1> QED
  BY <1>4, <1>8, <1>9, <1>10

(* Whatever failed attempts, cache hits and recursion came before: the i-th *)
(* module of a file is the one its i-th import names, in a searched         *)
(* directory, and the local imports of a file in a library stay in it.      *)
THEOREM ModulesAlwaysMatch == Spec => []ModulesMatchImports
<1>1. ASSUME TypeOK, ResolverInv PROVE ModulesMatchImports
  <2> SUFFICES ASSUME NEW f \in disk.files, NEW i \in DOMAIN modules[f]
               PROVE  FoundInSearchedDirs(f, i) /\ LocalInLibrary(f, i)
    BY DEF ModulesMatchImports
  <2>1. i \in 1..Len(modules[f])
    BY <1>1, LenProperties DEF TypeOK
  <2>2. Matches(f, i)
    BY <1>1, <2>1 DEF ResolverInv, Matching
  <2>3. LocalInLibrary(f, i)
    BY <1>1, <2>2, LibraryNotInProject DEF LocalInLibrary, Matches, StaysInLibrary
  <2> QED
    BY <2>2, <2>3 DEF Matches
<1> QED
  BY <1>1, InitResolverInv, NextResolverInv, PTL DEF Spec

(* With one library path, when resolution returns no error every program    *)
(* that the root reaches has a module for each of its imports.              *)
THEOREM OneLibResolvesAll == Spec => []AllResolvedOneLib
<1>1. ASSUME TypeOK, ResolverInv PROVE AllResolvedOneLib
  <2> SUFFICES ASSUME Len(LibPaths) = 1, status = "ok", NEW f \in Reached
               PROVE  Len(modules[f]) = Len(Imports(f))
    BY DEF AllResolvedOneLib, AllResolved
  <2>1. Walk /\ Cache /\ Complete /\ Ending
    BY <1>1 DEF ResolverInv
  <2>2. Len(stack) = 1 /\ ~HasNode(Top) /\ result = "none" /\ Top = stack[1] /\ Top.file = root
    BY <1>1, <2>1, TopFacts DEF Ending, Walk
  <2>3. Len(modules[root]) = Len(Imports(root))
    <3>1. /\ Top.next \in Nat \ {0} /\ Len(Imports(root)) \in Nat
          /\ Top.next <= Len(Imports(root)) + 1 /\ Len(modules[root]) = Top.next - 1
      BY <1>1, <2>1, <2>2, TopFacts, DiskFacts DEF Walk, Frame
    <3> QED
      BY <2>2, <3>1 DEF HasNode
  <2> DEFINE S == parsedAST \cup {root}
  <2>4. S \subseteq disk.files
    BY <1>1, DiskFacts DEF TypeOK
  <2>5. ASSUME NEW g \in S PROVE Range(modules[g]) \subseteq S
    <3>1. DOMAIN modules[g] = 1..Len(modules[g])
      BY <1>1, <2>4, LenProperties DEF TypeOK
    <3> QED
      BY <2>1, <2>4, <3>1 DEF Cache, Range
  <2>6. Reaches(S)
    BY <2>5 DEF Reaches
  <2>7. f \in S
    BY <2>4, <2>6 DEF Reached
  <2>8. CASE f = root
    BY <2>3, <2>8
  <2>9. CASE f \in parsedAST /\ OnStack(f)
    <3>1. f = root
      BY <2>2, <2>9 DEF OnStack
    <3> QED
      BY <2>3, <3>1
  <2>10. CASE f \in parsedAST /\ ~OnStack(f)
    BY <2>1, <2>2, <2>10 DEF Complete
  <2> QED
    BY <2>7, <2>8, <2>9, <2>10
<1> QED
  BY <1>1, InitResolverInv, NextResolverInv, PTL DEF Spec
=============================================================================
