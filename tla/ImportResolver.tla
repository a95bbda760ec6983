--------------------------- MODULE ImportResolver ---------------------------
(***************************************************************************)
(* The import resolver of the new compiler (next/compiler/syntax/import.go).*)
(*                                                                         *)
(* resolve(prog) enters prog into the cache parsedAST, and then resolves   *)
(* the imports of prog in order.  A local import (`import .foo.bar`) is    *)
(* looked up in the project, or in the library the importing file belongs  *)
(* to; any other import is tried in every library path in turn, until one  *)
(* of them succeeds.  A module that is in the cache is taken from it;      *)
(* otherwise the file is read, parsed and resolved recursively.  The Go    *)
(* call stack is the variable stack; result is what the call that just     *)
(* returned returned.                                                      *)
(*                                                                         *)
(* A directory or file is the sequence of the components of its absolute   *)
(* path.  Files have no extension here: foo.dcs and foo/ are told apart by  *)
(* their use.  What a module exposes, and under which name space, has no    *)
(* influence on the walk and is left out.                                   *)
(***************************************************************************)
EXTENDS Naturals, Sequences, SequencesExt

CONSTANTS
    Name,         \* path components
    TextPrefix,   \* <<c, d>> \in TextPrefix: the text of d starts with c
    Disks         \* the disks to consider

PathName == Seq(Name)
Import == [local : BOOLEAN, parents : PathName]

(* A source that is read from stdin has no place in the file system.        *)
Stdin == <<>>

ASSUME TextPrefixAssumption ==
    /\ TextPrefix \subseteq Name \X Name
    /\ \A c \in Name : <<c, c>> \in TextPrefix

(* A disk: the library paths (the default one and those of DACHS_LIB_PATH), *)
(* the compiled source, which has been parsed before, the files that can be *)
(* read, those that parse, and the imports of each parsed file.             *)
Disk(d) ==
    /\ d.libPaths \in Seq(PathName \ {<<>>}) /\ d.libPaths # <<>>
    /\ d.root \in d.files /\ (d.root = Stdin \/ Len(d.root) > 1)
    /\ d.files \in SUBSET PathName /\ d.parses \in SUBSET PathName
    /\ DOMAIN d.imports = d.files
    /\ \A f \in d.files : d.imports[f] \in Seq(Import)
ASSUME DisksAssumption == \A d \in Disks : Disk(d)

VARIABLES
    disk,       \* the compiled source and the file system, never written
    stack,      \* the frames of resolve, innermost last
    parsedAST,  \* the files whose program is in the cache
    modules,    \* modules[f]: the files behind the Modules field of f
    result,     \* "none", or "error" while an error is returned to a frame
    status      \* "running", "ok" or "failed"

vars == <<disk, stack, parsedAST, modules, result, status>>

-----------------------------------------------------------------------------
(* filepath.Dir and filepath.Split; the root directory is its own parent.   *)
Dir(f) == IF f = <<>> THEN <<>> ELSE Front(f)
Entry(f) == IF f = <<>> THEN <<>> ELSE <<Last(f)>>

(* filepath.HasPrefix compares texts, not path components.                  *)
HasPrefix(d, p) ==
    /\ Len(p) <= Len(d)
    /\ \A i \in 1..(Len(p) - 1) : d[i] = p[i]
    /\ <<p[Len(p)], d[Len(p)]>> \in TextPrefix

LibPaths == disk.libPaths
Lib == DOMAIN LibPaths
root == disk.root
projectPath == Dir(root)
Imports(f) == disk.imports[f]

(* A frame of resolve(prog): the loop over the imports, and the state of    *)
(* resolveImport for the current one.  "pick": the search has to be chosen, *)
(* "climb": findRelativePath climbs from dir to the library path lib,       *)
(* "try": resolveInDir(dir, node) is next, or returns to this frame.        *)
resolve(f) == [file |-> f, next |-> 1, pc |-> "pick",
               dir |-> <<>>, entry |-> <<>>, lib |-> 1]

Top == Last(stack)
SetTop(f) == stack' = Append(Front(stack), f)
HasImport == Top.next <= Len(Imports(Top.file))
Node == Imports(Top.file)[Top.next]
Target == Top.dir \o Node.parents
At(pc) == status = "running" /\ result = "none" /\ HasImport /\ Top.pc = pc

(* ResolveImports(root): the first call of resolve.                         *)
Init ==
    /\ disk \in Disks
    /\ stack = <<resolve(root)>>
    /\ parsedAST = IF root = Stdin THEN {} ELSE {root}
    /\ modules = [f \in disk.files |-> <<>>]
    /\ result = "none"
    /\ status = "running"

-----------------------------------------------------------------------------
(* resolveImport and findRelativePath choose where to search.               *)
InProject(f) == root # Stdin /\ HasPrefix(Dir(f), projectPath)
LibsOf(f) == {k \in Lib : HasPrefix(Dir(f), LibPaths[k])}

PickLibPaths ==
    /\ At("pick")
    /\ ~Node.local
    /\ SetTop([Top EXCEPT !.pc = "try", !.dir = LibPaths[1], !.lib = 1])
    /\ UNCHANGED <<disk, parsedAST, modules, result, status>>

PickProject ==
    /\ At("pick")
    /\ Node.local /\ InProject(Top.file)
    /\ SetTop([Top EXCEPT !.pc = "try", !.dir = projectPath])
    /\ UNCHANGED <<disk, parsedAST, modules, result, status>>

(* Mutant: one filepath.Split too many before the loop.                     *)
PickLibraryTooHigh ==
    /\ At("pick")
    /\ Node.local /\ ~InProject(Top.file)
    /\ LibsOf(Top.file) # {}
    /\ SetTop([Top EXCEPT !.pc = "climb", !.lib = Min(LibsOf(Top.file)),
                          !.dir = Dir(Dir(Dir(Top.file))),
                          !.entry = Entry(Dir(Dir(Top.file)))])
    /\ UNCHANGED <<disk, parsedAST, modules, result, status>>

PickLibrary ==
    /\ At("pick")
    /\ Node.local /\ ~InProject(Top.file)
    /\ LibsOf(Top.file) # {}
    /\ SetTop([Top EXCEPT !.pc = "climb", !.lib = Min(LibsOf(Top.file)),
                          !.dir = Dir(Dir(Top.file)),
                          !.entry = Entry(Dir(Top.file))])
    /\ UNCHANGED <<disk, parsedAST, modules, result, status>>

(* The loop of findRelativePath: up until dir is the library path.          *)
Climb ==
    /\ At("climb")
    /\ Top.dir # LibPaths[Top.lib]
    /\ SetTop([Top EXCEPT !.dir = Dir(@), !.entry = Entry(Top.dir)])
    /\ UNCHANGED <<disk, parsedAST, modules, result, status>>

(* Mutants: the entry of the library is dropped; the first library path is  *)
(* joined instead of the one that was climbed to.                           *)
ClimbedNoEntry ==
    /\ At("climb")
    /\ Top.dir = LibPaths[Top.lib]
    /\ SetTop([Top EXCEPT !.pc = "try"])
    /\ UNCHANGED <<disk, parsedAST, modules, result, status>>

ClimbedFirstLib ==
    /\ At("climb")
    /\ Top.dir = LibPaths[Top.lib]
    /\ SetTop([Top EXCEPT !.pc = "try", !.dir = LibPaths[1] \o Top.entry])
    /\ UNCHANGED <<disk, parsedAST, modules, result, status>>

Climbed ==
    /\ At("climb")
    /\ Top.dir = LibPaths[Top.lib]
    /\ SetTop([Top EXCEPT !.pc = "try", !.dir = @ \o Top.entry])
    /\ UNCHANGED <<disk, parsedAST, modules, result, status>>

(* resolve returns err: ResolveImports fails with it, or resolveInDir of    *)
(* the frame below returns it.                                              *)
ReturnError ==
    /\ IF Len(stack) = 1
       THEN status' = "failed" /\ UNCHANGED <<stack, result>>
       ELSE stack' = Front(stack) /\ result' = "error" /\ UNCHANGED status
    /\ UNCHANGED <<disk, parsedAST, modules>>

(* findRelativePath fails: the file is in no library and not in the project.*)
NoPlace ==
    /\ At("pick")
    /\ Node.local /\ ~InProject(Top.file)
    /\ LibsOf(Top.file) = {}
    /\ ReturnError

-----------------------------------------------------------------------------
(* resolveInDir fails at once: a file imports itself, cannot be read or     *)
(* does not parse.                                                          *)
Myself == Top.file = Target
Cached == ~Myself /\ Target \in parsedAST
Readable == Target \in disk.files
CannotResolve ==
    \/ Myself
    \/ Target \notin parsedAST /\ (~Readable \/ Target \notin disk.parses)

(* resolveInDir(dir, node) fails, at once or in the recursive call.         *)
TryFails ==
    /\ status = "running"
    /\ result = "error" \/ (At("try") /\ CannotResolve)

(* The loop of resolveImport goes on with the next library path.            *)
TryNextLib ==
    /\ TryFails
    /\ ~Node.local /\ Top.lib < Len(LibPaths)
    /\ SetTop([Top EXCEPT !.lib = @ + 1, !.dir = LibPaths[Top.lib + 1]])
    /\ result' = "none"
    /\ UNCHANGED <<disk, parsedAST, modules, status>>

(* Mutant: the error is dropped and the loop goes on with the next import.  *)
GiveUpContinues ==
    /\ TryFails
    /\ Node.local \/ Top.lib = Len(LibPaths)
    /\ SetTop([resolve(Top.file) EXCEPT !.next = Top.next + 1])
    /\ result' = "none"
    /\ UNCHANGED <<disk, parsedAST, modules, status>>

(* A local import is tried once; the last library path has failed.          *)
GiveUp ==
    /\ TryFails
    /\ Node.local \/ Top.lib = Len(LibPaths)
    /\ ReturnError

NextImportStays(frame) == resolve(frame.file)    \* mutant: no advance

(* prog.Modules = append(prog.Modules, mod), and the next import.           *)
NextImport(frame) == [resolve(frame.file) EXCEPT !.next = frame.next + 1]
AddModule(f, mod) == modules' = [modules EXCEPT ![f] = Append(@, mod)]

FromCache ==
    /\ At("try") /\ Cached
    /\ AddModule(Top.file, Target)
    /\ SetTop(NextImport(Top))
    /\ UNCHANGED <<disk, parsedAST, result, status>>

(* The file is read and parsed, and resolve(prog) caches it.                *)
Descend ==
    /\ At("try") /\ ~Myself /\ ~Cached
    /\ Readable /\ Target \in disk.parses
    /\ stack' = Append(stack, resolve(Target))
    /\ parsedAST' = parsedAST \cup {Target}
    /\ UNCHANGED <<disk, modules, result, status>>

(* resolve returns nil; resolveInDir of the frame below returns the module. *)
Return ==
    /\ status = "running" /\ result = "none"
    /\ ~HasImport
    /\ Len(stack) > 1
    /\ LET below == Last(Front(stack))
       IN /\ AddModule(below.file, Top.file)
          /\ stack' = Append(Front(Front(stack)), NextImport(below))
    /\ UNCHANGED <<disk, parsedAST, result, status>>

Succeed ==
    /\ status = "running" /\ result = "none"
    /\ ~HasImport
    /\ Len(stack) = 1
    /\ status' = "ok"
    /\ UNCHANGED <<disk, stack, parsedAST, modules, result>>

Stopped == status # "running" /\ UNCHANGED vars

Next == PickLibPaths \/ PickProject \/ PickLibrary \/ Climb \/ Climbed \/ NoPlace
          \/ TryNextLib \/ GiveUp \/ FromCache \/ Descend \/ Return \/ Succeed
          \/ Stopped

Spec == Init /\ [][Next]_vars /\ WF_vars(Next)

-----------------------------------------------------------------------------
(* What the imports of the whole program reach.                             *)
Reaches(S) == root \in S /\ \A f \in S : Range(modules[f]) \subseteq S
Reached == {f \in disk.files : \A S \in SUBSET disk.files : Reaches(S) => f \in S}

(* "ResolveImports resolves all `import` statements in the program          *)
(* recursively": when it returns no error, every program that the root      *)
(* reaches through Modules has a module for each of its imports.            *)
AllResolved ==
    status = "ok" =>
        \A f \in Reached : Len(modules[f]) = Len(Imports(f))

(* The same where no failed attempt is followed by another one: with a      *)
(* single library path, an import that fails fails the whole resolution.    *)
AllResolvedOneLib == Len(LibPaths) = 1 => AllResolved

SearchedDirs == {LibPaths[k] : k \in Lib} \cup {projectPath}
                  \cup UNION {{LibPaths[k] \o <<c>> : c \in Name} : k \in Lib}
FoundInSearchedDirs(f, i) ==
    /\ i \in DOMAIN Imports(f)
    /\ \E d \in SearchedDirs : modules[f][i] = d \o Imports(f)[i].parents
    /\ modules[f][i] # f

(* The directory a file belongs to, by path components: its library (the    *)
(* entry of the library path that holds it).                                *)
LibraryRoots(f) == {LibPaths[k] \o <<f[Len(LibPaths[k]) + 1]>> :
                      k \in {j \in Lib : IsStrictPrefix(LibPaths[j], Dir(f))}}

(* The project is in no library and no library in the project; by their     *)
(* texts, because a library path whose text starts with the text of the     *)
(* project path is taken for a part of the project.                         *)
ProjectApart ==
    root # Stdin => \A k \in Lib : /\ ~HasPrefix(LibPaths[k], projectPath)
                                 /\ ~HasPrefix(projectPath, LibPaths[k])

LocalInLibrary(f, i) ==
    Imports(f)[i].local /\ ProjectApart /\ LibraryRoots(f) # {}
    => \E r \in LibraryRoots(f) : modules[f][i] = r \o Imports(f)[i].parents

(* The i-th module is the file that the i-th import names in some searched  *)
(* directory, whatever failed attempts, cache hits and recursion came       *)
(* before it was appended; and "relative import path `.foo.bar` in a        *)
(* library should be resolved as a relative path to the root of the         *)
(* library": the local imports of a file in a library stay in it.           *)
ModulesMatchImports ==
    \A f \in disk.files : \A i \in DOMAIN modules[f] :
        FoundInSearchedDirs(f, i) /\ LocalInLibrary(f, i)

(* The walk ends: ResolveImports returns on every disk, unless a file has a *)
(* local import and lies directly in the library path that is chosen for    *)
(* it, or in none but its text starts with that of one: the loop that       *)
(* climbs to the library path misses it then, and does not end.             *)
ClimbsArrive ==
    \A f \in disk.files :
        (\E i \in DOMAIN Imports(f) : Imports(f)[i].local) /\ LibsOf(f) # {} =>
            IsStrictPrefix(LibPaths[Min(LibsOf(f))], Dir(f))
TerminationWhereClimbsArrive == ClimbsArrive ~> status # "running"
=============================================================================
