------------------------------ MODULE Importer ------------------------------
(***************************************************************************)
(* The module loader of the C++ compiler (src/src/dachs/parser/importer.cpp *)
(* with the implicit imports of implicit_import.hpp).                      *)
(*                                                                         *)
(* importer_impl::import is a recursive depth-first walk: it inserts the   *)
(* file into already_imported, and for each `import` of the program it     *)
(* searches the file, skips it when its path is already in the set, and    *)
(* otherwise reads it, parses it, imports its imports, and merges the      *)
(* result into the importing program.  The C++ call stack is the variable  *)
(* stack.  Any failure throws parse_error, which unwinds every frame.      *)
(*                                                                         *)
(* A place is <<d, n>>: search directory d (in search order: system         *)
(* library, --libdir directories, directory of the source) and module name *)
(* n.  disk.path[<<d, n>>] is the path that find_path spells for it, and   *)
(* disk.denotes[p] the file on the disk that a path denotes.  Search       *)
(* directories may be spelled twice and lie in each other: with --libdir=. *)
(* the names src.b and b of one file have the paths ./src/b.dcs and        *)
(* /p/src/./b.dcs, so neither function is assumed to be one to one.        *)
(***************************************************************************)
EXTENDS Naturals, Sequences, FiniteSets, FiniteSetsExt

CONSTANTS
    NDirs,      \* number of search directories; the last one is the source's
    Name,       \* module names, 'std.range' and the like
    Path,       \* the paths that are spelled
    File,       \* the files on the disk
    Root,       \* the path of the compiled source
    Disks       \* the disks to consider

SearchDir == 1..NDirs
Place == SearchDir \X Name

(* What the walk can observe of a disk: which files exist (directories do   *)
(* not count), which of them cannot be opened, which do not parse; what a   *)
(* parsed file contains: the explicit imports, then the ones that           *)
(* implicit_import::install appends, and whether it has a main function;    *)
(* the path that the search spells for a place, and the file it denotes.    *)
Disk == [hasMain : SUBSET File, files : SUBSET File,
         locked : SUBSET File, broken : SUBSET File,
         explicit : [File -> Seq(Name)], implicit : [File -> Seq(Name)],
         path : [Place -> Path], denotes : [Path -> File]]

ASSUME NDirsAssumption == NDirs \in Nat \ {0}
ASSUME RootAssumption == Root \in Path
ASSUME DisksAssumption == Disks \subseteq Disk

VARIABLES
    disk,       \* the file system, never written by the importer
    stack,      \* the frames of importer_impl::import, innermost last
    already,    \* already_imported
    status      \* "running", "done", or the error that was thrown

vars == <<disk, stack, already, status>>

FileOf(p) == disk.denotes[p]

-----------------------------------------------------------------------------
(* implicit_import::install pushes the implicit imports behind the explicit *)
(* ones, so program->imports is this sequence.                              *)
Imports(p) == disk.explicit[FileOf(p)] \o disk.implicit[FileOf(p)]

(* find_path: the directories of the search order that hold the module; the *)
(* first of them wins.                                                      *)
Candidates(n) == {d \in SearchDir : FileOf(disk.path[<<d, n>>]) \in disk.files}
find_pathNearest(n) ==    \* mutant: the directory of the importing file first
    LET own == {d \in Candidates(n) : \E m \in Name :
                  disk.path[<<d, m>>] = stack[Len(stack)].file}
    IN  disk.path[<<Min(IF own = {} THEN Candidates(n) ELSE own), n>>]
find_path(n) == disk.path[<<Min(Candidates(n)), n>>]

(* A parsed program: how many copies of the definitions (global constants,  *)
(* classes and functions other than main) read from each path it holds, and *)
(* the paths whose main function it holds.                                  *)
Program == [defs : [Path -> Nat], mains : SUBSET Path]
parse(p) == [defs |-> [q \in Path |-> IF q = p THEN 1 ELSE 0],
             mains |-> IF FileOf(p) \in disk.hasMain THEN {p} ELSE {}]

mergeNothing(lhs, rhs) == lhs    \* mutant: the imported program is lost
(* merge: every definition of rhs is moved to lhs, its main is dropped.     *)
merge(lhs, rhs) == [defs |-> [q \in Path |-> lhs.defs[q] + rhs.defs[q]],
                    mains |-> lhs.mains]

(* A frame of import(program, file): the loop over program->imports.        *)
Frame == [file : Path, next : Nat \ {0}, program : Program]
import(p) == [file |-> p, next |-> 1, program |-> parse(p)]

Top == stack[Len(stack)]
HasImport == Top.next <= Len(Imports(Top.file))
Wanted == Imports(Top.file)[Top.next]
Advance(s) == [s EXCEPT ![Len(s)].next = @ + 1]
Resume(frame, rhs) == [file |-> frame.file, next |-> frame.next + 1,
                       program |-> merge(frame.program, rhs)]

Init ==
    /\ disk \in Disks
    /\ stack = <<import(Root)>>
    /\ already = {Root}
    /\ status = "running"

-----------------------------------------------------------------------------
(* The thrown parse_error unwinds the whole walk.                           *)
Throw(what) ==
    /\ status' = what
    /\ UNCHANGED <<disk, stack, already>>

(* The loop reaches the next import of the innermost program.               *)
AtImport == status = "running" /\ HasImport

(* find_path finds no candidate and calls error().                          *)
NotFound ==
    /\ AtImport
    /\ Candidates(Wanted) = {}
    /\ Throw("not_found")

SkipForever ==    \* mutant: the loop does not advance
    /\ AtImport
    /\ Candidates(Wanted) # {}
    /\ find_path(Wanted) \in already
    /\ UNCHANGED vars

(* The path was imported before: continue.                                  *)
SkipImported ==
    /\ AtImport
    /\ Candidates(Wanted) # {}
    /\ find_path(Wanted) \in already
    /\ stack' = Advance(stack)
    /\ UNCHANGED <<disk, already, status>>

Unseen ==
    /\ AtImport
    /\ Candidates(Wanted) # {}
    /\ find_path(Wanted) \notin already

(* read_file fails.                                                         *)
CannotOpen ==
    /\ Unseen
    /\ FileOf(find_path(Wanted)) \in disk.locked
    /\ Throw("cannot_open")

(* file_parser.parse throws; each frame reports and rethrows.               *)
ParseError ==
    /\ Unseen
    /\ FileOf(find_path(Wanted)) \in disk.broken \ disk.locked
    /\ Throw("parse_error")

EnterUnmarked ==    \* mutant: the path is not inserted into already_imported
    /\ Unseen
    /\ FileOf(find_path(Wanted)) \notin disk.locked \cup disk.broken
    /\ stack' = Append(stack, import(find_path(Wanted)))
    /\ UNCHANGED <<disk, already, status>>

(* parse() succeeds and calls import(ast.root, p), which inserts p.         *)
Enter ==
    /\ Unseen
    /\ FileOf(find_path(Wanted)) \notin disk.locked \cup disk.broken
    /\ stack' = Append(stack, import(find_path(Wanted)))
    /\ already' = already \cup {find_path(Wanted)}
    /\ UNCHANGED <<disk, status>>

(* The loop is over: the imported program is returned and merged into the   *)
(* program that imports it, whose loop goes on.                             *)
Leave ==
    /\ status = "running"
    /\ ~HasImport
    /\ Len(stack) > 1
    /\ stack' = Append(SubSeq(stack, 1, Len(stack) - 2),
                       Resume(stack[Len(stack) - 1], Top.program))
    /\ UNCHANGED <<disk, already, status>>

(* The loop over the imports of the compiled source is over.                *)
Finish ==
    /\ status = "running"
    /\ ~HasImport
    /\ Len(stack) = 1
    /\ status' = "done"
    /\ UNCHANGED <<disk, stack, already>>

(* The compiler goes on with the program, or reports the error.             *)
Stopped == status # "running" /\ UNCHANGED vars

Next == NotFound \/ SkipImported \/ CannotOpen \/ ParseError \/ Enter
          \/ Leave \/ Finish \/ Stopped

Spec == Init /\ [][Next]_vars /\ WF_vars(Next)

-----------------------------------------------------------------------------
Status == {"running", "done", "not_found", "cannot_open", "parse_error"}

(* The type invariant of the walk.                                          *)
TypeOK ==
    /\ disk \in Disk
    /\ stack \in Seq(Frame)
    /\ stack # <<>>
    /\ already \subseteq Path
    /\ status \in Status

Merged == stack[1].program

(* The edges of the import graph, as find_path resolves them.               *)
Needs(p) == {find_path(Imports(p)[i]) :
               i \in {j \in DOMAIN Imports(p) : Candidates(Imports(p)[j]) # {}}}
Closed(S) == Root \in S /\ \A p \in S : Needs(p) \subseteq S

(* How many copies of the definitions of p the program of frame i holds.    *)
Copies(i, p) == stack[i].program.defs[p]

(* Why the walk is right: a path is held by the program of exactly one      *)
(* frame, once, from the moment it is marked; only what the imports reach   *)
(* is marked; a frame has marked the imports it has passed and waits for    *)
(* the frame above it; and a marked path without a frame is complete.       *)
HeldOnce ==
    /\ \A i \in DOMAIN stack : \A p \in Path :
         /\ Copies(i, p) <= 1
         /\ Copies(i, p) = 1 => p \in already
         /\ \A j \in DOMAIN stack : Copies(i, p) = 1 /\ Copies(j, p) = 1 => i = j
    /\ \A p \in already : \E i \in DOMAIN stack : Copies(i, p) = 1
OnlyReachable == Root \in already /\ \A T \in SUBSET Path : Closed(T) => already \subseteq T
Passed(f) == {Imports(f.file)[k] : k \in 1..(f.next - 1)}
PassedMarked ==
    \A i \in DOMAIN stack :
        /\ stack[i].file \in already
        /\ stack[i].next <= Len(Imports(stack[i].file)) + 1
        /\ \A n \in Passed(stack[i]) : Candidates(n) # {} => find_path(n) \in already
Waiting ==
    \A i \in DOMAIN stack : i # Len(stack) =>
        /\ stack[i].next <= Len(Imports(stack[i].file))
        /\ find_path(Imports(stack[i].file)[stack[i].next]) = stack[i + 1].file
Complete ==
    \A p \in already : (\A i \in DOMAIN stack : stack[i].file # p) => Needs(p) \subseteq already
WalkInv ==
    /\ HeldOnce /\ OnlyReachable /\ PassedMarked /\ Waiting /\ Complete
    /\ status = "done" => Len(stack) = 1 /\ ~HasImport

(* When the walk succeeds, the program that the compiler analyses holds the *)
(* definitions behind every path the imports reach, exactly once, however   *)
(* the imports are shared, repeated or cyclic, and behind no other path:    *)
(* the paths it holds are the least set that has the root and the paths of  *)
(* all imports of its members.                                              *)
ImportsExactlyReachable ==
    status = "done" =>
        /\ \A p \in Path : Merged.defs[p] <= 1
        /\ LET S == {p \in Path : Merged.defs[p] = 1}
           IN Closed(S) /\ \A T \in SUBSET Path : Closed(T) => S \subseteq T

(* No program under construction, and no two of them together, ever hold    *)
(* two copies of the definitions read from one path: a path is parsed for   *)
(* one frame only and its definitions are moved, never copied, when that    *)
(* frame returns.                                                           *)
NoDuplicateDefinitions ==
    \A i, j \in DOMAIN stack : \A p \in Path :
        /\ stack[i].program.defs[p] <= 1
        /\ i # j => stack[i].program.defs[p] + stack[j].program.defs[p] <= 1

(* The names by which the files of the walk import the file f.              *)
NamesOf(f) ==
    {n \in Name : /\ Candidates(n) # {}
                  /\ FileOf(find_path(n)) = f
                  /\ \E p \in already : \E i \in DOMAIN Imports(p) : Imports(p)[i] = n}

(* A file that the walk imports by one name is loaded once, whoever imports *)
(* it and however many search directories lead to it: the path depends on   *)
(* the name only, and already_imported holds paths.  A file imported by two *)
(* names, which nested search directories give it, is loaded once for every *)
(* path that they spell.  The root, which was opened under the spelling of  *)
(* the command line, can also be loaded as an import.                       *)
OncePerFile ==
    \A p, q \in Path \ {Root} :
        /\ Merged.defs[p] > 0 /\ Merged.defs[q] > 0
        /\ FileOf(p) = FileOf(q)
        /\ \A m, n \in NamesOf(FileOf(p)) : m = n
        => p = q

(* The walk ends on every disk, cyclic imports included.                    *)
Termination == <>(status # "running")
=============================================================================
