----------------------------- MODULE MCImporter -----------------------------
(***************************************************************************)
(* Instances of Importer for TLC: three modules that import each other     *)
(* freely from one directory, modules found in directories of which one is *)
(* spelled twice, and search directories that lie in each other.           *)
(***************************************************************************)
EXTENDS Importer, SequencesExt

CONSTANTS a, b, c

MCName == {a, b, c}
MCPath == (1..3) \X MCName
MCFile == {"lib", "src"} \X MCName
MCRoot == <<3, a>>
Main == <<"src", a>>
Spelled == [p \in MCPath |-> p]    \* every place has a path of its own
Within(dirs) == [p \in MCPath |-> <<dirs[p[1]], p[2]>>]

(* All files are in the directory of the source: 'a' is the compiled        *)
(* source, 'c' plays the library module that is imported implicitly.        *)
GraphFile == {"src"} \X MCName
GraphDisks ==
    {[hasMain |-> GraphFile, files |-> F, locked |-> L, broken |-> B,
      explicit |-> [f \in MCFile |-> IF f \in GraphFile THEN E[f] ELSE <<>>],
      implicit |-> [f \in MCFile |-> IF f \in I THEN <<c>> ELSE <<>>],
      path |-> Spelled, denotes |-> Within(<<"lib", "lib", "src">>)] :
        F \in {G \in SUBSET GraphFile : Main \in G},
        L \in {{}, {<<"src", b>>}}, B \in {{}, {<<"src", c>>}},
        E \in {e \in [GraphFile -> SeqOf(MCName, 2)] : Len(e[<<"src", c>>]) <= 1},
        I \in {{}, {Main}}}

(* The directory of the source is spelled twice: as --libdir and as the     *)
(* place of the source.                                                     *)
Twice == [path |-> Spelled, denotes |-> Within(<<"lib", "src", "src">>)]

(* --libdir=. and a source in ./src: 'c' is the name src.b, so that it has  *)
(* the file ./src/b.dcs under '.', which 'b' has in the source's directory. *)
Nested == [path |-> Spelled,
           denotes |-> [Within(<<"lib", "lib", "src">>) EXCEPT ![<<2, c>>] = <<"src", b>>]]

(* --libdir=./src before --libdir=.: then both names of the file are spelled *)
(* alike, and it has one path.                                              *)
Shared == [path |-> [Spelled EXCEPT ![<<2, c>>] = <<1, b>>],
           denotes |-> Within(<<"src", "lib", "src">>)]

Other == {<<"lib", b>>, <<"src", b>>, <<"src", c>>}
LayoutDisks ==
    {[hasMain |-> {Main}, files |-> {Main} \cup F, locked |-> {}, broken |-> {},
      explicit |-> [f \in MCFile |-> IF f = Main THEN r
                                    ELSE IF f \in F THEN E[f] ELSE <<>>],
      implicit |-> [f \in MCFile |-> <<>>],
      path |-> L.path, denotes |-> L.denotes] :
        L \in {Twice, Nested, Shared}, F \in SUBSET Other,
        r \in SeqOf(MCName, 2), E \in [Other -> SeqOf(MCName, 1)]}

MCDisks == GraphDisks \cup LayoutDisks
=============================================================================
