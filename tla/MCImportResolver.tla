-------------------------- MODULE MCImportResolver --------------------------
(***************************************************************************)
(* Instances of ImportResolver for TLC.  The project is /p with the root   *)
(* /p/a; the library paths are /l and /k, and m is a library in them.      *)
(***************************************************************************)
EXTENDS ImportResolver

MCName == {"p", "p2", "l", "k", "m", "a", "b"}
MCTextPrefix == {<<c, c>> : c \in MCName} \cup {<<"p", "p2">>}

Local(p) == [local |-> TRUE, parents |-> p]
External(p) == [local |-> FALSE, parents |-> p]

(* Disks on which the root has up to two of the imports in R, and any other *)
(* file f is absent, does not parse, or has up to one of the imports in     *)
(* I[f].                                                                    *)
Content(I) == {[kind |-> k, imports |-> <<>>] : k \in {"absent", "broken"}}
                \cup {[kind |-> "parses", imports |-> i] : i \in SeqOf(I, 1)}
Contents(I) == {c \in [DOMAIN I -> Content(UNION Range(I))] :
                  \A f \in DOMAIN I : c[f] \in Content(I[f])}
DiskOf(libs, rt, r, c) ==
    LET F == {f \in DOMAIN c : c[f].kind # "absent"}
    IN  [libPaths |-> libs, root |-> rt,
         files |-> {rt} \cup F,
         parses |-> {f \in F : c[f].kind = "parses"},
         imports |-> [f \in {rt} \cup F |-> IF f = rt THEN r ELSE c[f].imports]]
DisksOf(libs, rt, R, I) ==
    {DiskOf(libs, rt, r, c) : r \in SeqOf(R, 2), c \in Contents(I)}

(* One library path.  Library files are below a library directory, except   *)
(* /l/a, which has no local import.                                         *)
OneLib == << <<"l">> >>
OneLibImports ==
    <<"p", "b">> :> {Local(<<"a">>), External(<<"m", "a">>)}
    @@ <<"l", "m", "a">> :> {Local(<<"m", "b">>), Local(<<"a">>), External(<<"a">>)}
    @@ <<"l", "m", "m", "b">> :> {Local(<<"a">>)}
    @@ <<"l", "a">> :> {External(<<"m", "a">>)}
OneLibDisks ==
    UNION {DisksOf(OneLib, r, {Local(<<"b">>), External(<<"m", "a">>), External(<<"a">>)},
                   OneLibImports) : r \in {<<"p", "a">>, Stdin}}

(* Two library paths that both may hold the library m.                      *)
TwoLibs == << <<"l">>, <<"k">> >>
TwoLibsImports ==
    <<"l", "m", "a">> :> {Local(<<"b">>), External(<<"m", "b">>)}
    @@ <<"l", "m", "b">> :> {Local(<<"a">>), External(<<"m", "a">>)}
    @@ <<"k", "m", "a">> :> {Local(<<"b">>), External(<<"m", "b">>)}
    @@ <<"k", "m", "b">> :> {Local(<<"a">>), External(<<"m", "a">>)}
TwoLibsDisks ==
    DisksOf(TwoLibs, <<"p", "a">>, {External(<<"m", "a">>), External(<<"m", "b">>)},
            TwoLibsImports)

(* The library path /p2 lies beside the project /p: its text starts with    *)
(* the text of the project path.                                            *)
SiblingDisks ==
    DisksOf(<< <<"p2">> >>, <<"p", "a">>, {External(<<"m", "a">>)},
            <<"p2", "m", "a">> :> {Local(<<"b">>)}
            @@ <<"p2", "m", "b">> :> {} @@ <<"p", "b">> :> {})

(* A module directly in the library path, as foo.dcs of `import foo.*`,     *)
(* with a local import.                                                     *)
FlatDisks ==
    DisksOf(OneLib, <<"p", "a">>, {External(<<"a">>)},
            <<"l", "a">> :> {Local(<<"b">>)} @@ <<"l", "b">> :> {})

(* Library paths /p and /p2 for a source from stdin: the file in /p2 is     *)
(* taken for one in /p.                                                     *)
SiblingLibsDisks ==
    DisksOf(<< <<"p">>, <<"p2">> >>, Stdin, {External(<<"m", "a">>)},
            <<"p", "m", "a">> :> {Local(<<"b">>)} @@ <<"p", "m", "b">> :> {}
            @@ <<"p2", "m", "a">> :> {Local(<<"b">>)} @@ <<"p2", "m", "b">> :> {})

(* The project /l/m/p inside of the library path /l.                        *)
InsideDisks ==
    DisksOf(OneLib, <<"l", "m", "p", "a">>, {Local(<<"b">>), External(<<"m", "a">>)},
            <<"l", "m", "p", "b">> :> {Local(<<"a">>)}
            @@ <<"l", "m", "a">> :> {Local(<<"b">>)} @@ <<"l", "m", "b">> :> {})

AllDisks == OneLibDisks \cup TwoLibsDisks \cup SiblingDisks \cup FlatDisks
              \cup SiblingLibsDisks \cup InsideDisks
=============================================================================
