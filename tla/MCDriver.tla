------------------------------ MODULE MCDriver ------------------------------
(***************************************************************************)
(* Instances of Driver for TLC.  a.dcs and dir/a.dcs have one base name.   *)
(***************************************************************************)
EXTENDS Driver

CONSTANTS
    p1, p2,
    MaxArgs     \* length of the command lines of a single process

MCFile == {"a.dcs", "b.dcs", "dir/a.dcs"}
MCBaseOf == [f \in MCFile |-> IF f = "b.dcs" THEN "b" ELSE "a"]

Option == Actions \cup Flags \cup {"--run", "--help", "--other"}
Given(a) == ToSet(a) \cap MCFile
Lines(sources) == {a \in SeqOf(sources \cup Option, MaxArgs) : Given(a) # {} \/ Len(a) < 2}

(* Defects of the sources that are named; the others do not matter.         *)
DefectsOf(files) == {d \in [MCFile -> Defects] : \A f \in MCFile \ files : d[f] = "none"}
With(args, defects, relative) ==
    [args : {args}, defect : defects, relative : relative]
Nowhere == [p \in Proc |-> FALSE]

(* One process with every short command line, the other one does nothing.   *)
Single == UNION {With([p \in Proc |-> IF p = p1 THEN a ELSE <<>>], DefectsOf(Given(a)),
                      IF "--run" \in ToSet(a) THEN {Nowhere, [p \in Proc |-> TRUE]} ELSE {Nowhere}) : a \in Lines({"a.dcs", "b.dcs"})}

(* Two sources of one base name.                                            *)
SameBase == UNION {With([p \in Proc |-> IF p = p1 THEN <<"a.dcs", "dir/a.dcs">> \o a ELSE <<>>],
                        {[f \in MCFile |-> "none"]}, {Nowhere}) : a \in {<<>>, <<"--run">>, <<"--output-obj">>}}

(* Two processes at once.                                                   *)
Job == {<<"a.dcs">>, <<"a.dcs", "--run">>, <<"b.dcs", "--run">>, <<"b.dcs", "a.dcs">>,
        <<"dir/a.dcs", "--run">>, <<"--output-obj", "b.dcs">>}
Together == UNION {With([p \in Proc |-> IF p = p1 THEN a ELSE b],
                        {d \in DefectsOf(Given(a) \cup Given(b)) : \A f \in MCFile : d[f] \in {"none", "syntax"}},
                        {Nowhere}) : a \in Job, b \in Job}

MCScenarios == Single \cup SameBase \cup Together
=============================================================================
