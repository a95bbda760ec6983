---------------------------- MODULE MCTokenPipe ----------------------------
(***************************************************************************)
(* Instances of TokenPipe for TLC: every stream of at most MaxTokens       *)
(* tokens before the verdict, with every way the grammar can take it.      *)
(***************************************************************************)
EXTENDS TokenPipe

CONSTANTS MaxTokens

MCKinds == {Append(s, v) : s \in SeqOf({"WORD", "COMMENT", "NEWLINE"}, MaxTokens),
                           v \in Verdict}
MCSources ==
    UNION {{s \in [kinds : {k}, rejectAt : 0..Len(k), reports : SUBSET (1..Len(k)),
                   skipAfter : SUBSET (1..Len(k))] : IsSource(s)} : k \in MCKinds}
=============================================================================
