--------------------------- MODULE ParseContract ---------------------------
(***************************************************************************)
(* What syntax.Parse and Driver.Lex promise their callers, without tokens, *)
(* channel and goroutine: one answer, that depends on the source only      *)
(* except that a source with both a syntax error and a later lexical error *)
(* may be answered with either.                                            *)
(***************************************************************************)
EXTENDS Naturals, Sequences

VARIABLES
    source,     \* what the parser and the lexer make of the source
    mode,       \* "parse" for syntax.Parse, "tokens" for Driver.Lex
    result      \* "none" until the call returns

vars == <<source, mode, result>>

(* The last token of the stream is ILLEGAL; the grammar stops at rejectAt,  *)
(* if at all; some semantic action reports an error before that.            *)
End == Len(source.kinds)
LexicalError == source.kinds[End] = "ILLEGAL"
EarlyStop == source.rejectAt \in 1..(End - 1)

Answers ==
    IF mode = "tokens" THEN {IF LexicalError THEN "lex_error" ELSE "tokens"}
    ELSE IF LexicalError
         THEN {"lex_error"} \cup (IF EarlyStop THEN {"parse_error"} ELSE {})
    ELSE IF source.rejectAt # 0 \/ source.reports # {} THEN {"parse_error"}
    ELSE {"program"}

Init == result = "none"
Return == result = "none" /\ result' \in Answers /\ UNCHANGED <<source, mode>>
Spec == Init /\ [][Return]_vars /\ WF_vars(Return)
=============================================================================
