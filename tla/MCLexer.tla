------------------------------ MODULE MCLexer ------------------------------
(***************************************************************************)
(* Instances of Lexer for TLC: every source up to a length over alphabets  *)
(* that each exercise one part of the lexical grammar.                     *)
(***************************************************************************)
EXTENDS Lexer

CONSTANTS MaxNumber, MaxOperator, MaxText, MaxString

NumberSources == SeqOf({"0", "1", "9", "x", "b", "e", ".", "-", "u"}, MaxNumber)
OperatorSources ==
    SeqOf({"!", "=", ">", "<", "-", ":", "|", "&", ".", " ", "nl", "a"}, MaxOperator)
TextSources ==
    SeqOf({"a", "s", "1", "wide", "bad", "'", "#", " ", "nl", "(", "!"}, MaxText)
StringSources == SeqOf({"dq", "bs", "a", "nl", "wide"}, MaxString)

MCSources == NumberSources \cup OperatorSources \cup TextSources \cup StringSources
MCKeywords == {<<"a", "s">>}
=============================================================================
