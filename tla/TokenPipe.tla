----------------------------- MODULE TokenPipe -----------------------------
(***************************************************************************)
(* The two goroutines of syntax.Parse and Driver.Lex (parser.go, lexer.go, *)
(* mediator.go): the lexer sends tokens over an unbuffered channel, and    *)
(* the caller's goroutine takes them one by one, in yyParse through        *)
(* pseudoLexer.Lex, or in the loop of Driver.Lex.  The error callback of   *)
(* the lexer writes the variable lexErr of the caller's goroutine.         *)
(*                                                                         *)
(* What the lexer makes of the source is a sequence of token kinds that    *)
(* ends with its only EOF or ILLEGAL (Lexer!OneVerdict); kinds are reduced *)
(* to the ones that pseudoLexer tells apart.  yyParse is generated from    *)
(* grammar.go.y; of it the model keeps at which token it stops with a      *)
(* syntax error, at which tokens a semantic action reports an error, and   *)
(* after which it sets skipNewline.                                        *)
(***************************************************************************)
EXTENDS Naturals, Sequences, FiniteSets, SequencesExt

CONSTANTS Sources   \* the sources to consider

Kind == {"WORD", "COMMENT", "NEWLINE", "EOF", "ILLEGAL"}
Verdict == {"EOF", "ILLEGAL"}
Source == [kinds : Seq(Kind), rejectAt : Nat, reports : SUBSET Nat,
           skipAfter : SUBSET Nat]
(* Only tokens that reach the grammar can be rejected or reported: comments *)
(* never do, and a newline behind a token of skipAfter does not.            *)
Skipped(s) == {i \in DOMAIN s.kinds :
    \/ s.kinds[i] = "COMMENT"
    \/ /\ s.kinds[i] = "NEWLINE"
       /\ \E j \in s.skipAfter : /\ j < i
            /\ \A k \in (j + 1)..(i - 1) : s.kinds[k] \in {"COMMENT", "NEWLINE"}}
Reaches(s) == DOMAIN s.kinds \ Skipped(s)
IsSource(s) ==
    /\ s.kinds # <<>>
    /\ \A i \in DOMAIN s.kinds : s.kinds[i] \in Verdict <=> i = Len(s.kinds)
    /\ s.rejectAt \in {0} \cup Reaches(s)
    /\ s.reports \cup s.skipAfter \subseteq Reaches(s) \ {Len(s.kinds)}
    /\ s.rejectAt # 0 => \A i \in s.reports \cup s.skipAfter : i < s.rejectAt
ASSUME SourcesAssumption == Sources \subseteq Source /\ \A s \in Sources : IsSource(s)

VARIABLES
    source,
    mode,         \* which of the two calls is made
    lpc,          \* where the lexer goroutine is
    sent,         \* how many tokens it has sent
    lexErr,       \* "nil", "half" while it is written, or "set"
    ppc,          \* where the calling goroutine is
    skipNewline,  \* pseudoLexer.skipNewline
    errors,       \* how many messages pseudoLexer.errors holds
    result        \* what the call returned, "none" before

lexerVars == <<lpc, lexErr>>
callerVars == <<skipNewline, errors, result>>
vars == <<source, mode, lpc, sent, lexErr, ppc, skipNewline, errors, result>>

Got == source.kinds[sent]          \* the token that was received last
Upcoming == source.kinds[sent + 1]

Init ==
    /\ source \in Sources
    /\ mode \in {"parse", "tokens"}
    /\ lpc = "lexing" /\ sent = 0 /\ lexErr = "nil"
    /\ ppc = "want" /\ skipNewline = FALSE /\ errors = 0 /\ result = "none"

-----------------------------------------------------------------------------
(* The lexer goroutine. *)

(* A state function has found the next token.                               *)
Lex ==
    /\ lpc = "lexing"
    /\ lpc' = IF Upcoming = "ILLEGAL" THEN "failing" ELSE "sending"
    /\ UNCHANGED <<source, mode, sent, lexErr, ppc>> /\ UNCHANGED callerVars

failAfterSend ==    \* mutant: the token goes out before the callback is called
    /\ lpc = "failing"
    /\ lpc' = "sending"
    /\ UNCHANGED <<source, mode, sent, lexErr, ppc>> /\ UNCHANGED callerVars

(* fail calls l.Error before it emits ILLEGAL.  The callback assigns an     *)
(* interface value, two words, without a lock.                              *)
fail ==
    /\ lpc = "failing"
    /\ \/ lexErr = "nil" /\ lexErr' = "half" /\ UNCHANGED lpc
       \/ lexErr = "half" /\ lexErr' = "set" /\ lpc' = "sending"
    /\ UNCHANGED <<source, mode, sent, ppc>> /\ UNCHANGED callerVars

(* emit: the send and the receive on the unbuffered channel are one step.   *)
emit ==
    /\ lpc = "sending" /\ ppc = "want"
    /\ sent' = sent + 1
    /\ lpc' = "sent" /\ ppc' = "got"
    /\ UNCHANGED <<source, mode, lexErr>> /\ UNCHANGED callerVars

StateForever ==    \* mutant: the state function goes on after the verdict
    /\ lpc = "sent"
    /\ lpc' = "sending"
    /\ UNCHANGED <<source, mode, sent, lexErr, ppc>> /\ UNCHANGED callerVars

(* Behind emit the state function goes on, or returns nil.                  *)
State ==
    /\ lpc = "sent"
    /\ lpc' = IF source.kinds[sent] \in Verdict THEN "done" ELSE "lexing"
    /\ UNCHANGED <<source, mode, sent, lexErr, ppc>> /\ UNCHANGED callerVars

LexerStep == Lex \/ fail \/ State

-----------------------------------------------------------------------------
(* pseudoLexer.Lex with the token it received, and yyParse.                 *)

(* Comments, and newlines where they do not matter, are not returned.       *)
Skip ==
    /\ ppc = "got" /\ mode = "parse"
    /\ Got = "COMMENT" \/ (Got = "NEWLINE" /\ skipNewline)
    /\ ppc' = "want"
    /\ UNCHANGED <<source, mode, sent>> /\ UNCHANGED lexerVars /\ UNCHANGED callerVars

(* yyParse gives up: it has reported the error and returns 1; there are no  *)
(* error productions to go on with.                                         *)
Reject ==
    /\ ppc = "got" /\ mode = "parse"
    /\ Got # "COMMENT" /\ ~(Got = "NEWLINE" /\ skipNewline)
    /\ sent = source.rejectAt
    /\ errors' = errors + 1
    /\ ppc' = "parsed"
    /\ UNCHANGED <<source, mode, sent, skipNewline, result>> /\ UNCHANGED lexerVars

(* A token is shifted.  Lex clears the flag; the actions that yyParse runs  *)
(* may set it again (hack_record_lbrace) and may call yylex.Error, which    *)
(* does not stop the parse.                                                 *)
Shift ==
    /\ ppc = "got" /\ mode = "parse"
    /\ Got \notin Verdict \cup {"COMMENT"} /\ ~(Got = "NEWLINE" /\ skipNewline)
    /\ sent # source.rejectAt
    /\ skipNewline' = (sent \in source.skipAfter)
    /\ errors' = IF sent \in source.reports THEN errors + 1 ELSE errors
    /\ ppc' = "want"
    /\ UNCHANGED <<source, mode, sent, result>> /\ UNCHANGED lexerVars

AcceptEOFOnly ==    \* mutant: ILLEGAL is skipped, not the end of the input
    /\ ppc = "got" /\ mode = "parse"
    /\ Got \in Verdict /\ sent # source.rejectAt
    /\ ppc' = IF Got = "EOF" THEN "parsed" ELSE "want"
    /\ UNCHANGED <<source, mode, sent>> /\ UNCHANGED lexerVars /\ UNCHANGED callerVars

AcceptEarly ==    \* mutant: a newline after a complete program ends the input
    /\ ppc = "got" /\ mode = "parse"
    /\ Got \in Verdict \cup {"NEWLINE"} /\ sent # source.rejectAt
    /\ ppc' = "parsed"
    /\ UNCHANGED <<source, mode, sent>> /\ UNCHANGED lexerVars /\ UNCHANGED callerVars

(* EOF and ILLEGAL are both handed to yyParse as the end of the input, and  *)
(* it accepts what it has.                                                  *)
Accept ==
    /\ ppc = "got" /\ mode = "parse"
    /\ Got \in Verdict /\ sent # source.rejectAt
    /\ ppc' = "parsed"
    /\ UNCHANGED <<source, mode, sent>> /\ UNCHANGED lexerVars /\ UNCHANGED callerVars

ParseIgnoresLexErr ==    \* mutant: only the parser's own errors count
    /\ ppc = "parsed"
    /\ result' = IF errors > 0 THEN "parse_error" ELSE "program"
    /\ ppc' = "returned"
    /\ UNCHANGED <<source, mode, sent, skipNewline, errors>> /\ UNCHANGED lexerVars

(* ParseTokens returns and Parse reads lexErr.  A value that is half        *)
(* written compares as nil or not.                                          *)
Parse ==
    /\ ppc = "parsed"
    /\ \/ lexErr \in {"half", "set"} /\ result' = "lex_error"
       \/ /\ lexErr \in {"nil", "half"}
          /\ result' = IF errors > 0 THEN "parse_error" ELSE "program"
    /\ ppc' = "returned"
    /\ UNCHANGED <<source, mode, sent, skipNewline, errors>> /\ UNCHANGED lexerVars

(* The loop of Driver.Lex.                                                  *)
DriverLex ==
    /\ ppc = "got" /\ mode = "tokens"
    /\ \/ Got \notin Verdict /\ ppc' = "want" /\ UNCHANGED result
       \/ /\ Got \in Verdict
          /\ ppc' = "returned"
          /\ result' = IF lexErr = "nil" THEN "tokens" ELSE "lex_error"
    /\ UNCHANGED <<source, mode, sent, skipNewline, errors>> /\ UNCHANGED lexerVars

CallerStep == Skip \/ Reject \/ Shift \/ Accept \/ Parse \/ DriverLex

(* The call has returned; the lexer may have been left behind.              *)
Returned == ppc = "returned" /\ UNCHANGED vars
Next == LexerStep \/ emit \/ CallerStep \/ Returned

(* Both goroutines are scheduled; a hand-over that both wait for happens.   *)
Fairness == WF_vars(LexerStep) /\ WF_vars(emit) /\ WF_vars(CallerStep)
Spec == Init /\ [][Next]_vars /\ Fairness

-----------------------------------------------------------------------------
(* The type invariant: no more tokens than the stream has.                  *)
TypeOK ==
    /\ source \in Source /\ IsSource(source) /\ mode \in {"parse", "tokens"}
    /\ lpc \in {"lexing", "failing", "sending", "sent", "done"}
    /\ sent \in 0..Len(source.kinds)
    /\ lexErr \in {"nil", "half", "set"}
    /\ ppc \in {"want", "got", "parsed", "returned"}
    /\ skipNewline \in BOOLEAN
    /\ errors \in Nat
    /\ result \in {"none", "program", "tokens", "parse_error", "lex_error"}

(* The caller never waits on the channel for a lexer that has stopped: it   *)
(* stops receiving at the verdict, which would otherwise block it for ever. *)
NeverStarved == ppc = "want" => lpc # "done"

(* The variable lexErr is only read while the lexer may still write it when *)
(* yyParse gave up before the end of the stream; on every other path the    *)
(* channel orders the write before the read.                                *)
RaceOnlyAfterReject ==
    ppc \in {"parsed", "returned"} /\ lpc \notin {"sent", "done"} =>
        source.rejectAt \in 1..(Len(source.kinds) - 1)

(* A program is only returned when the whole source was lexed and handed    *)
(* over: nothing is accepted on the strength of a prefix.                   *)
ProgramIsWhole ==
    result = "program" =>
        /\ sent = Len(source.kinds) /\ Got = "EOF"
        /\ lexErr = "nil" /\ errors = 0

(* The inductive form: a goroutine that can still send has something to     *)
(* send, the caller waits only while there is, it has stopped at the        *)
(* verdict or where yyParse gave up, and lexErr follows the verdict.        *)
End == Len(source.kinds)
PipeInv ==
    /\ TypeOK
    /\ lpc \in {"lexing", "failing", "sending"} => sent < End
    /\ lpc = "done" => sent = End
    /\ lpc \in {"sent"} \/ ppc # "want" => sent > 0
    /\ ppc = "want" => sent < End
    /\ ppc \in {"parsed", "returned"} =>
         sent = End \/ (sent = source.rejectAt /\ errors > 0 /\ result \notin {"program", "tokens"})
    /\ lpc = "failing" => Upcoming = "ILLEGAL"
    /\ lpc = "sending" /\ Upcoming = "ILLEGAL" => lexErr = "set"
    /\ sent = End /\ Got = "ILLEGAL" => lexErr = "set"
    /\ source.kinds[End] = "EOF" => lexErr = "nil"
    /\ result \in {"program", "tokens"} => ppc = "returned"
    /\ ProgramIsWhole

(* The tokens that yyParse has dealt with, and what the contract needs to   *)
(* know of them: skipNewline stands only behind a token of skipAfter, each  *)
(* report has been counted, and yyParse has not passed the token it rejects.*)
Passed == IF ppc = "got" THEN sent - 1 ELSE sent
BehindSkip ==
    \E j \in source.skipAfter : /\ j <= Passed
        /\ \A k \in (j + 1)..Passed : source.kinds[k] \in {"COMMENT", "NEWLINE"}
AnswerInv ==
    /\ result = "none" <=> ppc # "returned"
    /\ ppc = "parsed" => mode = "parse"
    /\ mode = "parse" =>
         /\ ppc \in {"want", "got"} /\ skipNewline => BehindSkip
         /\ errors > 0 => source.reports # {} \/ source.rejectAt # 0
         /\ \A i \in source.reports : i <= Passed => errors > 0
         /\ IF ppc \in {"want", "got"} THEN source.rejectAt \notin 1..Passed
            ELSE (sent = source.rejectAt /\ errors > 0) \/ (sent = End /\ source.rejectAt = 0)

(* The goroutine of the lexer ends, unless the parser left it behind: a     *)
(* syntax error before the last token blocks it on the channel for ever.    *)
LexerEnds == <>(lpc = "done" \/ source.rejectAt \in 1..(Len(source.kinds) - 1))

(* Together the goroutines keep the contract of the calls: one answer, the  *)
(* right one for the source, and always an answer.                          *)
Contract == INSTANCE ParseContract WITH source <- source, mode <- mode, result <- result
KeepsContract == Contract!Spec
=============================================================================
