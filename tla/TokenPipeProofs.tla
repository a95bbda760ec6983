-------------------------- MODULE TokenPipeProofs --------------------------
(***************************************************************************)
(* For token streams of every length and every way the grammar can take    *)
(* them: the caller never waits for a lexer that has stopped, lexErr is    *)
(* read while it may be written only after a syntax error, and a program   *)
(* is returned only for a source that was lexed to its EOF; and every      *)
(* answer is one that ParseContract allows.                                *)
(***************************************************************************)
EXTENDS TokenPipe, TLAPS

(* What IsSource says of the verdict: it is the last token and the only one. *)
LEMMA VerdictIsLast ==
    ASSUME PipeInv
    PROVE  /\ End \in Nat \ {0} /\ sent \in 0..End
           /\ source.kinds[End] \in Verdict
           /\ \A i \in 1..End : source.kinds[i] \in Verdict <=> i = End
           /\ sent > 0 => (Got \in Verdict <=> sent = End)
           /\ sent < End => (Upcoming \in Verdict <=> sent + 1 = End)
<1>1. source.kinds \in Seq(Kind) /\ source.kinds # <<>> /\ sent \in 0..End
  BY DEF PipeInv, TypeOK, IsSource, End, Source
<1>2. End \in Nat \ {0} /\ DOMAIN source.kinds = 1..End
  BY <1>1 DEF End
<1>3. \A i \in 1..End : source.kinds[i] \in Verdict <=> i = End
  BY <1>2 DEF PipeInv, TypeOK, IsSource, End
<1>4. QED
  BY <1>1, <1>2, <1>3 DEF Got, Upcoming

(* No step changes the source, so these facts carry over.                   *)
LEMMA InitPipe == Init => PipeInv
<1> SUFFICES ASSUME Init PROVE PipeInv
  OBVIOUS
<1>1. source \in Source /\ IsSource(source)
  BY SourcesAssumption DEF Init
<1>2. source.kinds \in Seq(Kind) /\ source.kinds # <<>>
  BY <1>1 DEF Source, IsSource
<1>3. End \in Nat \ {0}
  <2> HIDE DEF Kind
  <2> QED
    BY <1>2 DEF End
<1>4. TypeOK
  <2>1. skipNewline \in BOOLEAN
    BY Zenon DEF Init
  <2>2. sent \in 0..Len(source.kinds) /\ errors \in Nat
    BY <1>3 DEF Init, End
  <2>3. /\ mode \in {"parse", "tokens"} /\ lpc = "lexing" /\ lexErr = "nil"
        /\ ppc = "want" /\ result = "none"
    BY Zenon DEF Init
  <2>4. QED
    BY <1>1, <2>1, <2>2, <2>3 DEF TypeOK
<1>5. QED
  BY <1>3, <1>4 DEF Init, PipeInv, ProgramIsWhole

(* Every step of the two goroutines keeps PipeInv.                          *)
LEMMA StepPipe == PipeInv /\ [Next]_vars => PipeInv'
<1> SUFFICES ASSUME PipeInv, [Next]_vars PROVE PipeInv'
  OBVIOUS
<1>s. source' = source /\ mode' = mode /\ End' = End
  BY DEF Next, LexerStep, Lex, fail, State, emit, CallerStep, Skip, Reject,
         Shift, Accept, Parse, DriverLex, Returned, vars, End
<1>f. /\ End \in Nat \ {0} /\ sent \in 0..End
      /\ source.kinds[End] \in Verdict
      /\ sent > 0 => (Got \in Verdict <=> sent = End)
      /\ sent < End => (Upcoming \in Verdict <=> sent + 1 = End)
  BY VerdictIsLast
<1>1. CASE LexerStep
  <2>1. /\ sent' = sent /\ ppc' = ppc /\ skipNewline' = skipNewline
        /\ errors' = errors /\ result' = result
    BY <1>1 DEF LexerStep, Lex, fail, State, callerVars
  <2>2. CASE Lex
    BY <1>s, <1>f, <2>1, <2>2 DEF Lex, PipeInv, TypeOK, End, Got, Upcoming, ProgramIsWhole
  <2>3. CASE fail
    <3>1. sent < End /\ Upcoming = "ILLEGAL" /\ lpc = "failing"
      BY <2>3 DEF fail, PipeInv
    <3>2. source.kinds[End] = "ILLEGAL" /\ sent + 1 = End
      BY <3>1, <1>f DEF Upcoming, Verdict
    <3>3. result # "program"
      BY <3>1, <1>f DEF PipeInv, ProgramIsWhole, End
    <3>4. QED
      BY <1>s, <1>f, <2>1, <2>3, <3>1, <3>2, <3>3 DEF fail, PipeInv, TypeOK, End, Got, Upcoming, ProgramIsWhole
  <2>4. CASE State
    <3>1. sent > 0 /\ lpc = "sent" /\ source.kinds[sent] = Got /\ lexErr' = lexErr
      BY <2>4 DEF State, PipeInv, Got
    <3>2. CASE Got \in Verdict
      BY <1>s, <1>f, <2>1, <2>4, <3>1, <3>2 DEF State, PipeInv, TypeOK, End, Got, Upcoming, ProgramIsWhole
    <3>3. CASE Got \notin Verdict
      BY <1>s, <1>f, <2>1, <2>4, <3>1, <3>3 DEF State, PipeInv, TypeOK, End, Got, Upcoming, ProgramIsWhole
    <3>4. QED
      BY <3>2, <3>3
  <2>5. QED
    BY <1>1, <2>2, <2>3, <2>4 DEF LexerStep
<1>2. CASE emit
  <2>1. /\ lpc = "sending" /\ ppc = "want" /\ sent' = sent + 1 /\ lpc' = "sent" /\ ppc' = "got"
        /\ lexErr' = lexErr /\ skipNewline' = skipNewline /\ errors' = errors /\ result' = result
    BY <1>2 DEF emit, callerVars
  <2>2. sent < End /\ Got' = Upcoming /\ result \notin {"program", "tokens"}
    BY <1>s, <2>1 DEF PipeInv, Got, Upcoming
  <2>3. QED
    BY <1>s, <1>f, <2>1, <2>2 DEF PipeInv, TypeOK, End, Upcoming, ProgramIsWhole
<1>3. CASE CallerStep
  <2>1. /\ sent' = sent /\ lpc' = lpc /\ lexErr' = lexErr /\ Got' = Got /\ Upcoming' = Upcoming
        /\ ppc \in {"got", "parsed"} /\ sent > 0 /\ result \notin {"program", "tokens"}
    BY <1>3, <1>s DEF CallerStep, Skip, Reject, Shift, Accept, Parse, DriverLex, lexerVars, PipeInv, Got, Upcoming
  <2>2. CASE Skip \/ Shift
    <3>1. sent < End
      BY <2>1, <2>2, <1>f DEF Skip, Shift, Verdict
    <3>2. skipNewline' \in BOOLEAN
      <4>1. CASE Skip
        <5>1. skipNewline' = skipNewline
          BY <4>1 DEF Skip, callerVars
        <5>2. skipNewline \in BOOLEAN
          BY Zenon DEF PipeInv, TypeOK
        <5>3. QED
          BY <5>1, <5>2
      <4>2. CASE Shift
        <5>1. skipNewline' = (sent \in source.skipAfter)
          BY <4>2, Zenon DEF Shift
        <5>2. (sent \in source.skipAfter) \in BOOLEAN
          OBVIOUS
        <5>3. QED
          BY <5>1, <5>2, Zenon
      <4>3. QED
        BY <2>2, <4>1, <4>2
    <3>3. /\ errors' \in Nat /\ result' = result /\ ppc' = "want"
      BY <2>2 DEF Skip, Shift, callerVars, PipeInv, TypeOK
    <3>4. TypeOK'
      BY <1>s, <2>1, <3>2, <3>3 DEF PipeInv, TypeOK
    <3>5. QED
      BY <1>s, <1>f, <2>1, <3>1, <3>3, <3>4 DEF PipeInv, End, ProgramIsWhole
  <2>3. CASE Reject
    BY <1>s, <1>f, <2>1, <2>3 DEF Reject, PipeInv, TypeOK, End, ProgramIsWhole
  <2>4. CASE Accept
    BY <1>s, <1>f, <2>1, <2>4 DEF Accept, callerVars, PipeInv, TypeOK, End, ProgramIsWhole
  <2>5. CASE Parse
    <3>1. /\ sent = End \/ (sent = source.rejectAt /\ errors > 0)
          /\ errors' = errors /\ ppc' = "returned" /\ skipNewline' = skipNewline
      BY <2>5 DEF Parse, PipeInv
    <3>2. CASE result' = "program"
      <4>1. errors = 0 /\ sent = End /\ lexErr \in {"nil", "half"}
        BY <2>5, <3>1, <3>2 DEF Parse, PipeInv, TypeOK
      <4>2. Got = "EOF" /\ lexErr = "nil"
        BY <4>1, <2>1, <1>f DEF PipeInv, Got, Verdict
      <4>3. QED
        BY <1>s, <1>f, <2>1, <3>1, <3>2, <4>1, <4>2 DEF PipeInv, TypeOK, End, ProgramIsWhole
    <3>3. CASE result' \in {"lex_error", "parse_error"}
      BY <1>s, <1>f, <2>1, <3>1, <3>3 DEF PipeInv, TypeOK, End, ProgramIsWhole
    <3>4. QED
      BY <2>5, <3>2, <3>3 DEF Parse
  <2>6. CASE DriverLex
    <3>1. CASE Got \in Verdict
      BY <1>s, <1>f, <2>1, <2>6, <3>1 DEF DriverLex, PipeInv, TypeOK, End, ProgramIsWhole
    <3>2. CASE Got \notin Verdict
      BY <1>s, <1>f, <2>1, <2>6, <3>2 DEF DriverLex, PipeInv, TypeOK, End, ProgramIsWhole
    <3>3. QED
      BY <3>1, <3>2
  <2>7. QED
    BY <1>3, <2>2, <2>3, <2>4, <2>5, <2>6 DEF CallerStep
<1>4. CASE UNCHANGED vars
  BY <1>4 DEF vars, PipeInv, TypeOK, End, Got, Upcoming, ProgramIsWhole
<1>5. QED
  BY <1>1, <1>2, <1>3, <1>4 DEF Next, Returned

(* PipeInv holds always.                                                    *)
LEMMA PipeInvHolds == Spec => []PipeInv
<1>1. QED
  BY InitPipe, StepPipe, PTL DEF Spec

(* For sources of any length the variables of both goroutines keep their    *)
(* types, so the lexer never hands over more tokens than there are.         *)
THEOREM PipeTypeCorrect == Spec => []TypeOK
<1>1. PipeInv => TypeOK
  BY DEF PipeInv
<1>2. QED
  BY <1>1, PipeInvHolds, PTL

(* The caller's receive always has a sender: whatever the source, the       *)
(* calling goroutine never waits for a lexer that has returned.             *)
THEOREM PipeNeverStarved == Spec => []NeverStarved
<1>1. PipeInv => NeverStarved
  BY VerdictIsLast DEF PipeInv, NeverStarved
<1>2. QED
  BY <1>1, PipeInvHolds, PTL

(* For every source, lexErr is read before the lexer has stopped only when  *)
(* yyParse gave up before the last token.                                   *)
THEOREM PipeRace == Spec => []RaceOnlyAfterReject
<1>1. PipeInv => RaceOnlyAfterReject
  <2> SUFFICES ASSUME PipeInv, ppc \in {"parsed", "returned"}, lpc \notin {"sent", "done"}
               PROVE  source.rejectAt \in 1..(End - 1)
    BY DEF RaceOnlyAfterReject, End
  <2>1. sent < End
    BY DEF PipeInv, TypeOK
  <2>2. sent > 0 /\ (sent = End \/ sent = source.rejectAt)
    BY DEF PipeInv
  <2>3. sent \in Nat /\ End \in Nat
    BY VerdictIsLast
  <2>4. QED
    BY <2>1, <2>2, <2>3
<1>2. QED
  BY <1>1, PipeInvHolds, PTL

(* For every source, a program is returned only when everything up to EOF   *)
(* was lexed, handed over and accepted without an error.                    *)
THEOREM PipeProgramIsWhole == Spec => []ProgramIsWhole
<1>1. PipeInv => ProgramIsWhole
  BY DEF PipeInv
<1>2. QED
  BY <1>1, PipeInvHolds, PTL

-----------------------------------------------------------------------------
(* A token that pseudoLexer does not return is one the grammar never sees:  *)
(* it is neither rejected nor reported.                                     *)
LEMMA SkipIsSkipped ==
    ASSUME PipeInv, AnswerInv, Skip
    PROVE  sent # source.rejectAt /\ sent \notin source.reports
<1>1. /\ End \in Nat \ {0} /\ sent \in 1..End /\ DOMAIN source.kinds = 1..End
      /\ source.skipAfter \subseteq Nat
  BY VerdictIsLast DEF PipeInv, TypeOK, Source, End, Skip
<1>2. sent \in Skipped(source)
  <2>1. CASE Got = "COMMENT"
    BY <1>1, <2>1 DEF Skipped, Got
  <2>2. CASE Got = "NEWLINE" /\ skipNewline
    <3>1. BehindSkip /\ Passed = sent - 1
      BY <2>2 DEF AnswerInv, Skip, Passed
    <3>2. PICK j \in source.skipAfter : /\ j <= sent - 1
            /\ \A k \in (j + 1)..(sent - 1) : source.kinds[k] \in {"COMMENT", "NEWLINE"}
      BY <3>1 DEF BehindSkip
    <3>3. j < sent
      BY <3>2, <1>1
    <3>4. QED
      BY <1>1, <2>2, <3>2, <3>3 DEF Skipped, Got
  <2>3. QED
    BY <2>1, <2>2 DEF Skip
<1>3. QED
  BY <1>1, <1>2 DEF PipeInv, TypeOK, IsSource, Reaches

(* AnswerInv holds at the start,                                            *)
LEMMA InitAnswer == Init => AnswerInv
<1> SUFFICES ASSUME Init PROVE AnswerInv
  OBVIOUS
<1>1. /\ ppc = "want" /\ result = "none" /\ sent = 0 /\ errors = 0 /\ ~ skipNewline
  BY DEF Init
<1>2. source.reports \subseteq Nat \ {0}
  <2>1. source \in Source /\ IsSource(source)
    BY SourcesAssumption DEF Init
  <2>2. source.reports \subseteq DOMAIN source.kinds /\ source.kinds \in Seq(Kind)
    BY <2>1 DEF IsSource, Reaches, Source
  <2>3. QED
    BY <2>2
<1>3. QED
  BY <1>1, <1>2 DEF AnswerInv, Passed

(* and after every step.                                                    *)
LEMMA StepAnswer == PipeInv /\ AnswerInv /\ [Next]_vars => AnswerInv'
<1> SUFFICES ASSUME PipeInv, AnswerInv, [Next]_vars PROVE AnswerInv'
  OBVIOUS
<1>s. source' = source /\ mode' = mode /\ End' = End
  BY DEF Next, LexerStep, Lex, fail, State, emit, CallerStep, Skip, Reject,
         Shift, Accept, Parse, DriverLex, Returned, vars, End
<1>f. /\ End \in Nat \ {0} /\ sent \in 0..End /\ errors \in Nat
      /\ ppc # "want" => sent > 0
      /\ sent > 0 => (Got \in Verdict <=> sent = End)
      /\ source.reports \subseteq Nat /\ source.skipAfter \subseteq Nat
      /\ source.rejectAt \in 0..End
  <2>1. DOMAIN source.kinds = 1..End
    BY VerdictIsLast DEF PipeInv, TypeOK, Source, End
  <2>2. QED
    BY <2>1, VerdictIsLast DEF PipeInv, TypeOK, IsSource, Reaches, Source
<1>1. CASE LexerStep \/ UNCHANGED vars
  <2>1. /\ sent' = sent /\ ppc' = ppc /\ skipNewline' = skipNewline
        /\ errors' = errors /\ result' = result
    BY <1>1 DEF LexerStep, Lex, fail, State, callerVars, vars
  <2>2. QED
    BY <1>s, <2>1 DEF AnswerInv, Passed, BehindSkip
<1>2. CASE emit
  <2>1. /\ ppc = "want" /\ sent' = sent + 1 /\ ppc' = "got"
        /\ skipNewline' = skipNewline /\ errors' = errors /\ result' = result
    BY <1>2 DEF emit, callerVars
  <2>2. Passed' = Passed
    BY <1>f, <2>1 DEF Passed
  <2>3. BehindSkip' <=> BehindSkip
    BY <1>s, <2>2 DEF BehindSkip
  <2>4. QED
    BY <1>s, <2>1, <2>2, <2>3 DEF AnswerInv
<1>3. CASE CallerStep
  <2>1. /\ sent' = sent /\ sent \in 1..End /\ Got' = Got
    BY <1>3, <1>s, <1>f DEF CallerStep, Skip, Reject, Shift, Accept, Parse, DriverLex, Got
  <2>2. CASE Skip
    <3>1. /\ ppc = "got" /\ ppc' = "want" /\ mode = "parse" /\ skipNewline' = skipNewline
          /\ errors' = errors /\ result' = result
          /\ Passed = sent - 1 /\ Passed' = sent
      BY <2>1, <2>2 DEF Skip, callerVars, Passed
    <3>2. sent # source.rejectAt /\ sent \notin source.reports
      BY <2>2, SkipIsSkipped
    <3>3. skipNewline => BehindSkip'
      <4> SUFFICES ASSUME skipNewline PROVE BehindSkip'
        OBVIOUS
      <4>1. BehindSkip
        BY <3>1 DEF AnswerInv
      <4>2. PICK j \in source.skipAfter : /\ j <= sent - 1
              /\ \A k \in (j + 1)..(sent - 1) : source.kinds[k] \in {"COMMENT", "NEWLINE"}
        BY <4>1, <3>1 DEF BehindSkip
      <4>3. source.kinds[sent] \in {"COMMENT", "NEWLINE"}
        BY <2>2 DEF Skip, Got
      <4>4. j <= sent /\ \A k \in (j + 1)..sent : source.kinds[k] \in {"COMMENT", "NEWLINE"}
        BY <4>2, <4>3, <1>f, <2>1
      <4>5. QED
        BY <1>s, <3>1, <4>4 DEF BehindSkip
    <3>4. \A i \in source.reports : i <= sent => errors > 0
      BY <1>f, <2>1, <3>1, <3>2 DEF AnswerInv
    <3>5. source.rejectAt \notin 1..sent
      BY <1>f, <2>1, <3>1, <3>2 DEF AnswerInv
    <3>6. QED
      BY <1>s, <3>1, <3>3, <3>4, <3>5 DEF AnswerInv
  <2>3. CASE Shift
    <3>1. /\ ppc = "got" /\ ppc' = "want" /\ mode = "parse" /\ result' = result
          /\ errors' = IF sent \in source.reports THEN errors + 1 ELSE errors
          /\ sent # source.rejectAt
          /\ Passed = sent - 1 /\ Passed' = sent
      BY <2>1, <2>3 DEF Shift, Passed
    <3>2. skipNewline' => BehindSkip'
      <4> SUFFICES ASSUME skipNewline' PROVE BehindSkip'
        OBVIOUS
      <4>1. skipNewline' = (sent \in source.skipAfter)
        BY <2>3, Zenon DEF Shift
      <4>2. sent \in source.skipAfter
        BY <4>1
      <4>3. QED
        BY <1>s, <2>1, <3>1, <4>2 DEF BehindSkip
    <3>3. \A i \in source.reports : i <= sent => errors' > 0
      BY <1>f, <2>1, <3>1 DEF AnswerInv
    <3>4. source.rejectAt \notin 1..sent
      BY <1>f, <2>1, <3>1 DEF AnswerInv
    <3>5. errors' > 0 => source.reports # {} \/ source.rejectAt # 0
      BY <3>1 DEF AnswerInv
    <3>6. QED
      BY <1>s, <3>1, <3>2, <3>3, <3>4, <3>5 DEF AnswerInv
  <2>4. CASE Reject
    <3>1. /\ ppc = "got" /\ ppc' = "parsed" /\ mode = "parse" /\ result' = result
          /\ errors' = errors + 1 /\ sent = source.rejectAt
      BY <2>4 DEF Reject
    <3>2. errors' > 0 /\ source.rejectAt # 0
      BY <1>f, <2>1, <3>1
    <3>3. QED
      BY <1>s, <2>1, <3>1, <3>2 DEF AnswerInv
  <2>5. CASE Accept
    <3>1. /\ ppc = "got" /\ ppc' = "parsed" /\ mode = "parse" /\ result' = result
          /\ errors' = errors /\ sent # source.rejectAt /\ sent = End
          /\ Passed = sent - 1 /\ Passed' = sent
      BY <1>f, <2>1, <2>5 DEF Accept, callerVars, Passed
    <3>2. source.rejectAt = 0
      BY <1>f, <3>1 DEF AnswerInv
    <3>3. sent \notin source.reports
      BY <3>1 DEF PipeInv, TypeOK, IsSource, End
    <3>4. \A i \in source.reports : i <= sent => errors > 0
      BY <1>f, <2>1, <3>1, <3>3 DEF AnswerInv
    <3>5. QED
      BY <1>s, <2>1, <3>1, <3>2, <3>4 DEF AnswerInv
  <2>6. CASE Parse
    <3>1. /\ ppc = "parsed" /\ ppc' = "returned" /\ result' # "none" /\ errors' = errors
          /\ Passed' = Passed
      BY <2>1, <2>6 DEF Parse, Passed
    <3>2. QED
      BY <1>s, <2>1, <3>1 DEF AnswerInv
  <2>7. CASE DriverLex
    <3>1. mode = "tokens" /\ ppc' # "parsed" /\ (result' = "none" <=> ppc' # "returned")
      BY <2>7 DEF DriverLex, AnswerInv
    <3>2. QED
      BY <1>s, <3>1 DEF AnswerInv
  <2>8. QED
    BY <1>3, <2>2, <2>3, <2>4, <2>5, <2>6, <2>7 DEF CallerStep
<1>4. QED
  BY <1>1, <1>2, <1>3 DEF Next, Returned

(* What lexErr says when the verdict has been handed over.                  *)
LEMMA ErrorSaysVerdict ==
    ASSUME PipeInv
    PROVE  /\ sent = End => (lexErr = "set" <=> Contract!LexicalError) /\ (lexErr = "nil" <=> ~ Contract!LexicalError)
           /\ ~ Contract!LexicalError => lexErr = "nil"
<1>1. source.kinds[End] \in {"EOF", "ILLEGAL"}
  BY VerdictIsLast DEF Verdict
<1>2. Contract!LexicalError <=> source.kinds[End] = "ILLEGAL"
  BY DEF Contract!LexicalError, Contract!End, End
<1>3. QED
  BY <1>1, <1>2 DEF PipeInv, Got

(* Every step of the goroutines is the answer of the contract or leaves     *)
(* what the contract sees unchanged.                                        *)
LEMMA StepContract ==
    PipeInv /\ AnswerInv /\ [Next]_vars => [Contract!Return]_(Contract!vars)
<1> SUFFICES ASSUME PipeInv, AnswerInv, [Next]_vars PROVE [Contract!Return]_(Contract!vars)
  OBVIOUS
<1>1. source' = source /\ mode' = mode
  BY DEF Next, LexerStep, Lex, fail, State, emit, CallerStep, Skip, Reject,
         Shift, Accept, Parse, DriverLex, Returned, vars
<1>f. /\ End \in Nat \ {0} /\ sent \in 0..End /\ errors \in Nat
      /\ ppc # "want" => sent > 0
      /\ sent > 0 => (Got \in Verdict <=> sent = End)
      /\ lexErr \in {"nil", "half", "set"}
  BY VerdictIsLast DEF PipeInv, TypeOK
<1>2. CASE Parse
  <2>1. result = "none" /\ mode = "parse"
    BY <1>2 DEF Parse, AnswerInv
  <2>2. result' \in Contract!Answers
    <3>1. CASE sent = source.rejectAt /\ errors > 0
      <4>1. /\ result' \in {"lex_error", "parse_error"}
            /\ lexErr = "nil" => result' = "parse_error"
            /\ lexErr = "set" => result' = "lex_error"
        BY <1>2, <3>1 DEF Parse
      <4>2. source.rejectAt # 0
        BY <1>2, <1>f, <3>1 DEF Parse
      <4>3. CASE sent = End
        BY <1>f, <2>1, <3>1, <4>1, <4>2, <4>3, ErrorSaysVerdict DEF Contract!Answers
      <4>4. CASE sent # End
        <5>1. Contract!EarlyStop
          BY <1>f, <1>2, <3>1, <4>4, <4>2 DEF Contract!EarlyStop, Contract!End, End
        <5>2. QED
          BY <2>1, <4>1, <4>2, <5>1, ErrorSaysVerdict DEF Contract!Answers
      <4>5. QED
        BY <4>3, <4>4
    <3>2. CASE sent = End /\ source.rejectAt = 0
      <4>1. \A i \in source.reports : i <= End
        <5>1. DOMAIN source.kinds = 1..End
          BY VerdictIsLast DEF PipeInv, TypeOK, Source, End
        <5>2. QED
          BY <5>1, <1>f DEF PipeInv, TypeOK, IsSource, Reaches
      <4>2. errors > 0 <=> source.reports # {}
        BY <1>2, <2>1, <3>2, <4>1 DEF Parse, AnswerInv, Passed
      <4>3. QED
        BY <1>2, <2>1, <3>2, <4>2, ErrorSaysVerdict DEF Parse, Contract!Answers
    <3>3. QED
      BY <1>2, <2>1, <3>1, <3>2 DEF Parse, AnswerInv
  <2>3. QED
    BY <1>1, <2>1, <2>2 DEF Contract!Return
<1>3. CASE DriverLex
  <2>1. result = "none" /\ mode = "tokens"
    BY <1>3 DEF DriverLex, AnswerInv
  <2>2. CASE Got \in Verdict
    <3>1. sent = End /\ result' = IF lexErr = "nil" THEN "tokens" ELSE "lex_error"
      BY <1>3, <1>f, <2>2 DEF DriverLex
    <3>2. result' \in Contract!Answers
      BY <2>1, <3>1, ErrorSaysVerdict DEF Contract!Answers
    <3>3. QED
      BY <1>1, <2>1, <3>2 DEF Contract!Return
  <2>3. CASE Got \notin Verdict
    BY <1>1, <1>3, <2>3 DEF DriverLex, Contract!vars
  <2>4. QED
    BY <2>2, <2>3
<1>4. CASE LexerStep \/ emit \/ Skip \/ Reject \/ Shift \/ Accept \/ Returned \/ UNCHANGED vars
  <2>1. result' = result
    BY <1>4 DEF LexerStep, Lex, fail, State, emit, Skip, Reject, Shift, Accept, Returned, callerVars, vars
  <2>2. QED
    BY <1>1, <2>1 DEF Contract!vars
<1>5. QED
  BY <1>2, <1>3, <1>4 DEF Next, CallerStep

(* For streams of every length the two goroutines implement ParseContract:  *)
(* they answer at most once, and with an answer the contract allows for the *)
(* source.  (That they answer at all, the rest of KeepsContract, is shown   *)
(* by the run.)                                                             *)
THEOREM PipeImplementsContract == Spec => Contract!Init /\ [][Contract!Return]_(Contract!vars)
<1>1. Init => Contract!Init
  BY DEF Init, Contract!Init
<1>2. QED
  BY <1>1, InitPipe, StepPipe, InitAnswer, StepAnswer, StepContract, PTL DEF Spec
=============================================================================
