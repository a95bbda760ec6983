---------------------------- MODULE LexerProofs ----------------------------
(***************************************************************************)
(* For every source text and every set of keywords.  First the shape of    *)
(* the stream: the lexer keeps its type, its tokens never overlap or run   *)
(* backwards, and it is closed by one verdict.  Every step of the lexer    *)
(* has one of five shapes (move, eat, emit a token, emit the verdict, skip *)
(* a space), so LexInv is proved once per shape, and each state function   *)
(* is shown to take steps of these shapes only.                            *)
(*                                                                         *)
(* Then what the stream says of the text.  The lexical grammar, which      *)
(* speaks of whole texts, is restated rune by rune (Form); each point of a *)
(* state function knows what it has eaten (Shape); and ExactInv says that  *)
(* everything before the token in progress is lexed as the grammar gives   *)
(* it.                                                                     *)
(***************************************************************************)
EXTENDS Lexer, ProofLemmas, FiniteSetTheorems

Running == (Points \cup Lead) \ Stop
Between == {"lex", "lexIdent"}

(* The five shapes. *)
Moves == /\ pc' \in Running \cup {"panic"} /\ (pc' \notin Between => pc \notin Between)
         /\ UNCHANGED <<code, read, start, current, tokens, err>>
Eats == \E p \in Running : eat(p)
Emits == \E k \in Kind, e \in Pos, p \in Between :
            /\ emit(k, e, p) /\ start.Offset < e.Offset /\ current' = e
            /\ read' \in 0..Len(code) /\ UNCHANGED err
Closes == \/ fail
          \/ emit("EOF", current, "done") /\ UNCHANGED <<read, current, err>>

(* What eat yields is a position behind the current one, and forward stays  *)
(* inside the source.                                                       *)
LEMMA EatenForward ==
    ASSUME TypeOK
    PROVE  /\ Eaten \in Pos /\ Eaten.Offset > current.Offset
           /\ forward => read' \in 0..Len(code)
<1>1. RuneLen(top) \in Nat \ {0}
  BY DEF RuneLen
<1>2. current.Offset \in Nat /\ current.Line \in Nat /\ current.Column \in Nat
  BY DEF TypeOK, Pos
<1>3. Eaten \in Pos
  BY <1>1, <1>2 DEF Eaten, Pos
<1>4. Eaten.Offset > current.Offset
  BY <1>1, <1>2 DEF Eaten
<1>5. forward => read' \in 0..Len(code)
  BY DEF forward, TypeOK
<1>6. QED
  BY <1>3, <1>4, <1>5

(* The source is never changed, so its length is the same after a step.     *)
LEMMA MoveKeeps ==
    ASSUME LexInv, pc \in Running, Moves
    PROVE  LexInv'
BY DEF LexInv, Moves, TypeOK, OneVerdict, TokensOrdered, Running, Between, Points, Lead, Stop, Last

(* Eating a rune inside a token keeps the invariant.                        *)
LEMMA EatKeeps ==
    ASSUME LexInv, pc \in Running, Eats
    PROVE  LexInv'
<1>1. PICK p \in Running : eat(p)
  BY DEF Eats
<1>2. /\ Eaten \in Pos /\ Eaten.Offset > current.Offset
      /\ read' \in 0..Len(code)
  BY <1>1, EatenForward DEF eat, LexInv
<1>3. /\ current' = Eaten /\ pc' = p /\ code' = code /\ start' = start
      /\ tokens' = tokens /\ err' = err
  BY <1>1 DEF eat
<1>4. start.Offset \in Nat /\ current.Offset \in Nat /\ Eaten.Offset \in Nat
  BY <1>2 DEF LexInv, TypeOK, Pos
<1>5. TypeOK'
  BY <1>2, <1>3 DEF LexInv, TypeOK, Running
<1>6. OneVerdict' /\ TokensOrdered'
  BY <1>3 DEF LexInv, OneVerdict, TokensOrdered, Running, Stop, Last
<1>7. (start.Offset < current.Offset)'
  BY <1>2, <1>3, <1>4 DEF LexInv
<1>8. QED
  BY <1>3, <1>4, <1>5, <1>6, <1>7 DEF LexInv, Running, Stop

(* The offsets of the tokens are numbers.                                   *)
LEMMA TokenOffsets ==
    ASSUME TypeOK
    PROVE  \A i \in DOMAIN tokens : /\ tokens[i].Start.Offset \in Nat
                                    /\ tokens[i].End.Offset \in Nat
<1> DEFINE T == [kind : Kind \cup {"ILLEGAL", "EOF"}, Start : Pos, End : Pos]
<1>1. tokens \in Seq(T)
  BY DEF TypeOK
<1>2. \A p \in Pos : p.Offset \in Nat
  BY DEF Pos
<1>3. \A i \in DOMAIN tokens : tokens[i] \in T
  <2> HIDE DEF T
  <2> QED
    BY <1>1
<1>4. \A t \in T : t.Start \in Pos /\ t.End \in Pos
  OBVIOUS
<1> HIDE DEF T
<1>5. QED
  BY <1>2, <1>3, <1>4

(* consume moves both positions.                                            *)
LEMMA ConsumeKeeps ==
    ASSUME LexInv, pc = "lex", consume
    PROVE  LexInv'
<1>1. /\ Eaten \in Pos /\ Eaten.Offset > current.Offset
      /\ read' \in 0..Len(code)
  BY EatenForward DEF consume, LexInv
<1>2. /\ current' = Eaten /\ start' = Eaten /\ pc' = pc /\ code' = code
      /\ tokens' = tokens /\ err' = err
  BY DEF consume
<1>3. start.Offset \in Nat /\ current.Offset \in Nat /\ Eaten.Offset \in Nat
  BY <1>1 DEF LexInv, TypeOK, Pos
<1>4. TypeOK'
  BY <1>1, <1>2 DEF LexInv, TypeOK
<1>5. OneVerdict' /\ TokensOrdered'
  BY <1>2 DEF LexInv, OneVerdict, TokensOrdered, Last
<1>6. (\A i \in DOMAIN tokens : tokens[i].End.Offset <= start.Offset)'
  <2>1. \A i \in DOMAIN tokens : tokens[i].End.Offset \in Nat
    BY TokenOffsets DEF LexInv
  <2>2. QED
    BY <1>1, <1>2, <1>3, <2>1 DEF LexInv
<1>7. QED
  BY <1>2, <1>3, <1>4, <1>5, <1>6 DEF LexInv, Stop

(* Appending a token that starts at l.start keeps the order; the token may  *)
(* be empty only if it is a verdict.                                        *)
LEMMA AppendOrdered ==
    ASSUME LexInv, NEW k \in Kind \cup {"ILLEGAL", "EOF"}, NEW e \in Pos,
           start.Offset <= e.Offset,
           k \in {"ILLEGAL", "EOF"} \/ start.Offset < e.Offset,
           tokens' = Append(tokens, [kind |-> k, Start |-> start, End |-> e]),
           start' = e
    PROVE  /\ tokens' \in Seq([kind : Kind \cup {"ILLEGAL", "EOF"}, Start : Pos, End : Pos])
           /\ TokensOrdered'
           /\ (\A i \in DOMAIN tokens : tokens[i].End.Offset <= start.Offset)'
<1> DEFINE T == [kind : Kind \cup {"ILLEGAL", "EOF"}, Start : Pos, End : Pos]
           t == [kind |-> k, Start |-> start, End |-> e]
<1>1. tokens \in Seq(T) /\ t \in T
  BY DEF LexInv, TypeOK
<1>2. PICK n \in Nat : n = Len(tokens)
  BY <1>1
<1>3. /\ tokens' \in Seq(T) /\ Len(tokens') = n + 1
      /\ \A i \in 1..n : tokens'[i] = tokens[i]
      /\ tokens'[n + 1] = t
  BY <1>1, <1>2
<1>4. DOMAIN tokens = 1..n /\ DOMAIN tokens' = 1..(n + 1)
  BY <1>1, <1>2, <1>3
<1>5. /\ start.Offset \in Nat /\ e.Offset \in Nat
      /\ \A i \in 1..n : tokens[i].End.Offset \in Nat /\ tokens[i].Start.Offset \in Nat
  BY <1>4, TokenOffsets DEF LexInv, TypeOK, Pos
<1>6. \A i \in 1..n : tokens'[i].End.Offset <= start.Offset
  BY <1>3, <1>4 DEF LexInv
<1>7. \A i \in 1..(n + 1) : i \in 1..n \/ i = n + 1
  BY <1>2
<1>8. \A i \in 1..(n + 1) :
        /\ tokens'[i].Start.Offset <= tokens'[i].End.Offset
        /\ tokens'[i].kind \notin {"ILLEGAL", "EOF"} =>
             tokens'[i].Start.Offset < tokens'[i].End.Offset
  BY <1>3, <1>4, <1>7 DEF LexInv, TokensOrdered
<1>9. \A i, j \in 1..(n + 1) : i < j => tokens'[i].End.Offset <= tokens'[j].Start.Offset
  <2>1. SUFFICES ASSUME NEW i \in 1..(n + 1), NEW j \in 1..(n + 1), i < j
                 PROVE  tokens'[i].End.Offset <= tokens'[j].Start.Offset
    OBVIOUS
  <2>2. i \in 1..n
    BY <2>1
  <2>3. CASE j \in 1..n
    BY <2>1, <2>2, <2>3, <1>3, <1>4 DEF LexInv, TokensOrdered
  <2>4. CASE j = n + 1
    BY <2>2, <2>4, <1>3, <1>6
  <2>5. QED
    BY <2>3, <2>4, <1>7
<1>10. \A i \in 1..(n + 1) : tokens'[i].End.Offset <= start'.Offset
  BY <1>3, <1>5, <1>6, <1>7
<1>11. QED
  BY <1>3, <1>4, <1>8, <1>9, <1>10 DEF TokensOrdered

(* The tokens after an append: the old ones and the new one.                *)
LEMMA OldTokens ==
    ASSUME TypeOK, NEW t, tokens' = Append(tokens, t)
    PROVE  /\ tokens' /= <<>> /\ tokens'[Len(tokens')] = t
           /\ \A i \in DOMAIN tokens' :
                (i \in DOMAIN tokens /\ tokens'[i] = tokens[i]) \/ (i = Len(tokens') /\ tokens'[i] = t)
<1> DEFINE T == [kind : Kind \cup {"ILLEGAL", "EOF"}, Start : Pos, End : Pos]
<1>1. tokens \in Seq(T)
  BY DEF TypeOK
<1> HIDE DEF T
<1>2. QED
  BY <1>1

(* So does emitting a token,                                                *)
LEMMA EmitKeeps ==
    ASSUME LexInv, pc \in Running, Emits
    PROVE  LexInv'
<1>1. PICK k \in Kind, e \in Pos, p \in Between :
          /\ emit(k, e, p) /\ start.Offset < e.Offset /\ current' = e
          /\ read' \in 0..Len(code) /\ UNCHANGED err
  BY DEF Emits
<1>2. /\ tokens' = Append(tokens, [kind |-> k, Start |-> start, End |-> e])
      /\ start' = e /\ pc' \in {p, "panic"} /\ code' = code
  BY <1>1 DEF emit, Slice
<1>3. /\ start.Offset \in Nat /\ e.Offset \in Nat
      /\ start.Offset < e.Offset /\ start.Offset <= e.Offset
      /\ k \in Kind \cup {"ILLEGAL", "EOF"}
  BY <1>1 DEF LexInv, TypeOK, Pos
<1>4. /\ tokens' \in Seq([kind : Kind \cup {"ILLEGAL", "EOF"}, Start : Pos, End : Pos])
      /\ TokensOrdered'
      /\ (\A i \in DOMAIN tokens : tokens[i].End.Offset <= start.Offset)'
  <2> HIDE DEF LexInv
  <2> QED
    BY <1>2, <1>3, AppendOrdered
<1>5. TypeOK'
  BY <1>1, <1>2, <1>4 DEF LexInv, TypeOK, Between, Points
<1>6. k \notin {"ILLEGAL", "EOF"}
  BY DEF Kind, OperatorLexeme, Range, Single
<1>7. (\A i \in DOMAIN tokens : tokens[i].kind \notin {"ILLEGAL", "EOF"})' /\ err' = <<>>
  BY <1>1, <1>2, <1>6, OldTokens DEF LexInv, Running, TypeOK
<1>8. OneVerdict'
  BY <1>2, <1>7 DEF OneVerdict, Between
<1>9. QED
  BY <1>1, <1>2, <1>3, <1>4, <1>5, <1>7, <1>8 DEF LexInv, Between, Stop

(* and the verdict.                                                         *)
LEMMA CloseKeeps ==
    ASSUME LexInv, pc \in Running, Closes
    PROVE  LexInv'
<1>1. PICK k \in {"ILLEGAL", "EOF"} :
        /\ emit(k, current, "done") /\ UNCHANGED <<read, current>>
        /\ err' = IF k = "EOF" THEN err ELSE <<[Start |-> start, End |-> current]>>
  BY DEF Closes, fail
<1>2. /\ tokens' = Append(tokens, [kind |-> k, Start |-> start, End |-> current])
      /\ start' = current /\ pc' \in Stop /\ code' = code
  BY <1>1 DEF emit, Slice, Stop
<1>3. start.Offset \in Nat /\ current.Offset \in Nat
  BY DEF LexInv, TypeOK, Pos
<1>4. /\ tokens' \in Seq([kind : Kind \cup {"ILLEGAL", "EOF"}, Start : Pos, End : Pos])
      /\ TokensOrdered'
      /\ (\A i \in DOMAIN tokens : tokens[i].End.Offset <= start.Offset)'
  BY <1>1, <1>2, <1>3, AppendOrdered DEF LexInv, TypeOK
<1>5. TypeOK'
  BY <1>1, <1>2, <1>4 DEF LexInv, TypeOK, Points, Stop
<1>6. /\ \A i \in DOMAIN tokens' : tokens'[i].kind \in {"ILLEGAL", "EOF"} => i = Len(tokens')
      /\ tokens' /= <<>> /\ tokens'[Len(tokens')].kind = k
  BY <1>1, <1>2, OldTokens DEF LexInv, Running, TypeOK
<1>7. err = <<>> /\ err' = IF k = "EOF" THEN <<>> ELSE <<[Start |-> start, End |-> current]>>
  BY <1>1 DEF LexInv, Running
<1>8. OneVerdict'
  BY <1>2, <1>6, <1>7 DEF OneVerdict, Stop, Last
<1>9. QED
  BY <1>1, <1>2, <1>3, <1>4, <1>5, <1>8 DEF LexInv, Stop

-----------------------------------------------------------------------------
(* Each state function takes steps of these shapes.                         *)
Shaped == pc \in Running /\ (Moves \/ Eats \/ Emits \/ Closes \/ (pc = "lex" /\ consume))

(* So every step of one of the five shapes keeps it.                        *)
LEMMA ShapedKeeps == LexInv /\ Shaped => LexInv'
BY MoveKeeps, EatKeeps, EmitKeeps, CloseKeeps, ConsumeKeeps DEF Shaped

(* Emit inside a token and EatEmit anywhere yield a token that is not empty. *)
LEMMA EmitIsShaped ==
    ASSUME LexInv, NEW k \in Kind, pc \in Running
    PROVE  /\ pc \notin Between /\ Emit(k) => Emits
           /\ EatEmit(k) => Emits
<1>1. /\ start.Offset \in Nat /\ current \in Pos /\ current.Offset \in Nat
      /\ start.Offset <= current.Offset /\ read \in 0..Len(code)
  BY DEF LexInv, TypeOK, Pos
<1>2. ASSUME pc \notin Between, Emit(k)
      PROVE  Emits
  <2>1. start.Offset < current.Offset
    BY <1>2 DEF LexInv, Running, Between
  <2>2. emit(k, current, "lex") /\ current' = current /\ read' \in 0..Len(code) /\ UNCHANGED err
    BY <1>1, <1>2 DEF Emit
  <2>3. QED
    BY <1>1, <2>1, <2>2 DEF Emits, Between
<1>3. ASSUME EatEmit(k)
      PROVE  Emits
  <2>1. /\ Eaten \in Pos /\ start.Offset < Eaten.Offset
        /\ read' \in 0..Len(code)
    BY <1>1, <1>3, EatenForward DEF EatEmit, LexInv, Pos
  <2>2. emit(k, Eaten, "lex") /\ current' = Eaten /\ UNCHANGED err
    BY <1>3 DEF EatEmit
  <2>3. QED
    BY <2>1, <2>2 DEF Emits, Between
<1>4. QED
  BY <1>2, <1>3

(* The tokens the state functions emit are tokens.                          *)
LEMMA Kinds ==
    /\ {"NOT_EQUAL", "NOT", "COMMENT", "EQUAL", "FAT_RIGHT_ARROW", "ASSIGN",
        "COLON_COLON", "COLON", "RIGHT_ARROW", "MINUS", "LESS_EQUAL", "LESS",
        "GREATER_EQUAL", "GREATER", "OR", "AND", "DOT", "ELLIPSIS", "KEYWORD",
        "IDENT", "STRING", "INT", "FLOAT", "SINGLE_QUOTE"} \subseteq Kind
    /\ \A c \in DOMAIN Single : Single[c] \in Kind
BY DEF Kind, OperatorLexeme, Range

(* Every state function makes a step of one of the shapes.                  *)
LEMMA StepIsShaped == LexInv /\ Step => Shaped
<1> SUFFICES ASSUME LexInv, Step
             PROVE  Shaped
  OBVIOUS
<1>e. \A p \in Running : eat(p) => Eats
  BY DEF Eats
<1>1. CASE lex
  <2>1. pc = "lex" /\ pc \in Running
    BY <1>1 DEF lex, Running, Points, Stop
  <2>2. ASSUME top = "'", emit("SINGLE_QUOTE", Eaten, "lexIdent"), current' = Eaten, forward, UNCHANGED err
        PROVE  Emits
    <3>1. Eaten \in Pos /\ start.Offset < Eaten.Offset /\ read' \in 0..Len(code)
      BY <2>2, EatenForward DEF LexInv, TypeOK, Pos
    <3>2. QED
      BY <2>2, <3>1, Kinds DEF Emits, Between
  <2>3. ASSUME top \in DOMAIN Single, EatEmit(Single[top])
        PROVE  Emits
    BY <2>1, <2>3, Kinds, EmitIsShaped
  <2>4. /\ top \in Lead => top \in Running
        /\ {"string", "lexNumber", "lexDigit"} \subseteq Running
    BY DEF Running, Points, Lead, Stop
  <2>5. ASSUME pc' = "lexIdent", UNCHANGED <<code, read, start, current, tokens, err>>
        PROVE  Moves
    BY <2>5 DEF Moves, Running, Between, Points, Stop
  <2>6. QED
    BY <1>1, <1>e, <2>1, <2>2, <2>3, <2>4, <2>5 DEF lex, Shaped, Closes
<1>2. CASE lexExclamation
  <2>1. pc \in Running \ Between /\ "comment" \in Running
    BY <1>2 DEF lexExclamation, Running, Between, Points, Lead, Stop
  <2>2. QED
    BY <1>2, <1>e, <2>1, EmitIsShaped, Kinds DEF lexExclamation, Shaped
<1>3. CASE lexEqual \/ lexColon \/ lexMinus \/ lexLess \/ lexGreater
  <2>1. pc \in Running \ Between
    BY <1>3 DEF lexEqual, lexColon, lexMinus, lexLess, lexGreater, Running, Between, Points, Lead, Stop
  <2>2. QED
    BY <1>3, <2>1, EmitIsShaped, Kinds DEF lexEqual, lexColon, lexMinus, lexLess, lexGreater, Shaped
<1>4. CASE lexOr \/ lexAnd \/ lexDot
  <2>1. pc \in Running \ Between /\ ".." \in Running
    BY <1>4 DEF lexOr, lexAnd, lexDot, Running, Between, Points, Lead, Stop
  <2>2. QED
    BY <1>4, <1>e, <2>1, EmitIsShaped, Kinds DEF lexOr, lexAnd, lexDot, Shaped, Closes
<1>5. CASE lexIdent
  <2>1. pc \in Running /\ {"ident", "keyword"} \subseteq Running \ Between
    BY <1>5 DEF lexIdent, Running, Between, Points, Lead, Stop
  <2>2. ASSUME pc = "ident", Slice(current, "keyword"), UNCHANGED <<code, read, start, current, tokens, err>>
        PROVE  Moves
    BY <2>1, <2>2 DEF Moves, Slice
  <2>3. ASSUME pc = "keyword", Emit(IF currentString \in keywords THEN "KEYWORD" ELSE "IDENT")
        PROVE  Emits
    BY <2>1, <2>3, EmitIsShaped, Kinds
  <2>4. QED
    BY <1>5, <1>e, <2>1, <2>2, <2>3 DEF lexIdent, Shaped, Closes
<1>6. CASE lexStringLiteral
  <2>1. pc \in Running /\ {"string", "escape", "escaped"} \subseteq Running
    BY <1>6 DEF lexStringLiteral, Running, Points, Lead, Stop
  <2>2. QED
    BY <1>6, <1>e, <2>1, EmitIsShaped, Kinds DEF lexStringLiteral, Shaped, Closes
<1>7. CASE lexNumber
  <2>1. /\ pc \in Running \ Between
        /\ {"lexHex", "lexBin", "lexDigit"} \subseteq Running
    BY <1>7 DEF lexNumber, Running, Between, Points, Lead, Stop
  <2>2. QED
    BY <1>7, <1>e, <2>1 DEF lexNumber, Shaped, Moves
<1>8. CASE lexDigit
  <2>1. /\ pc \in Running \ Between
        /\ {"lexDigit", "fraction", "exponent", "sign", "power"} \subseteq Running
    BY <1>8 DEF lexDigit, Running, Between, Points, Lead, Stop
  <2>2. QED
    BY <1>8, <1>e, <2>1, EmitIsShaped, Kinds DEF lexDigit, Shaped, Closes
<1>9. CASE lexHex \/ lexBin
  <2>1. /\ pc \in Running \ Between
        /\ {"hex", "bin"} \subseteq Running
    BY <1>9 DEF lexHex, lexBin, Radix, Running, Between, Points, Lead, Stop
  <2>2. QED
    BY <1>9, <1>e, <2>1, EmitIsShaped, Kinds DEF lexHex, lexBin, Radix, Shaped, Closes
<1>10. QED
  BY <1>1, <1>2, <1>3, <1>4, <1>5, <1>6, <1>7, <1>8, <1>9 DEF Step

(* The invariant holds always.                                              *)
LEMMA LexInvHolds == Spec => []LexInv
<1>1. Init => LexInv
  BY SourcesAssumption DEF Init, LexInv, TypeOK, Pos, Points, OneVerdict, TokensOrdered, Stop
<1>2. LexInv /\ [Next]_vars => LexInv'
  <2>1. LexInv /\ Step => LexInv'
    BY StepIsShaped, ShapedKeeps
  <2>2. LexInv /\ UNCHANGED vars => LexInv'
    BY DEF vars, LexInv, TypeOK, OneVerdict, TokensOrdered, Last
  <2>3. QED
    BY <2>1, <2>2 DEF Next, Stopped
<1>3. QED
  BY <1>1, <1>2, PTL DEF Spec

(* The type invariant holds on every source: in particular eat never moves  *)
(* the reader behind the last rune, whatever the text ends with.            *)
THEOREM LexerTypeCorrect == Spec => []TypeOK
<1>1. LexInv => TypeOK
  BY DEF LexInv
<1>2. QED
  BY <1>1, LexInvHolds, PTL

(* The contract with the parser: on every source the stream is closed by    *)
(* one EOF or ILLEGAL token, ILLEGAL exactly when the error callback ran.   *)
THEOREM LexerVerdict == Spec => []OneVerdict
<1>1. LexInv => OneVerdict
  BY DEF LexInv
<1>2. QED
  BY <1>1, LexInvHolds, PTL

(* On every source, invalid UTF-8 included, the tokens that emit sends      *)
(* follow each other without overlap and are not empty.                     *)
THEOREM LexerOrdered == Spec => []TokensOrdered
<1>1. LexInv => TokensOrdered
  BY DEF LexInv
<1>2. QED
  BY <1>1, LexInvHolds, PTL

-----------------------------------------------------------------------------
(* The text of a token.  t is the source from the start of a token on and m *)
(* the number of its runes that are read; the lexical grammar is restated   *)
(* rune by rune for the first m runes of t.                                 *)
After(t, m) == IF m < Len(t) THEN t[m + 1] ELSE Eof

AllDigits(t, m) == m >= 1 /\ \A i \in 1..m : t[i] \in Digit
Mantissa(t, m) ==
    \E i \in 2..m : t[i] = "." /\ \A j \in 1..m : j # i => t[j] \in Digit
Exponent(t, m) == m >= 2 /\ t[m] = "e" /\ (Mantissa(t, m - 1) \/ AllDigits(t, m - 1))
Signed(t, m) == m >= 2 /\ t[m] \in {"+", "-"} /\ Exponent(t, m - 1)
Power(t, m) ==
    \E i \in 1..(m - 1) : /\ Exponent(t, i) \/ Signed(t, i)
                          /\ \A j \in (i + 1)..m : t[j] \in Digit
RadixText(t, m, c, D) ==
    m > 2 /\ t[1] = "0" /\ t[2] = c /\ \A i \in 3..m : t[i] \in D
IntBody(t, m) ==
    AllDigits(t, m) \/ RadixText(t, m, "x", Hex) \/ RadixText(t, m, "b", {"0", "1"})
IntText(t, m) == IntBody(t, m) \/ (m >= 2 /\ t[m] = "u" /\ IntBody(t, m - 1))
FloatText(t, m) == Mantissa(t, m) \/ Power(t, m)

(* Without two escapes in a row a rune is escaped when exactly one          *)
(* backslash stands before it.                                              *)
Plain(t) == \A i \in 1..(Len(t) - 2) : ~(t[i] = "bs" /\ t[i + 2] = "bs")
Esc(t, i) == i >= 3 /\ t[i - 1] = "bs" /\ t[i - 2] # "bs"
OpenString(t, m) == m >= 1 /\ t[1] = "dq" /\ \A i \in 2..m : t[i] = "dq" => Esc(t, i)
StringText(t, m) ==
    /\ m >= 2 /\ t[1] = "dq" /\ t[m] = "dq"
    /\ \A i \in 2..m : t[i] = "dq" => (Esc(t, i) <=> i < m)

IdentText(t, m) == m >= 1 /\ t[1] \in Letter /\ \A i \in 1..m : t[i] \in Letter \cup Digit
CommentText(t, m) ==
    m >= 2 /\ t[1] = "!" /\ t[2] = "!" /\ \A i \in 1..m : t[i] # "nl"
OperatorText(t, m) ==
    \/ m = 1 /\ t[1] \in {"!", "=", ":", "-", "<", ">", ".", "'"}
    \/ m = 2 /\ t[2] = "=" /\ t[1] \in {"!", "=", "<", ">"}
    \/ m = 2 /\ t[2] = ">" /\ t[1] \in {"=", "-"}
    \/ m = 2 /\ t[2] = t[1] /\ t[1] \in {":", "|", "&"}
    \/ m = 3 /\ t[1] = "." /\ t[2] = "." /\ t[3] = "."
SingleText(t, m) == m = 1 /\ t[1] \in DOMAIN Single

(* The first m runes of t are a lexeme of some kind.                        *)
Form(t, m) ==
    \/ IntText(t, m) \/ FloatText(t, m) \/ StringText(t, m) \/ IdentText(t, m)
    \/ CommentText(t, m) \/ OperatorText(t, m) \/ SingleText(t, m)
NoLonger(t, m) == \A j \in (m + 1)..Len(t) : ~ Form(t, j)
Barren(t, m) == \A j \in m..Len(t) : ~ Form(t, j)

(* What each point of a state function knows about the runes it has eaten.  *)
NumberShape(p, t, m) ==
    /\ p \in {"lexNumber", "lexHex", "lexBin"} => m >= 1 /\ t[1] = "0"
    /\ p = "lexNumber" => m = 1
    /\ p = "lexHex" => m = 2 /\ t[2] = "x"
    /\ p = "lexBin" => m = 2 /\ t[2] = "b"
    /\ p = "hex" => RadixText(t, m, "x", Hex)
    /\ p = "bin" => RadixText(t, m, "b", {"0", "1"})
    /\ p = "lexDigit" => /\ AllDigits(t, m)
                         /\ m = 1 /\ t[1] = "0" => After(t, m) \notin {"x", "b"}
    /\ p = "fraction" => Mantissa(t, m)
    /\ p = "exponent" => Exponent(t, m)
    /\ p = "sign" => Signed(t, m)
    /\ p = "power" => Power(t, m)
StringShape(p, t, m) ==
    /\ p \in {"string", "escape", "escaped"} => OpenString(t, m)
    /\ p = "string" /\ m < Len(t) => ~ Esc(t, m + 1)
    /\ p = "escape" => Esc(t, m + 1)
    /\ p = "escaped" /\ m < Len(t) => m >= 3 /\ t[m - 1] = "bs"
Shape(p, t, m) ==
    /\ p \in Between => m = 0
    /\ p \in Lead => m = 1 /\ t[1] = p
    /\ p = ".." => m = 2 /\ t[1] = "." /\ t[2] = "."
    /\ p = "comment" => CommentText(t, m)
    /\ p \in {"ident", "keyword"} => IdentText(t, m)
    /\ p = "keyword" => After(t, m) \notin Letter \cup Digit
    /\ NumberShape(p, t, m)
    /\ Plain(t) => StringShape(p, t, m)

-----------------------------------------------------------------------------
(* Line and column of p are the ones its offset has in the source.          *)
TruePos(p) ==
    LET ends == {b \in 1..p.Offset : Bytes[b] = "nl"}
    IN  /\ p.Line = 1 + Cardinality(ends)
        /\ p.Column = 1 + Cardinality({b \in 1..p.Offset : \A n \in ends : n < b})

(* The token t is a longest lexeme.                                         *)
LongestToken(t) ==
    \E i, j \in 0..Len(code) :
        /\ OffsetOf(i) = t.Start.Offset /\ OffsetOf(j) = t.End.Offset
        /\ Lexeme(t.kind, Text(i, j))
        /\ \A k \in (j + 1)..Len(code) : ~IsLexeme(Text(i, k))

(* The error that was reported is justified.                                *)
Justified ==
    \E i \in 0..Len(code) :
        /\ OffsetOf(i) = err[1].Start.Offset
        /\ \A k \in read..Len(code), kind \in Kind :
             Lexeme(kind, Text(i, k)) => AfterQuote /\ kind \notin {"IDENT", "KEYWORD"}

(* The token in progress starts at rune s, and everything up to rune read   *)
(* has been eaten since.  Only an escape cut short by the end of the source *)
(* moves the position behind it.                                            *)
Scanning(s) ==
    /\ start.Offset = OffsetOf(s)
    /\ Shape(pc, Text(s, Len(code)), read - s)
    /\ \/ current.Offset = OffsetOf(read) /\ TruePos(current)
       \/ read = Len(code) /\ pc \in {"string", "escaped"}
Placed == TruePos(start) /\ \E s \in 0..read : Scanning(s)

(* lexIdent is entered at a letter, at a rune that starts no token, or      *)
(* behind a single quote.                                                   *)
Headed ==
    pc = "lexIdent" =>
        \/ top \in Letter \cup {"bs", "#", "bad"}
        \/ tokens # <<>> /\ Last(tokens).kind = "SINGLE_QUOTE"

(* Every byte before the token in progress is in a token or a space.        *)
Covered ==
    err = <<>> => \A b \in 1..start.Offset :
        Bytes[b] \in Space \/ \E t \in Lexed : t.Start.Offset < b /\ b <= t.End.Offset

TokensExact ==
    \A t \in Lexed : /\ TruePos(t.Start) /\ TruePos(t.End)
                     /\ ~AdjacentEscapes => LongestToken(t)
Verdict ==
    pc = "done" =>
        /\ err = <<>> => /\ start.Offset = Len(Bytes)
                         /\ Last(tokens).End.Offset = Len(Bytes)
        /\ err # <<>> /\ ~AdjacentEscapes => Justified

(* The inductive form of LexedExactly.                                      *)
ExactInv ==
    LexInv /\ (ValidUTF8 => /\ pc \notin Stop => Placed /\ Headed
                            /\ Covered /\ TokensExact /\ Verdict)

-----------------------------------------------------------------------------
(* Number literals.  The runes of each part of one.                         *)
LEMMA MantissaRunes ==
    ASSUME NEW t, NEW m \in Nat, Mantissa(t, m)
    PROVE  /\ m >= 2 /\ t[1] \in Digit
           /\ \A i \in 1..m : t[i] \in Digit \cup {"."}
           /\ \A i, j \in 1..m : t[i] = "." /\ t[j] = "." => i = j
           /\ \E i \in 2..m : t[i] = "."
<1>1. PICK i \in 2..m : t[i] = "." /\ \A j \in 1..m : j # i => t[j] \in Digit
  BY DEF Mantissa
<1>2. "." \notin Digit
  BY DEF Digit
<1> QED
  BY <1>1, <1>2

(* The mantissa stands before the e of an exponent,                         *)
LEMMA ExponentRunes ==
    ASSUME NEW t, NEW m \in Nat, Exponent(t, m)
    PROVE  /\ m >= 2 /\ t[m] = "e" /\ t[1] \in Digit
           /\ \A i \in 1..(m - 1) : t[i] \in Digit \cup {"."}
<1>1. m >= 2 /\ t[m] = "e" /\ (Mantissa(t, m - 1) \/ AllDigits(t, m - 1)) /\ m - 1 \in Nat
  BY DEF Exponent
<1>2. CASE Mantissa(t, m - 1)
  BY <1>1, <1>2, MantissaRunes
<1>3. CASE AllDigits(t, m - 1)
  BY <1>1, <1>3 DEF AllDigits
<1> QED
  BY <1>1, <1>2, <1>3

(* and the e before its sign.                                               *)
LEMMA SignedRunes ==
    ASSUME NEW t, NEW m \in Nat, Signed(t, m)
    PROVE  /\ m >= 3 /\ t[m] \in {"+", "-"} /\ t[m - 1] = "e" /\ t[1] \in Digit
           /\ \A i \in 1..(m - 2) : t[i] \in Digit \cup {"."}
<1>1. m >= 2 /\ t[m] \in {"+", "-"} /\ Exponent(t, m - 1) /\ m - 1 \in Nat
  BY DEF Signed
<1> QED
  BY <1>1, ExponentRunes

(* Where the exponent of a number begins.                                   *)
LEMMA PowerRunes ==
    ASSUME NEW t, NEW m \in Nat, Power(t, m)
    PROVE  \E i \in 2..(m - 1) :
             /\ t[i] = "e" /\ Exponent(t, i) /\ t[1] \in Digit
             /\ \A k \in 1..(i - 1) : t[k] \in Digit \cup {"."}
             /\ \/ \A k \in (i + 1)..m : t[k] \in Digit
                \/ /\ i + 1 < m /\ t[i + 1] \in {"+", "-"}
                   /\ \A k \in (i + 2)..m : t[k] \in Digit
<1>1. PICK i \in 1..(m - 1) : /\ Exponent(t, i) \/ Signed(t, i)
                              /\ \A j \in (i + 1)..m : t[j] \in Digit
  BY DEF Power
<1>2. CASE Exponent(t, i)
  BY <1>1, <1>2, ExponentRunes
<1>3. CASE Signed(t, i)
  <2>1. /\ i >= 3 /\ t[i] \in {"+", "-"} /\ t[i - 1] = "e" /\ t[1] \in Digit
        /\ \A k \in 1..(i - 2) : t[k] \in Digit \cup {"."}
    BY <1>3, SignedRunes
  <2>2. PICK e \in 2..(m - 1) : e = i - 1
    BY <1>1, <2>1
  <2>3. Exponent(t, e) /\ t[e] = "e" /\ e + 1 = i /\ e + 2 = i + 1 /\ e - 1 = i - 2 /\ e + 1 < m
    BY <1>1, <1>3, <2>1, <2>2 DEF Signed
  <2> QED
    BY <1>1, <2>1, <2>3
<1> QED
  BY <1>1, <1>2, <1>3

(* A number literal starts with a digit; a suffix u ends it.                *)
LEMMA NumberRunes ==
    ASSUME NEW t, NEW m \in Nat, IntText(t, m) \/ FloatText(t, m)
    PROVE  /\ m >= 1 /\ t[1] \in Digit
           /\ \A i \in 1..m : t[i] = "u" => i = m /\ i > 1
<1>1. ASSUME NEW k \in Nat, IntBody(t, k)
      PROVE  k >= 1 /\ t[1] \in Digit /\ \A i \in 1..k : t[i] # "u"
  <2>1. CASE AllDigits(t, k)
    BY <2>1 DEF AllDigits, Digit
  <2>2. ASSUME NEW c \in {"x", "b"}, RadixText(t, k, c, Hex)
        PROVE  k >= 1 /\ t[1] \in Digit /\ \A i \in 1..k : t[i] # "u"
    <3>1. \A i \in 1..k : i = 1 \/ i = 2 \/ i \in 3..k
      OBVIOUS
    <3> QED BY <2>2, <3>1 DEF RadixText, Hex, Digit
  <2>3. RadixText(t, k, "b", {"0", "1"}) => RadixText(t, k, "b", Hex)
    BY DEF RadixText, Hex, Digit
  <2> QED
    BY <1>1, <2>1, <2>2, <2>3 DEF IntBody
<1>2. CASE IntBody(t, m)
  BY <1>1, <1>2
<1>3. CASE m >= 2 /\ t[m] = "u" /\ IntBody(t, m - 1)
  <2>1. m - 1 \in Nat /\ \A i \in 1..m : i \in 1..(m - 1) \/ i = m
    BY <1>3
  <2> QED BY <1>1, <1>3, <2>1
<1>4. CASE Mantissa(t, m)
  BY <1>4, MantissaRunes DEF Digit
<1>5. CASE Power(t, m)
  <2>1. PICK i \in 2..(m - 1) :
             /\ t[i] = "e" /\ t[1] \in Digit
             /\ \A k \in 1..(i - 1) : t[k] \in Digit \cup {"."}
             /\ \/ \A k \in (i + 1)..m : t[k] \in Digit
                \/ /\ i + 1 < m /\ t[i + 1] \in {"+", "-"}
                   /\ \A k \in (i + 2)..m : t[k] \in Digit
    BY <1>5, PowerRunes
  <2>2. \A k \in 1..m : k \in 1..(i - 1) \/ k = i \/ k = i + 1 \/ k \in (i + 2)..m
    BY <2>1
  <2>3. i + 1 \in (i + 1)..m /\ \A k \in (i + 2)..m : k \in (i + 1)..m
    BY <2>1
  <2> QED BY <2>1, <2>2, <2>3 DEF Digit
<1> QED
  BY <1>2, <1>3, <1>4, <1>5 DEF IntText, FloatText

(* What can follow in a longer number literal: digits, a dot, an exponent   *)
(* or the suffix behind digits, and a radix behind a single 0.              *)
LEMMA BehindDigits ==
    ASSUME NEW t, NEW m \in Nat, NEW j \in Nat, m < j, AllDigits(t, m),
           IntText(t, j) \/ FloatText(t, j)
    PROVE  \/ t[m + 1] \in Digit \cup {".", "e", "u"}
           \/ m = 1 /\ t[1] = "0" /\ t[2] \in {"x", "b"}
<1> DEFINE Goal == \/ t[m + 1] \in Digit \cup {".", "e", "u"}
                   \/ m = 1 /\ t[1] = "0" /\ t[2] \in {"x", "b"}
<1>1. m >= 1 /\ \A i \in 1..m : t[i] \in Digit
  BY DEF AllDigits
<1>2. ASSUME NEW k \in Nat, m < k, IntBody(t, k)
      PROVE  Goal
  <2>1. CASE AllDigits(t, k)
    BY <1>1, <1>2, <2>1 DEF AllDigits
  <2>2. CASE RadixText(t, k, "x", Hex) \/ RadixText(t, k, "b", {"0", "1"})
    <3>1. k > 2 /\ t[1] = "0" /\ t[2] \in {"x", "b"}
      BY <2>2 DEF RadixText
    <3>2. m = 1
      BY <1>1, <3>1 DEF Digit
    <3> QED BY <3>1, <3>2
  <2> QED BY <1>2, <2>1, <2>2 DEF IntBody
<1>3. CASE IntBody(t, j)
  BY <1>2, <1>3
<1>4. CASE j >= 2 /\ t[j] = "u" /\ IntBody(t, j - 1)
  <2>1. CASE m = j - 1
    BY <1>4, <2>1
  <2>2. CASE m < j - 1
    BY <1>2, <1>4, <2>2
  <2> QED BY <2>1, <2>2
<1>5. CASE Mantissa(t, j)
  BY <1>5, MantissaRunes
<1>6. CASE Power(t, j)
  <2>1. PICK i \in 2..(j - 1) :
             /\ t[i] = "e"
             /\ \A k \in 1..(i - 1) : t[k] \in Digit \cup {"."}
    BY <1>6, PowerRunes
  <2>2. i \notin 1..m
    BY <1>1, <2>1 DEF Digit
  <2>3. CASE m + 1 = i
    BY <2>1, <2>3
  <2>4. CASE m + 1 < i
    BY <2>1, <2>4
  <2> QED BY <2>1, <2>2, <2>3, <2>4
<1> QED
  BY <1>3, <1>4, <1>5, <1>6 DEF IntText, FloatText

(* behind the digits of a radix: another one, or the suffix,                *)
LEMMA BehindRadix ==
    ASSUME NEW t, NEW m \in Nat, NEW j \in Nat, 2 <= m, m <= j, NEW c, NEW D,
           <<c, D>> = <<"x", Hex>> \/ <<c, D>> = <<"b", {"0", "1"}>>,
           t[2] = c, \A i \in 3..m : t[i] \in D,
           IntText(t, j) \/ FloatText(t, j)
    PROVE  /\ j > 2
           /\ m = 2 => t[3] \in D
           /\ m < j => t[m + 1] \in D \cup {"u"}
<1>1. (c = "x" /\ D = Hex) \/ (c = "b" /\ D = {"0", "1"})
  OBVIOUS
<1>2. t[2] \notin Digit \cup {".", "e", "u", "+", "-"}
  BY <1>1 DEF Digit
<1>3. ASSUME NEW k \in Nat, k >= 2, IntBody(t, k)
      PROVE  RadixText(t, k, c, D)
  <2>1. ~ AllDigits(t, k)
    BY <1>2, <1>3 DEF AllDigits
  <2>2. RadixText(t, k, "x", Hex) \/ RadixText(t, k, "b", {"0", "1"})
    BY <1>3, <2>1 DEF IntBody
  <2> QED BY <1>1, <2>2 DEF RadixText
<1>4. CASE IntBody(t, j)
  <2>1. RadixText(t, j, c, D)
    BY <1>3, <1>4
  <2> QED BY <2>1 DEF RadixText
<1>5. CASE j >= 2 /\ t[j] = "u" /\ IntBody(t, j - 1)
  <2>1. j # 2
    BY <1>2, <1>5
  <2>2. j - 1 \in Nat /\ j - 1 >= 2
    BY <1>5, <2>1
  <2>3. RadixText(t, j - 1, c, D)
    BY <1>3, <1>5, <2>2
  <2>4. j - 1 > 2 /\ \A i \in 3..(j - 1) : t[i] \in D
    BY <2>3 DEF RadixText
  <2> QED BY <1>5, <2>4
<1>6. CASE Mantissa(t, j)
  <2>1. 2 \in 1..j
    OBVIOUS
  <2> QED BY <1>2, <1>6, <2>1, MantissaRunes
<1>7. CASE Power(t, j)
  <2>1. PICK i \in 2..(j - 1) :
             /\ t[i] = "e"
             /\ \A k \in 1..(i - 1) : t[k] \in Digit \cup {"."}
    BY <1>7, PowerRunes
  <2> QED BY <1>2, <2>1
<1> QED
  BY <1>4, <1>5, <1>6, <1>7 DEF IntText, FloatText

(* behind a mantissa: a digit or the exponent,                              *)
LEMMA BehindMantissa ==
    ASSUME NEW t, NEW m \in Nat, NEW j \in Nat, m < j, Mantissa(t, m),
           IntText(t, j) \/ FloatText(t, j)
    PROVE  t[m + 1] \in Digit \cup {"e"}
<1>1. PICK d \in 2..m : t[d] = "."
  BY MantissaRunes
<1>2. \A i \in 1..m : t[i] \in Digit \cup {"."}
  BY MantissaRunes
<1>3. ASSUME NEW k \in Nat, d <= k PROVE ~ IntBody(t, k)
  <2>1. ~ AllDigits(t, k)
    BY <1>1, <1>3 DEF AllDigits, Digit
  <2>2. d = 2 \/ d \in 3..k
    BY <1>1, <1>3
  <2> QED BY <1>1, <2>1, <2>2 DEF IntBody, RadixText, Hex, Digit
<1>4. ~ IntText(t, j)
  BY <1>1, <1>3 DEF IntText
<1>5. CASE Mantissa(t, j)
  <2>1. m + 1 \in 1..j /\ d \in 1..j /\ m + 1 # d
    BY <1>1
  <2> QED BY <1>1, <1>5, <2>1, MantissaRunes
<1>6. CASE Power(t, j)
  <2>1. PICK i \in 2..(j - 1) : t[i] = "e" /\ Exponent(t, i)
    BY <1>6, PowerRunes
  <2>2. i \notin 1..m
    BY <1>2, <2>1 DEF Digit
  <2>3. CASE m + 1 = i
    BY <2>1, <2>3
  <2>4. CASE m + 1 < i
    <3>1. d \in 1..(i - 1) /\ m + 1 \in 1..(i - 1) /\ m + 1 # d /\ i - 1 \in Nat
      BY <1>1, <2>4
    <3>2. ~ AllDigits(t, i - 1)
      BY <1>1, <3>1 DEF AllDigits, Digit
    <3>3. Mantissa(t, i - 1)
      BY <2>1, <3>2 DEF Exponent
    <3> QED BY <1>1, <3>1, <3>3, MantissaRunes
  <2> QED BY <2>1, <2>2, <2>3, <2>4
<1> QED
  BY <1>4, <1>5, <1>6 DEF FloatText

(* and behind an e, its sign or its digits: more of them.                   *)
LEMMA BehindExponent ==
    ASSUME NEW t, NEW m \in Nat, NEW j \in Nat, m <= j, Exponent(t, m),
           IntText(t, j) \/ FloatText(t, j)
    PROVE  /\ m < j
           /\ \/ \A k \in (m + 1)..j : t[k] \in Digit
              \/ /\ m + 1 < j /\ t[m + 1] \in {"+", "-"}
                 /\ \A k \in (m + 2)..j : t[k] \in Digit
<1>1. m >= 2 /\ t[m] = "e" /\ \A i \in 1..(m - 1) : t[i] \in Digit \cup {"."}
  BY ExponentRunes
<1>2. ASSUME NEW k \in Nat, m <= k PROVE ~ IntBody(t, k)
  <2>1. ~ AllDigits(t, k)
    BY <1>1, <1>2 DEF AllDigits, Digit
  <2>2. t[2] \notin {"x", "b"}
    BY <1>1 DEF Digit
  <2> QED BY <2>1, <2>2 DEF IntBody, RadixText
<1>3. ~ IntText(t, j)
  BY <1>1, <1>2 DEF IntText
<1>4. ~ Mantissa(t, j)
  <2>1. m \in 1..j /\ t[m] \notin Digit \cup {"."}
    BY <1>1 DEF Digit
  <2> QED BY <2>1, MantissaRunes
<1>5. Power(t, j)
  BY <1>3, <1>4 DEF FloatText
<1>6. PICK i \in 2..(j - 1) :
             /\ t[i] = "e" /\ Exponent(t, i) /\ t[1] \in Digit
             /\ \A k \in 1..(i - 1) : t[k] \in Digit \cup {"."}
             /\ \/ \A k \in (i + 1)..j : t[k] \in Digit
                \/ /\ i + 1 < j /\ t[i + 1] \in {"+", "-"}
                   /\ \A k \in (i + 2)..j : t[k] \in Digit
  BY <1>5, PowerRunes
<1>7. ~(m < i) /\ ~(i < m)
  BY <1>1, <1>6 DEF Digit
<1>8. i = m
  BY <1>7
<1> QED
  BY <1>6, <1>8

-----------------------------------------------------------------------------
(* The lexical grammar, rune by rune.  The runes of a slice.                *)
LEMMA SliceRunes ==
    ASSUME NEW S, NEW v \in Seq(S), NEW a \in Nat \ {0}, NEW b \in Nat, b <= Len(v)
    PROVE  /\ SubSeq(v, a, b) \in Seq(S)
           /\ Len(SubSeq(v, a, b)) = IF a <= b THEN b - a + 1 ELSE 0
           /\ \A i \in 1..(b - a + 1) : SubSeq(v, a, b)[i] = v[a + i - 1]
<1>1. \A i \in a..b : v[i] \in S
  <2>1. \A i \in a..b : i \in 1..Len(v)
    BY LenProperties
  <2> QED BY <2>1, ElementOfSeq
<1> QED
  BY <1>1, SubSeqProperties

(* What the two tests of the grammar say of a slice.                        *)
LEMMA SliceOver ==
    ASSUME NEW v \in Seq(Rune), NEW a \in Nat \ {0}, NEW b \in Nat, b <= Len(v), NEW D
    PROVE  /\ Over(SubSeq(v, a, b), D) <=> \A i \in a..b : v[i] \in D
           /\ Number(SubSeq(v, a, b), D) <=> a <= b /\ \A i \in a..b : v[i] \in D
<1> DEFINE u == SubSeq(v, a, b)
<1>1. /\ u \in Seq(Rune) /\ Len(u) = IF a <= b THEN b - a + 1 ELSE 0
      /\ \A i \in 1..(b - a + 1) : u[i] = v[a + i - 1]
  BY SliceRunes
<1> HIDE DEF u
<1>2. DOMAIN u = 1..Len(u) /\ (u = <<>> <=> Len(u) = 0)
  BY <1>1, LenProperties, EmptySeq
<1>3. ASSUME Over(u, D), NEW i \in a..b PROVE v[i] \in D
  <2>1. PICK k \in 1..(b - a + 1) : i = a + k - 1
    <3>1. i - a + 1 \in 1..(b - a + 1) /\ i = a + (i - a + 1) - 1
      OBVIOUS
    <3> QED BY <3>1
  <2>2. k \in DOMAIN u
    BY <1>1, <1>2, <1>3
  <2> QED BY <1>1, <1>3, <2>1, <2>2 DEF Over
<1>4. ASSUME \A i \in a..b : v[i] \in D PROVE Over(u, D)
  <2>1. ASSUME NEW k \in DOMAIN u PROVE u[k] \in D
    <3>1. k \in 1..(b - a + 1) /\ a + k - 1 \in a..b
      BY <1>1, <1>2, <2>1
    <3> QED BY <1>1, <1>4, <3>1
  <2> QED BY <2>1 DEF Over
<1>5. Over(u, D) <=> \A i \in a..b : v[i] \in D
  BY <1>3, <1>4
<1>6. Number(u, D) <=> a <= b /\ \A i \in a..b : v[i] \in D
  BY <1>1, <1>2, <1>5 DEF Number
<1> QED
  BY <1>5, <1>6 DEF u

(* A mantissa.                                                              *)
LEMMA MantissaIs ==
    ASSUME NEW v \in Seq(Rune), NEW m \in 0..Len(v)
    PROVE  /\ IsMantissa(SubSeq(v, 1, m)) <=> Mantissa(v, m)
           /\ Number(SubSeq(v, 1, m), Digit) <=> AllDigits(v, m)
<1> DEFINE u == SubSeq(v, 1, m)
<1>0. Len(v) \in Nat /\ m \in Nat /\ m <= Len(v)
  BY LenProperties
<1>1. u \in Seq(Rune) /\ Len(u) = m /\ \A i \in 1..m : u[i] = v[i]
  BY <1>0, SliceRunes
<1> HIDE DEF u
<1>2. ASSUME NEW i \in 2..m
      PROVE  /\ Number(SubSeq(u, 1, i - 1), Digit) <=> \A j \in 1..(i - 1) : v[j] \in Digit
             /\ Over(SubSeq(u, i + 1, m), Digit) <=> \A j \in (i + 1)..m : v[j] \in Digit
             /\ u[i] = v[i]
  <2>1. i - 1 \in Nat /\ i + 1 \in Nat \ {0} /\ i - 1 <= Len(u) /\ 1 <= i - 1
    BY <1>0, <1>1
  <2>2. Number(SubSeq(u, 1, i - 1), Digit) <=> \A j \in 1..(i - 1) : u[j] \in Digit
    BY <1>1, <2>1, SliceOver
  <2>3. Over(SubSeq(u, i + 1, m), Digit) <=> \A j \in (i + 1)..m : u[j] \in Digit
    BY <1>0, <1>1, <2>1, SliceOver
  <2>4. \A j \in 1..(i - 1) : j \in 1..m
    BY <1>0
  <2>5. \A j \in (i + 1)..m : j \in 1..m
    BY <1>0
  <2> QED BY <1>0, <1>1, <2>2, <2>3, <2>4, <2>5
<1>3. IsMantissa(u) <=> \E i \in 2..m : /\ v[i] = "."
                                        /\ \A j \in 1..(i - 1) : v[j] \in Digit
                                        /\ \A j \in (i + 1)..m : v[j] \in Digit
  BY <1>1, <1>2 DEF IsMantissa
<1>4. \A i \in 2..m : (\A j \in 1..m : j # i => v[j] \in Digit)
        <=> /\ \A j \in 1..(i - 1) : v[j] \in Digit
            /\ \A j \in (i + 1)..m : v[j] \in Digit
  BY <1>0
<1>5. Number(u, Digit) <=> AllDigits(v, m)
  BY <1>0, SliceOver DEF AllDigits, u
<1> QED
  BY <1>3, <1>4, <1>5 DEF Mantissa, u

(* A float literal.                                                         *)
LEMMA FloatIs ==
    ASSUME NEW v \in Seq(Rune)
    PROVE  IsFloat(v) <=> FloatText(v, Len(v))
<1>0. Len(v) \in Nat
  BY LenProperties
<1> DEFINE n == Len(v)
           P(i) == SubSeq(v, i + 1, n)
           Powers(i) == Number(P(i), Digit) \/ (P(i) # <<>> /\ P(i)[1] \in {"+", "-"} /\ Number(Tail(P(i)), Digit))
<1>1. IsMantissa(v) <=> Mantissa(v, n)
  <2>1. n \in 0..Len(v) /\ SubSeq(v, 1, n) = v
    BY <1>0, SubSeqFull
  <2>2. IsMantissa(SubSeq(v, 1, n)) <=> Mantissa(v, n)
    BY <2>1, MantissaIs
  <2> QED BY <2>1, <2>2
<1>2. ASSUME NEW i \in 2..n
      PROVE  /\ v[i] = "e" /\ (IsMantissa(SubSeq(v, 1, i - 1)) \/ Number(SubSeq(v, 1, i - 1), Digit))
                  <=> Exponent(v, i)
             /\ Powers(i) <=> \/ i < n /\ \A j \in (i + 1)..n : v[j] \in Digit
                              \/ /\ i + 1 < n /\ v[i + 1] \in {"+", "-"}
                                 /\ \A j \in (i + 2)..n : v[j] \in Digit
  <2>1. i - 1 \in 0..n /\ i >= 2
    BY <1>0
  <2>2. v[i] = "e" /\ (IsMantissa(SubSeq(v, 1, i - 1)) \/ Number(SubSeq(v, 1, i - 1), Digit))
                  <=> Exponent(v, i)
    BY <2>1, MantissaIs DEF Exponent
  <2>3. Number(P(i), Digit) <=> i < n /\ \A j \in (i + 1)..n : v[j] \in Digit
    <3>1. i + 1 \in Nat \ {0} /\ n \in Nat /\ n <= Len(v)
      BY <1>0
    <3> QED BY <3>1, SliceOver
  <2>4. /\ P(i) \in Seq(Rune) /\ Len(P(i)) = n - i
        /\ i < n => P(i)[1] = v[i + 1]
    <3>1. i + 1 \in Nat \ {0} /\ n \in Nat /\ n <= Len(v)
      BY <1>0
    <3>2. /\ P(i) \in Seq(Rune) /\ Len(P(i)) = IF i + 1 <= n THEN n - (i + 1) + 1 ELSE 0
          /\ \A k \in 1..(n - (i + 1) + 1) : P(i)[k] = v[i + 1 + k - 1]
      BY <3>1, SliceRunes
    <3> QED BY <1>0, <3>2
  <2>5. ASSUME i < n
        PROVE  Tail(P(i)) = SubSeq(v, i + 2, n)
    <3>1. i + 1 \in 1..Len(v) /\ n \in (i + 1)..Len(v) /\ i + 1 + 1 = i + 2
      BY <1>0, <2>5
    <3> QED BY <3>1, HeadTailOfSubSeq
  <2>6. Number(SubSeq(v, i + 2, n), Digit) <=> i + 1 < n /\ \A j \in (i + 2)..n : v[j] \in Digit
    <3>1. i + 2 \in Nat \ {0} /\ n \in Nat /\ n <= Len(v) /\ (i + 2 <= n <=> i + 1 < n)
      BY <1>0
    <3>2. Number(SubSeq(v, i + 2, n), Digit) <=> i + 2 <= n /\ \A j \in (i + 2)..n : v[j] \in Digit
      BY <3>1, SliceOver
    <3> QED BY <3>1, <3>2
  <2>7. P(i) # <<>> <=> i < n
    <3> HIDE DEF P
    <3> QED BY <1>0, <2>4, EmptySeq
  <2> HIDE DEF P
  <2>8. (P(i) # <<>> /\ P(i)[1] \in {"+", "-"} /\ Number(Tail(P(i)), Digit))
          <=> /\ i + 1 < n /\ v[i + 1] \in {"+", "-"}
              /\ \A j \in (i + 2)..n : v[j] \in Digit
    <3>1. CASE i < n
      BY <2>4, <2>5, <2>6, <2>7, <3>1
    <3>2. CASE ~(i < n)
      BY <1>0, <2>7, <3>2
    <3> QED BY <3>1, <3>2
  <2> QED BY <2>2, <2>3, <2>8
<1>3. IsFloat(v) <=> Mantissa(v, n) \/ \E i \in 2..n : Exponent(v, i) /\ Powers(i)
  BY <1>1, <1>2 DEF IsFloat
<1> HIDE DEF Powers
<1>4. ASSUME NEW i \in 2..n, Exponent(v, i), Powers(i) PROVE Power(v, n)
  <2>1. CASE i < n /\ \A j \in (i + 1)..n : v[j] \in Digit
    <3>1. i \in 1..(n - 1)
      BY <1>0, <2>1
    <3> QED BY <1>4, <2>1, <3>1 DEF Power
  <2>2. CASE i + 1 < n /\ v[i + 1] \in {"+", "-"} /\ \A j \in (i + 2)..n : v[j] \in Digit
    <3>1. PICK k \in 1..(n - 1) : k = i + 1
      BY <1>0, <2>2
    <3>2. Signed(v, k) /\ \A j \in (k + 1)..n : v[j] \in Digit
      BY <1>4, <2>2, <3>1 DEF Signed
    <3> QED BY <3>2 DEF Power
  <2> QED BY <1>2, <1>4, <2>1, <2>2
<1>5. ASSUME Power(v, n) PROVE \E i \in 2..n : Exponent(v, i) /\ Powers(i)
  <2>1. PICK i \in 2..(n - 1) :
             /\ Exponent(v, i)
             /\ \/ \A k \in (i + 1)..n : v[k] \in Digit
                \/ /\ i + 1 < n /\ v[i + 1] \in {"+", "-"}
                   /\ \A k \in (i + 2)..n : v[k] \in Digit
    BY <1>0, <1>5, PowerRunes
  <2>2. i \in 2..n /\ i < n
    BY <1>0, <2>1
  <2> QED BY <1>2, <2>1, <2>2
<1> QED
  BY <1>3, <1>4, <1>5 DEF FloatText

(* An integer literal.                                                      *)
LEMMA IntIs ==
    ASSUME NEW v \in Seq(Rune)
    PROVE  IsInt(v) <=> IntText(v, Len(v))
<1> DEFINE n == Len(v)
<1>0. n \in Nat /\ DOMAIN v = 1..n /\ (v = <<>> <=> n = 0)
  BY LenProperties, EmptySeq
<1> DEFINE IsBody(w) ==
        \/ Number(w, Digit)
        \/ Len(w) > 2 /\ w[1] = "0" /\ w[2] = "x" /\ Number(SubSeq(w, 3, Len(w)), Hex)
        \/ Len(w) > 2 /\ w[1] = "0" /\ w[2] = "b" /\ Number(SubSeq(w, 3, Len(w)), {"0", "1"})
<1>1. ASSUME NEW w \in Seq(Rune)
      PROVE  IsBody(w) <=> IntBody(w, Len(w))
  <2>0. Len(w) \in Nat
    BY LenProperties
  <2>1. Len(w) \in 0..Len(w) /\ SubSeq(w, 1, Len(w)) = w
    BY <2>0, SubSeqFull
  <2>2. Number(w, Digit) <=> AllDigits(w, Len(w))
    BY <2>1, MantissaIs
  <2>3. ASSUME NEW D
        PROVE  Number(SubSeq(w, 3, Len(w)), D) <=> 3 <= Len(w) /\ \A i \in 3..Len(w) : w[i] \in D
    BY <2>0, SliceOver
  <2>4. Len(w) > 2 <=> 3 <= Len(w)
    BY <2>0
  <2> QED BY <2>2, <2>3, <2>4 DEF IntBody, RadixText
<1>2. IsInt(v) <=> IsBody(DropSuffix(v))
  BY DEF IsInt
<1> HIDE DEF IsBody
<1>3. CASE n = 0 \/ v[n] # "u"
  <2>1. DropSuffix(v) = v
    BY <1>0, <1>3 DEF DropSuffix, Last
  <2>2. ~(n >= 2 /\ v[n] = "u")
    BY <1>3
  <2> QED BY <1>1, <1>2, <2>1, <2>2 DEF IntText
<1>4. CASE n # 0 /\ v[n] = "u"
  <2>1. DropSuffix(v) = SubSeq(v, 1, n - 1)
    BY <1>0, <1>4 DEF DropSuffix, Last, Front
  <2>2. PICK w : w = SubSeq(v, 1, n - 1)
    OBVIOUS
  <2>3. w \in Seq(Rune) /\ Len(w) = n - 1 /\ \A i \in 1..(n - 1) : w[i] = v[i]
    <3>0. n - 1 \in Nat
      BY <1>0, <1>4
    <3>1. PICK k \in Nat : k = n - 1
      BY <3>0
    <3>2. /\ SubSeq(v, 1, k) \in Seq(Rune)
          /\ Len(SubSeq(v, 1, k)) = IF 1 <= k THEN k - 1 + 1 ELSE 0
          /\ \A i \in 1..(k - 1 + 1) : SubSeq(v, 1, k)[i] = v[1 + i - 1]
      BY <1>0, <3>1, SliceRunes
    <3>3. /\ SubSeq(v, 1, k) \in Seq(Rune) /\ Len(SubSeq(v, 1, k)) = k
          /\ \A i \in 1..k : SubSeq(v, 1, k)[i] = v[i]
      BY <3>2
    <3> QED BY <2>2, <3>1, <3>3
  <2>4. IntBody(w, n - 1) <=> IntBody(v, n - 1)
    <3>1. n - 1 \in Nat
      BY <1>0, <1>4
    <3> QED BY <2>3, <3>1 DEF IntBody, AllDigits, RadixText
  <2>5. ~ IntBody(v, n)
    <3>1. n \in 1..n /\ (n = 2 \/ n \in 3..n \/ n = 1)
      BY <1>0, <1>4
    <3> QED BY <1>4, <3>1 DEF IntBody, AllDigits, RadixText, Hex, Digit
  <2>6. IntBody(v, n - 1) => n - 1 >= 1
    <3>1. n - 1 \in Nat
      BY <1>0, <1>4
    <3> QED BY <3>1 DEF IntBody, AllDigits, RadixText
  <2>7. IsInt(v) <=> IntBody(v, n - 1)
    BY <1>1, <1>2, <2>1, <2>2, <2>3, <2>4
  <2> QED BY <1>0, <1>4, <2>5, <2>6, <2>7 DEF IntText
<1> QED
  BY <1>0, <1>3, <1>4

(* A string literal.                                                        *)
LEMMA EscapedIs ==
    ASSUME NEW v \in Seq(Rune), Plain(v), v[1] = "dq", NEW i \in 2..Len(v)
    PROVE  Escaped(v, i) <=> Esc(v, i)
<1> DEFINE S == {j \in 2..(i - 1) : \A k \in j..(i - 1) : v[k] = "bs"}
<1>0. Len(v) \in Nat /\ i \in Nat /\ i >= 2 /\ i <= Len(v)
  BY LenProperties
<1>1. \A j \in 1..(Len(v) - 2) : ~(v[j] = "bs" /\ v[j + 2] = "bs")
  BY DEF Plain
<1>2. \A j \in S : j = i - 1 \/ j = i - 2
  <2> SUFFICES ASSUME NEW j \in 2..(i - 1), \A k \in j..(i - 1) : v[k] = "bs",
                      j # i - 1, j # i - 2
               PROVE  FALSE
    OBVIOUS
  <2>1. i - 1 \in j..(i - 1) /\ i - 3 \in j..(i - 1) /\ i - 3 \in 1..(Len(v) - 2) /\ i - 3 + 2 = i - 1
    BY <1>0
  <2>2. v[i - 1] = "bs" /\ v[i - 3] = "bs"
    BY <2>1
  <2> QED BY <1>1, <2>1, <2>2
<1>3. i - 1 \in S <=> i >= 3 /\ v[i - 1] = "bs"
  BY <1>0
<1>4. i - 2 \in S <=> i >= 4 /\ v[i - 1] = "bs" /\ v[i - 2] = "bs"
  <2>1. \A k \in (i - 2)..(i - 1) : k = i - 2 \/ k = i - 1
    BY <1>0
  <2> QED BY <1>0, <2>1
<1>5. i = 3 => v[i - 2] # "bs"
  OBVIOUS
<1> HIDE DEF S
<1>6. CASE i >= 3 /\ v[i - 1] = "bs" /\ v[i - 2] # "bs"
  <2>1. S = {i - 1}
    BY <1>0, <1>2, <1>3, <1>4, <1>6
  <2>2. Cardinality(S) = 1
    BY <2>1, FS_Singleton
  <2>3. 1 % 2 = 1
    OBVIOUS
  <2> QED BY <1>6, <2>2, <2>3 DEF Escaped, Esc, S
<1>7. CASE i >= 3 /\ v[i - 1] = "bs" /\ v[i - 2] = "bs"
  <2>1. S = {i - 1} \cup {i - 2} /\ i - 2 \notin {i - 1}
    BY <1>0, <1>2, <1>3, <1>4, <1>5, <1>7
  <2>2. Cardinality({i - 1}) = 1 /\ IsFiniteSet({i - 1})
    BY FS_Singleton
  <2>3. Cardinality(S) = Cardinality({i - 1}) + 1
    BY <2>1, <2>2, FS_AddElement
  <2>4. 2 % 2 = 0 /\ 1 + 1 = 2
    OBVIOUS
  <2> QED BY <1>7, <2>2, <2>3, <2>4 DEF Escaped, Esc, S
<1>8. CASE ~(i >= 3 /\ v[i - 1] = "bs")
  <2>1. S = {}
    BY <1>0, <1>2, <1>3, <1>4, <1>8
  <2>2. Cardinality(S) = 0
    BY <2>1, FS_EmptySet
  <2>3. 0 % 2 = 0
    OBVIOUS
  <2> QED BY <1>8, <2>2, <2>3 DEF Escaped, Esc, S
<1> QED
  BY <1>6, <1>7, <1>8

(* One of the text of a string literal.                                     *)
LEMMA StringIs ==
    ASSUME NEW v \in Seq(Rune), Plain(v)
    PROVE  IsString(v) <=> StringText(v, Len(v))
<1>0. Len(v) \in Nat
  BY LenProperties
<1>1. v[1] = "dq" => \A i \in 2..Len(v) : Escaped(v, i) <=> Esc(v, i)
  BY EscapedIs
<1> QED
  BY <1>0, <1>1 DEF IsString, StringText, Last

(* The operators, and the names of the tokens.                              *)
LEMMA OperatorNames ==
    DOMAIN OperatorLexeme =
      {"NOT", "NOT_EQUAL", "ASSIGN", "EQUAL", "FAT_RIGHT_ARROW", "COLON", "COLON_COLON",
       "MINUS", "RIGHT_ARROW", "LESS", "LESS_EQUAL", "GREATER", "GREATER_EQUAL", "OR",
       "AND", "DOT", "ELLIPSIS", "SINGLE_QUOTE"}
BY DEF OperatorLexeme

(* The other tokens have names of their own.                                *)
Texts == {"INT", "FLOAT", "STRING", "KEYWORD", "IDENT", "COMMENT"}
LEMMA NamesApart ==
    /\ \A k \in Texts : k \notin DOMAIN OperatorLexeme
    /\ \A c \in DOMAIN Single : Single[c] \notin Texts \cup DOMAIN OperatorLexeme
<1>1. \A c \in DOMAIN Single :
        Single[c] \in {"NEWLINE", "SEMICOLON", "LPAREN", "RPAREN", "LBRACE", "RBRACE", "LBRACKET",
                       "RBRACKET", "PLUS", "STAR", "DIV", "PERCENT", "COMMA"}
  BY DEF Single
<1> QED
  BY <1>1, OperatorNames DEF Texts

(* An operator has the form of one.                                         *)
LEMMA OperatorRunes ==
    ASSUME NEW k \in DOMAIN OperatorLexeme
    PROVE  /\ OperatorLexeme[k] \in Seq(Rune)
           /\ OperatorText(OperatorLexeme[k], Len(OperatorLexeme[k]))
<1>1. {"!", "=", ":", "-", "<", ">", "|", "&", ".", "'"} \subseteq Rune
  BY DEF Rune, Lead
<1>2. CASE k \in {"NOT", "ASSIGN", "COLON", "MINUS", "LESS", "GREATER", "DOT", "SINGLE_QUOTE"}
  <2>1. PICK c \in {"!", "=", ":", "-", "<", ">", ".", "'"} : OperatorLexeme[k] = <<c>>
    BY <1>2 DEF OperatorLexeme
  <2> QED BY <1>1, <2>1 DEF OperatorText
<1>3. CASE k \in {"NOT_EQUAL", "EQUAL", "FAT_RIGHT_ARROW", "COLON_COLON", "RIGHT_ARROW",
                  "LESS_EQUAL", "GREATER_EQUAL", "OR", "AND"}
  <2>1. PICK c, d \in {"!", "=", ":", "-", "<", ">", "|", "&"} :
          /\ OperatorLexeme[k] = <<c, d>>
          /\ \/ d = "=" /\ c \in {"!", "=", "<", ">"}
             \/ d = ">" /\ c \in {"=", "-"}
             \/ d = c /\ c \in {":", "|", "&"}
    BY <1>3 DEF OperatorLexeme
  <2> QED BY <1>1, <2>1 DEF OperatorText
<1>4. CASE k = "ELLIPSIS"
  <2>1. OperatorLexeme[k] = <<".", ".", ".">>
    BY <1>4 DEF OperatorLexeme
  <2> QED BY <1>1, <2>1 DEF OperatorText
<1> QED
  BY <1>2, <1>3, <1>4, OperatorNames

(* A lexeme of any kind has one of the forms,                               *)
LEMMA LexemeForms ==
    ASSUME NEW v \in Seq(Rune), Plain(v), NEW k, Lexeme(k, v)
    PROVE  /\ Form(v, Len(v))
           /\ k \in {"IDENT", "KEYWORD"} => IdentText(v, Len(v))
<1>0. Len(v) \in Nat /\ DOMAIN v = 1..Len(v) /\ (v = <<>> <=> Len(v) = 0)
  BY LenProperties, EmptySeq
<1>1. CASE k = "INT"
  BY <1>1, IntIs, NamesApart DEF Lexeme, Form, Texts
<1>2. CASE k = "FLOAT"
  BY <1>2, FloatIs, NamesApart DEF Lexeme, Form, Texts
<1>3. CASE k = "STRING"
  BY <1>3, StringIs, NamesApart DEF Lexeme, Form, Texts
<1>4. CASE k = "KEYWORD"
  <2>1. v \in keywords
    BY <1>4, NamesApart DEF Lexeme, Texts
  <2>2. v \in Seq(Letter \ {"wide"}) /\ v # <<>>
    BY <2>1, KeywordsAssumption
  <2>3. \A i \in 1..Len(v) : v[i] \in Letter
    BY <2>2, ElementOfSeq
  <2>4. 1 \in 1..Len(v)
    BY <1>0, <2>2
  <2>5. IdentText(v, Len(v))
    BY <1>0, <2>3, <2>4 DEF IdentText
  <2> QED BY <1>4, <2>5 DEF Form
<1>5. CASE k = "IDENT"
  <2>1. Number(v, Letter \cup Digit) /\ v[1] \in Letter
    BY <1>5, NamesApart DEF Lexeme, Texts
  <2>2. IdentText(v, Len(v))
    BY <1>0, <2>1 DEF IdentText, Number, Over
  <2> QED BY <1>5, <2>2 DEF Form
<1>6. CASE k = "COMMENT"
  <2>1. Len(v) >= 2 /\ v[1] = "!" /\ v[2] = "!" /\ "nl" \notin Range(v)
    BY <1>6, NamesApart DEF Lexeme, Texts
  <2>2. \A i \in 1..Len(v) : v[i] # "nl"
    BY <1>0, <2>1 DEF Range
  <2> QED BY <1>6, <2>1, <2>2 DEF Form, CommentText
<1>7. CASE k \in DOMAIN OperatorLexeme
  <2>1. v = OperatorLexeme[k]
    BY <1>7, NamesApart DEF Lexeme, Texts
  <2> QED BY <1>7, <2>1, OperatorRunes, OperatorNames DEF Form
<1>8. CASE k \notin Texts \cup DOMAIN OperatorLexeme
  <2>1. \E c \in DOMAIN Single : v = <<c>> /\ k = Single[c]
    BY <1>8 DEF Lexeme, Texts
  <2>2. SingleText(v, Len(v))
    BY <2>1 DEF SingleText
  <2> QED BY <1>8, <2>2 DEF Form, Texts
<1> QED
  BY <1>1, <1>2, <1>3, <1>4, <1>5, <1>6, <1>7, <1>8 DEF Texts

(* and each form is a lexeme of its kind.                                   *)
LEMMA FormsLexeme ==
    ASSUME NEW v \in Seq(Rune), Plain(v)
    PROVE  /\ IntText(v, Len(v)) => Lexeme("INT", v)
           /\ FloatText(v, Len(v)) => Lexeme("FLOAT", v)
           /\ StringText(v, Len(v)) => Lexeme("STRING", v)
           /\ v \in keywords => Lexeme("KEYWORD", v)
           /\ IdentText(v, Len(v)) /\ v \notin keywords => Lexeme("IDENT", v)
           /\ CommentText(v, Len(v)) => Lexeme("COMMENT", v)
           /\ \A k \in DOMAIN OperatorLexeme : v = OperatorLexeme[k] => Lexeme(k, v)
           /\ \A c \in DOMAIN Single : v = <<c>> => Lexeme(Single[c], v)
<1>0. Len(v) \in Nat /\ DOMAIN v = 1..Len(v) /\ (v = <<>> <=> Len(v) = 0)
  BY LenProperties, EmptySeq
<1>1. IntText(v, Len(v)) => Lexeme("INT", v)
  BY IntIs DEF Lexeme
<1>2. FloatText(v, Len(v)) => Lexeme("FLOAT", v)
  BY FloatIs DEF Lexeme
<1>3. StringText(v, Len(v)) => Lexeme("STRING", v)
  BY StringIs DEF Lexeme
<1>4. v \in keywords => Lexeme("KEYWORD", v)
  BY DEF Lexeme
<1>5. IdentText(v, Len(v)) /\ v \notin keywords => Lexeme("IDENT", v)
  BY <1>0 DEF Lexeme, IdentText, Number, Over
<1>6. CommentText(v, Len(v)) => Lexeme("COMMENT", v)
  BY <1>0 DEF Lexeme, CommentText, Range
<1>7. ASSUME NEW k \in DOMAIN OperatorLexeme, v = OperatorLexeme[k] PROVE Lexeme(k, v)
  BY <1>7 DEF Lexeme
<1>8. ASSUME NEW c \in DOMAIN Single, v = <<c>> PROVE Lexeme(Single[c], v)
  BY <1>8 DEF Lexeme
<1> QED
  BY <1>1, <1>2, <1>3, <1>4, <1>5, <1>6, <1>7, <1>8

(* Two texts with the same first runes have the same forms.                 *)
LEMMA SameForms ==
    ASSUME NEW u, NEW t, NEW m \in Nat, \A i \in 1..m : u[i] = t[i]
    PROVE  /\ IntText(u, m) <=> IntText(t, m)
           /\ FloatText(u, m) <=> FloatText(t, m)
           /\ StringText(u, m) <=> StringText(t, m)
           /\ IdentText(u, m) <=> IdentText(t, m)
           /\ CommentText(u, m) <=> CommentText(t, m)
           /\ OperatorText(u, m) <=> OperatorText(t, m)
           /\ SingleText(u, m) <=> SingleText(t, m)
<1>1. ASSUME NEW k \in Nat, k <= m PROVE IntBody(u, k) <=> IntBody(t, k)
  <2>1. \A i \in 1..k : u[i] = t[i]
    BY <1>1
  <2> QED BY <1>1, <2>1 DEF IntBody, AllDigits, RadixText
<1>2. IntText(u, m) <=> IntText(t, m)
  <2>1. m >= 2 => m - 1 \in Nat /\ m - 1 <= m
    OBVIOUS
  <2> QED BY <1>1, <2>1 DEF IntText
<1>3. ASSUME NEW k \in Nat, k <= m
      PROVE  (Mantissa(u, k) <=> Mantissa(t, k)) /\ (AllDigits(u, k) <=> AllDigits(t, k))
  <2>1. \A i \in 1..k : u[i] = t[i]
    BY <1>3
  <2> QED BY <1>3, <2>1 DEF Mantissa, AllDigits
<1>4. ASSUME NEW k \in Nat, k <= m
      PROVE  Exponent(u, k) <=> Exponent(t, k)
  <2>1. k >= 2 => k - 1 \in Nat /\ k - 1 <= m /\ u[k] = t[k]
    BY <1>4
  <2> QED BY <1>3, <1>4, <2>1 DEF Exponent
<1>5. ASSUME NEW k \in Nat, k <= m
      PROVE  Signed(u, k) <=> Signed(t, k)
  <2>1. k >= 2 => k - 1 \in Nat /\ k - 1 <= m /\ u[k] = t[k]
    BY <1>5
  <2> QED BY <1>4, <1>5, <2>1 DEF Signed
<1>6. Power(u, m) <=> Power(t, m)
  <2>1. ASSUME NEW i \in 1..(m - 1)
        PROVE  /\ Exponent(u, i) \/ Signed(u, i) <=> Exponent(t, i) \/ Signed(t, i)
               /\ (\A j \in (i + 1)..m : u[j] \in Digit) <=> \A j \in (i + 1)..m : t[j] \in Digit
    <3>1. \A j \in (i + 1)..m : u[j] = t[j]
      OBVIOUS
    <3>2. i \in Nat /\ i <= m
      OBVIOUS
    <3> QED BY <1>4, <1>5, <3>1, <3>2
  <2> QED BY <2>1 DEF Power
<1>7. FloatText(u, m) <=> FloatText(t, m)
  BY <1>3, <1>6 DEF FloatText
<1>8. StringText(u, m) <=> StringText(t, m)
  <2>1. \A i \in 2..m : Esc(u, i) <=> Esc(t, i)
    BY DEF Esc
  <2>2. m >= 2 => u[1] = t[1] /\ u[m] = t[m]
    OBVIOUS
  <2>3. \A i \in 2..m : u[i] = t[i]
    OBVIOUS
  <2> QED BY <2>1, <2>2, <2>3 DEF StringText
<1>9. IdentText(u, m) <=> IdentText(t, m)
  BY DEF IdentText
<1>10. CommentText(u, m) <=> CommentText(t, m)
  BY DEF CommentText
<1>11. OperatorText(u, m) <=> OperatorText(t, m)
  BY DEF OperatorText
<1>12. SingleText(u, m) <=> SingleText(t, m)
  BY DEF SingleText
<1> QED
  BY <1>2, <1>7, <1>8, <1>9, <1>10, <1>11, <1>12

(* The first m runes of a text.                                             *)
LEMMA PrefixRunes ==
    ASSUME NEW t \in Seq(Rune), NEW m \in 0..Len(t)
    PROVE  /\ SubSeq(t, 1, m) \in Seq(Rune) /\ Len(SubSeq(t, 1, m)) = m
           /\ \A i \in 1..m : SubSeq(t, 1, m)[i] = t[i]
           /\ Plain(t) => Plain(SubSeq(t, 1, m))
<1>0. Len(t) \in Nat /\ m \in Nat /\ m <= Len(t)
  BY LenProperties
<1>1. /\ SubSeq(t, 1, m) \in Seq(Rune) /\ Len(SubSeq(t, 1, m)) = m
      /\ \A i \in 1..m : SubSeq(t, 1, m)[i] = t[i]
  BY <1>0, SliceRunes
<1> QED
  BY <1>0, <1>1 DEF Plain

(* If they are a lexeme they have one of the forms,                         *)
LEMMA PrefixForms ==
    ASSUME NEW t \in Seq(Rune), NEW m \in 0..Len(t), Plain(t),
           NEW k, Lexeme(k, SubSeq(t, 1, m))
    PROVE  Form(t, m) /\ (k \in {"IDENT", "KEYWORD"} => IdentText(t, m))
<1> DEFINE u == SubSeq(t, 1, m)
<1>0. m \in Nat
  BY LenProperties
<1>1. u \in Seq(Rune) /\ Len(u) = m /\ Plain(u) /\ \A i \in 1..m : u[i] = t[i]
  BY PrefixRunes
<1>2. Lexeme(k, u)
  OBVIOUS
<1> HIDE DEF u
<1>3. Form(u, m) /\ (k \in {"IDENT", "KEYWORD"} => IdentText(u, m))
  BY <1>1, <1>2, LexemeForms
<1> QED
  BY <1>0, <1>1, <1>3, SameForms DEF Form

(* and the runes that make up a token are a lexeme of its kind.             *)
LEMMA PrefixLexeme ==
    ASSUME NEW t \in Seq(Rune), NEW m \in 0..Len(t), Plain(t)
    PROVE  /\ IntText(t, m) => Lexeme("INT", SubSeq(t, 1, m))
           /\ FloatText(t, m) => Lexeme("FLOAT", SubSeq(t, 1, m))
           /\ StringText(t, m) => Lexeme("STRING", SubSeq(t, 1, m))
           /\ SubSeq(t, 1, m) \in keywords => Lexeme("KEYWORD", SubSeq(t, 1, m))
           /\ IdentText(t, m) /\ SubSeq(t, 1, m) \notin keywords => Lexeme("IDENT", SubSeq(t, 1, m))
           /\ CommentText(t, m) => Lexeme("COMMENT", SubSeq(t, 1, m))
           /\ \A k \in DOMAIN OperatorLexeme :
                /\ Len(OperatorLexeme[k]) = m
                /\ \A i \in 1..m : OperatorLexeme[k][i] = t[i]
                => Lexeme(k, SubSeq(t, 1, m))
           /\ \A c \in DOMAIN Single : m = 1 /\ t[1] = c => Lexeme(Single[c], SubSeq(t, 1, m))
<1> DEFINE u == SubSeq(t, 1, m)
<1>0. m \in Nat
  BY LenProperties
<1>1. u \in Seq(Rune) /\ Len(u) = m /\ Plain(u) /\ \A i \in 1..m : u[i] = t[i]
  BY PrefixRunes
<1> HIDE DEF u
<1>2. /\ IntText(u, m) => Lexeme("INT", u)
      /\ FloatText(u, m) => Lexeme("FLOAT", u)
      /\ StringText(u, m) => Lexeme("STRING", u)
      /\ u \in keywords => Lexeme("KEYWORD", u)
      /\ IdentText(u, m) /\ u \notin keywords => Lexeme("IDENT", u)
      /\ CommentText(u, m) => Lexeme("COMMENT", u)
      /\ \A k \in DOMAIN OperatorLexeme : u = OperatorLexeme[k] => Lexeme(k, u)
      /\ \A c \in DOMAIN Single : u = <<c>> => Lexeme(Single[c], u)
  BY <1>1, FormsLexeme
<1>3. ASSUME NEW k \in DOMAIN OperatorLexeme, Len(OperatorLexeme[k]) = m,
             \A i \in 1..m : OperatorLexeme[k][i] = t[i]
      PROVE  u = OperatorLexeme[k]
  <2>1. OperatorLexeme[k] \in Seq(Rune)
    BY OperatorRunes
  <2>2. \A i \in 1..Len(u) : u[i] = OperatorLexeme[k][i]
    BY <1>1, <1>3
  <2> QED BY <1>1, <1>3, <2>1, <2>2, SeqEqual
<1>4. ASSUME NEW c \in DOMAIN Single, m = 1, t[1] = c PROVE u = <<c>>
  <2>1. c \in Rune
    BY DEF Rune
  <2>2. <<c>> \in Seq(Rune) /\ Len(<<c>>) = 1 /\ <<c>>[1] = c
    BY <2>1
  <2>3. \A i \in 1..Len(u) : u[i] = <<c>>[i]
    BY <1>1, <1>4, <2>2
  <2> QED BY <1>1, <1>4, <2>2, <2>3, SeqEqual
<1>5. /\ \A k \in DOMAIN OperatorLexeme :
           Len(OperatorLexeme[k]) = m /\ (\A i \in 1..m : OperatorLexeme[k][i] = t[i]) => Lexeme(k, u)
      /\ \A c \in DOMAIN Single : m = 1 /\ t[1] = c => Lexeme(Single[c], u)
  BY <1>2, <1>3, <1>4
<1>6. /\ IntText(t, m) => Lexeme("INT", u)
      /\ FloatText(t, m) => Lexeme("FLOAT", u)
      /\ StringText(t, m) => Lexeme("STRING", u)
      /\ u \in keywords => Lexeme("KEYWORD", u)
      /\ IdentText(t, m) /\ u \notin keywords => Lexeme("IDENT", u)
      /\ CommentText(t, m) => Lexeme("COMMENT", u)
  BY <1>0, <1>1, <1>2, SameForms
<1> QED
  BY <1>5, <1>6 DEF u

(* The first rune of a lexeme decides what it can be.                       *)
LEMMA HeadForms ==
    ASSUME NEW t, NEW j \in Nat, Form(t, j)
    PROVE  /\ j >= 1
           /\ t[1] \in Letter => IdentText(t, j)
           /\ t[1] \in Digit => IntText(t, j) \/ FloatText(t, j)
           /\ t[1] = "dq" => StringText(t, j)
           /\ t[1] = "!" => CommentText(t, j) \/ OperatorText(t, j)
           /\ t[1] \in {"=", ":", "-", "<", ">", "|", "&", ".", "'"} => OperatorText(t, j)
           /\ t[1] \in DOMAIN Single => SingleText(t, j)
           /\ t[1] \notin {" ", "bs", "#", "bad"}
<1> DEFINE H == {"!", "=", ":", "-", "<", ">", "|", "&", ".", "'"}
<1>1. \A c \in DOMAIN Single : c \notin Letter \cup Digit \cup H \cup {"dq", " ", "bs", "#", "bad"}
  BY DEF Letter, Digit, Single
<1>2. \A c \in Letter : c \notin Digit \cup H \cup {"dq", " ", "bs", "#", "bad"}
  BY DEF Letter, Digit
<1>3. \A c \in Digit : c \notin H \cup {"dq", " ", "bs", "#", "bad"}
  BY DEF Digit
<1>4. IntText(t, j) \/ FloatText(t, j) => j >= 1 /\ t[1] \in Digit
  BY NumberRunes
<1>5. StringText(t, j) => j >= 1 /\ t[1] = "dq"
  BY DEF StringText
<1>6. IdentText(t, j) => j >= 1 /\ t[1] \in Letter
  BY DEF IdentText
<1>7. CommentText(t, j) => j >= 1 /\ t[1] = "!"
  BY DEF CommentText
<1>8. OperatorText(t, j) => j >= 1 /\ t[1] \in H
  BY DEF OperatorText
<1>9. SingleText(t, j) => j >= 1 /\ t[1] \in DOMAIN Single
  BY DEF SingleText
<1> HIDE DEF H
<1>10. CASE IntText(t, j) \/ FloatText(t, j)
  BY <1>1, <1>2, <1>3, <1>4, <1>10 DEF H
<1>11. CASE StringText(t, j)
  BY <1>1, <1>2, <1>3, <1>5, <1>11 DEF H
<1>12. CASE IdentText(t, j)
  BY <1>1, <1>2, <1>3, <1>6, <1>12 DEF H
<1>13. CASE CommentText(t, j)
  BY <1>1, <1>2, <1>3, <1>7, <1>13 DEF H
<1>14. CASE OperatorText(t, j)
  BY <1>1, <1>2, <1>3, <1>8, <1>14 DEF H
<1>15. CASE SingleText(t, j)
  BY <1>1, <1>2, <1>3, <1>9, <1>15 DEF H
<1> QED
  BY <1>10, <1>11, <1>12, <1>13, <1>14, <1>15 DEF Form

(* No longer lexeme starts with an operator or a token of one character     *)
(* that the lexer emits, and none at all where it fails.                    *)
LEMMA OperatorLongest ==
    ASSUME NEW t, Len(t) \in Nat
    PROVE  /\ t[1] = "!" /\ After(t, 1) \notin {"=", "!"} => NoLonger(t, 1)
           /\ t[1] = "!" /\ t[2] = "=" => NoLonger(t, 2)
           /\ t[1] = "'" => NoLonger(t, 1)
           /\ t[1] = "=" /\ After(t, 1) \notin {"=", ">"} => NoLonger(t, 1)
           /\ t[1] \in {"=", ":", "-", "<", ">", "|", "&"} => NoLonger(t, 2)
           /\ t[1] = ":" /\ After(t, 1) # ":" => NoLonger(t, 1)
           /\ t[1] = "-" /\ After(t, 1) # ">" => NoLonger(t, 1)
           /\ t[1] \in {"<", ">"} /\ After(t, 1) # "=" => NoLonger(t, 1)
           /\ t[1] \in {"|", "&"} /\ After(t, 1) # t[1] => Barren(t, 1)
           /\ t[1] = "." /\ After(t, 1) # "." => NoLonger(t, 1)
           /\ t[1] = "." /\ After(t, 2) # "." => Barren(t, 2)
           /\ t[1] = "." => NoLonger(t, 3)
           /\ t[1] \in DOMAIN Single => NoLonger(t, 1)
           /\ t[1] \in {"bs", "#", "bad"} => Barren(t, 0)
<1>1. \A j \in 2..Len(t) : After(t, 1) = t[2]
  BY DEF After
<1>2. \A j \in 3..Len(t) : After(t, 2) = t[3]
  BY DEF After
<1>3. ASSUME t[1] \in {"=", ":", "-", "<", ">", "|", "&", ".", "'"}
      PROVE  \A j \in 0..Len(t) : Form(t, j) => OperatorText(t, j)
  <2>1. ASSUME NEW j \in 0..Len(t), Form(t, j) PROVE OperatorText(t, j)
    <3>1. j \in Nat
      OBVIOUS
    <3> QED BY <1>3, <2>1, <3>1, HeadForms
  <2> QED BY <2>1
<1>4. t[1] = "!" /\ After(t, 1) \notin {"=", "!"} => NoLonger(t, 1)
  <2>1. ASSUME t[1] = "!", NEW j \in 2..Len(t), Form(t, j) PROVE After(t, 1) \in {"=", "!"}
    <3>0. j \in Nat
      OBVIOUS
    <3>1. CommentText(t, j) \/ OperatorText(t, j)
      BY <2>1, <3>0, HeadForms
    <3> QED BY <1>1, <2>1, <3>1 DEF CommentText, OperatorText
  <2> QED BY <2>1 DEF NoLonger
<1>5. t[1] = "!" /\ t[2] = "=" => NoLonger(t, 2)
  <2>1. ASSUME t[1] = "!", t[2] = "=", NEW j \in 3..Len(t), Form(t, j) PROVE FALSE
    <3>0. j \in Nat
      OBVIOUS
    <3>1. CommentText(t, j) \/ OperatorText(t, j)
      BY <2>1, <3>0, HeadForms
    <3> QED BY <2>1, <3>1 DEF CommentText, OperatorText
  <2> QED BY <2>1 DEF NoLonger
<1>6. t[1] = "'" => NoLonger(t, 1)
  BY <1>3 DEF NoLonger, OperatorText
<1>7. t[1] = "=" /\ After(t, 1) \notin {"=", ">"} => NoLonger(t, 1)
  BY <1>1, <1>3 DEF NoLonger, OperatorText
<1>8. t[1] \in {"=", ":", "-", "<", ">", "|", "&"} => NoLonger(t, 2)
  BY <1>3 DEF NoLonger, OperatorText
<1>9. t[1] = ":" /\ After(t, 1) # ":" => NoLonger(t, 1)
  BY <1>1, <1>3 DEF NoLonger, OperatorText
<1>10. t[1] = "-" /\ After(t, 1) # ">" => NoLonger(t, 1)
  BY <1>1, <1>3 DEF NoLonger, OperatorText
<1>11. t[1] \in {"<", ">"} /\ After(t, 1) # "=" => NoLonger(t, 1)
  BY <1>1, <1>3 DEF NoLonger, OperatorText
<1>12. t[1] \in {"|", "&"} /\ After(t, 1) # t[1] => Barren(t, 1)
  BY <1>1, <1>3 DEF Barren, OperatorText
<1>13. t[1] = "." /\ After(t, 1) # "." => NoLonger(t, 1)
  BY <1>1, <1>3 DEF NoLonger, OperatorText
<1>14. t[1] = "." /\ After(t, 2) # "." => Barren(t, 2)
  BY <1>2, <1>3 DEF Barren, OperatorText
<1>15. t[1] = "." => NoLonger(t, 3)
  BY <1>3 DEF NoLonger, OperatorText
<1>16. t[1] \in DOMAIN Single => NoLonger(t, 1)
  <2>1. ASSUME t[1] \in DOMAIN Single, NEW j \in 2..Len(t), Form(t, j) PROVE FALSE
    <3>1. j \in Nat /\ j # 1
      OBVIOUS
    <3>2. SingleText(t, j)
      BY <2>1, <3>1, HeadForms
    <3> QED BY <3>1, <3>2 DEF SingleText
  <2> QED BY <2>1 DEF NoLonger
<1>17. t[1] \in {"bs", "#", "bad"} => Barren(t, 0)
  <2>1. ASSUME t[1] \in {"bs", "#", "bad"}, NEW j \in 0..Len(t), Form(t, j) PROVE FALSE
    <3>1. j \in Nat
      OBVIOUS
    <3> QED BY <2>1, <3>1, HeadForms
  <2> QED BY <2>1 DEF Barren
<1> QED
  BY <1>4, <1>5, <1>6, <1>7, <1>8, <1>9, <1>10, <1>11, <1>12, <1>13, <1>14, <1>15, <1>16, <1>17

(* What stands behind the runes of t that are read.                         *)
LEMMA AfterRune ==
    ASSUME NEW t \in Seq(Rune), NEW m \in 0..Len(t)
    PROVE  /\ m \in Nat /\ Len(t) \in Nat /\ m <= Len(t)
           /\ After(t, m) = Eof <=> m = Len(t)
           /\ m < Len(t) => After(t, m) = t[m + 1] /\ t[m + 1] \in Rune
           /\ m = Len(t) => After(t, m) = Eof
<1>0. Len(t) \in Nat /\ m \in Nat /\ m <= Len(t)
  BY LenProperties
<1>1. Eof \notin Rune
  BY DEF Eof, Rune, Letter, Digit, Space, Lead, Single
<1>2. m < Len(t) => t[m + 1] \in Rune
  <2>1. m < Len(t) => m + 1 \in 1..Len(t)
    BY <1>0
  <2> QED BY <2>1, ElementOfSeq
<1> QED
  BY <1>0, <1>1, <1>2 DEF After

(* A comment runs to the end of its line.                                   *)
LEMMA CommentLongest ==
    ASSUME NEW t \in Seq(Rune), NEW m \in 0..Len(t), CommentText(t, m), After(t, m) \in {"nl", Eof}
    PROVE  NoLonger(t, m)
<1>1. SUFFICES ASSUME NEW j \in (m + 1)..Len(t), Form(t, j) PROVE FALSE
  BY DEF NoLonger
<1>2. m \in Nat /\ j \in Nat /\ m < j /\ m < Len(t) /\ m + 1 \in 1..j
  BY AfterRune, <1>1
<1>3. t[m + 1] = "nl"
  BY <1>2, AfterRune
<1>4. CommentText(t, j) \/ OperatorText(t, j)
  BY <1>1, <1>2, HeadForms DEF CommentText
<1>5. m >= 2 /\ t[1] = "!"
  BY DEF CommentText
<1>6. ~ OperatorText(t, j)
  BY <1>2, <1>5 DEF OperatorText
<1> QED
  BY <1>2, <1>3, <1>4, <1>6 DEF CommentText

(* An identifier runs to its last letter or digit.                          *)
LEMMA IdentLongest ==
    ASSUME NEW t \in Seq(Rune), NEW m \in 0..Len(t), IdentText(t, m),
           After(t, m) \notin Letter \cup Digit
    PROVE  NoLonger(t, m)
<1>1. SUFFICES ASSUME NEW j \in (m + 1)..Len(t), Form(t, j) PROVE FALSE
  BY DEF NoLonger
<1>2. m \in Nat /\ j \in Nat /\ m < j /\ m < Len(t) /\ m + 1 \in 1..j
  BY AfterRune, <1>1
<1>3. t[m + 1] \notin Letter \cup Digit
  BY <1>2, AfterRune
<1>4. IdentText(t, j)
  BY <1>1, <1>2, HeadForms DEF IdentText
<1> QED
  BY <1>2, <1>3, <1>4 DEF IdentText

(* A string literal ends with its first quote that is not escaped, and a    *)
(* text that lacks one is no literal.                                       *)
LEMMA StringLongest ==
    ASSUME NEW t \in Seq(Rune), NEW m \in 0..Len(t), OpenString(t, m)
    PROVE  /\ After(t, m) = "dq" /\ ~ Esc(t, m + 1) =>
                StringText(t, m + 1) /\ NoLonger(t, m + 1)
           /\ m = Len(t) => Barren(t, m)
<1>1. /\ m \in Nat /\ Len(t) \in Nat /\ m <= Len(t) /\ m >= 1 /\ t[1] = "dq"
      /\ \A i \in 2..m : t[i] = "dq" => Esc(t, i)
  BY AfterRune DEF OpenString
<1>2. \A j \in Nat : Form(t, j) => StringText(t, j)
  BY <1>1, HeadForms
<1>3. ASSUME After(t, m) = "dq", ~ Esc(t, m + 1)
      PROVE  StringText(t, m + 1) /\ NoLonger(t, m + 1)
  <2>1. m < Len(t) /\ t[m + 1] = "dq"
    BY <1>3, AfterRune DEF Eof
  <2>2. \A i \in 2..(m + 1) : i \in 2..m \/ i = m + 1
    BY <1>1
  <2>3. StringText(t, m + 1)
    BY <1>1, <1>3, <2>1, <2>2 DEF StringText
  <2>4. ASSUME NEW j \in (m + 1 + 1)..Len(t), Form(t, j) PROVE FALSE
    <3>1. j \in Nat /\ m + 1 \in 2..j /\ m + 1 < j
      BY <1>1
    <3>2. StringText(t, j)
      BY <1>2, <2>4, <3>1
    <3> QED BY <1>3, <2>1, <3>1, <3>2 DEF StringText
  <2> QED
    BY <2>3, <2>4 DEF NoLonger
<1>4. ASSUME m = Len(t) PROVE Barren(t, m)
  <2>1. ASSUME NEW j \in m..Len(t), Form(t, j) PROVE FALSE
    <3>1. j = m
      BY <1>1, <1>4
    <3>2. StringText(t, m)
      BY <1>1, <1>2, <2>1, <3>1
    <3> QED BY <1>1, <3>2 DEF StringText
  <2> QED
    BY <2>1 DEF Barren
<1> QED
  BY <1>3, <1>4

(* A lexeme that starts with a digit is a number literal.                   *)
LEMMA NumberForms ==
    ASSUME NEW t, NEW m \in Nat, Form(t, m), t[1] \in Digit
    PROVE  IntText(t, m) \/ FloatText(t, m)
BY HeadForms

(* An integer literal that can be continued by no rune of its own is the    *)
(* longest one, and so is one that ends with its suffix.                    *)
LEMMA IntLongest ==
    ASSUME NEW t \in Seq(Rune), NEW m \in 0..Len(t)
    PROVE  /\ AllDigits(t, m) => IntText(t, m)
           /\ /\ AllDigits(t, m) /\ After(t, m) \notin Digit \cup {".", "e", "u"}
              /\ m = 1 /\ t[1] = "0" => After(t, m) \notin {"x", "b"}
              => NoLonger(t, m)
           /\ IntBody(t, m) /\ After(t, m) = "u" => IntText(t, m + 1) /\ NoLonger(t, m + 1)
<1>0. m \in Nat /\ Len(t) \in Nat /\ m <= Len(t)
  BY AfterRune
<1>1. AllDigits(t, m) => IntText(t, m)
  BY DEF IntText, IntBody
<1>2. ASSUME AllDigits(t, m), After(t, m) \notin Digit \cup {".", "e", "u"},
             m = 1 /\ t[1] = "0" => After(t, m) \notin {"x", "b"}
      PROVE  NoLonger(t, m)
  <2>1. ASSUME NEW j \in (m + 1)..Len(t), Form(t, j) PROVE FALSE
    <3>1. j \in Nat /\ m < j /\ m < Len(t)
      BY <1>0
    <3>2. After(t, m) = t[m + 1]
      BY <3>1, AfterRune
    <3>3. m >= 1 /\ t[1] \in Digit
      BY <1>0, <1>2 DEF AllDigits
    <3>4. IntText(t, j) \/ FloatText(t, j)
      BY <2>1, <3>1, <3>3, NumberForms
    <3>5. \/ t[m + 1] \in Digit \cup {".", "e", "u"}
          \/ m = 1 /\ t[1] = "0" /\ t[2] \in {"x", "b"}
      BY <1>0, <1>2, <3>1, <3>4, BehindDigits
    <3> QED BY <1>2, <3>2, <3>5
  <2> QED
    BY <2>1 DEF NoLonger
<1>3. ASSUME IntBody(t, m), After(t, m) = "u"
      PROVE  IntText(t, m + 1) /\ NoLonger(t, m + 1)
  <2>1. m < Len(t) /\ t[m + 1] = "u"
    BY <1>3, AfterRune DEF Eof
  <2>2. m >= 1 /\ t[1] \in Digit
    BY <1>0, <1>3, NumberRunes DEF IntText
  <2>3. IntText(t, m + 1)
    BY <1>0, <1>3, <2>1, <2>2 DEF IntText
  <2>4. ASSUME NEW j \in (m + 1 + 1)..Len(t), Form(t, j) PROVE FALSE
    <3>1. j \in Nat /\ m + 1 \in 1..j /\ m + 1 < j
      BY <1>0
    <3>2. IntText(t, j) \/ FloatText(t, j)
      BY <2>2, <2>4, <3>1, NumberForms
    <3> QED BY <2>1, <3>1, <3>2, NumberRunes
  <2> QED
    BY <2>3, <2>4 DEF NoLonger
<1> QED
  BY <1>1, <1>2, <1>3

(* A radix literal needs a digit behind its prefix.                         *)
LEMMA RadixLongest ==
    ASSUME NEW t \in Seq(Rune), NEW m \in 0..Len(t), NEW c, NEW D,
           <<c, D>> = <<"x", Hex>> \/ <<c, D>> = <<"b", {"0", "1"}>>
    PROVE  /\ RadixText(t, m, c, D) => IntBody(t, m) /\ IntText(t, m)
           /\ RadixText(t, m, c, D) /\ After(t, m) \notin D \cup {"u"} => NoLonger(t, m)
           /\ m = 2 /\ t[1] = "0" /\ t[2] = c /\ After(t, m) \notin D => Barren(t, m)
<1>0. m \in Nat /\ Len(t) \in Nat /\ m <= Len(t)
  BY AfterRune
<1>1. RadixText(t, m, c, D) => IntBody(t, m) /\ IntText(t, m)
  BY DEF IntText, IntBody
<1>2. ASSUME RadixText(t, m, c, D), After(t, m) \notin D \cup {"u"}
      PROVE  NoLonger(t, m)
  <2>1. ASSUME NEW j \in (m + 1)..Len(t), Form(t, j) PROVE FALSE
    <3>1. j \in Nat /\ m < j /\ m < Len(t) /\ m <= j
      BY <1>0
    <3>2. After(t, m) = t[m + 1]
      BY <3>1, AfterRune
    <3>3. 2 <= m /\ t[1] \in Digit /\ t[2] = c /\ \A i \in 3..m : t[i] \in D
      BY <1>0, <1>2 DEF RadixText, Digit
    <3>4. IntText(t, j) \/ FloatText(t, j)
      BY <2>1, <3>1, <3>3, NumberForms
    <3>5. t[m + 1] \in D \cup {"u"}
      BY <1>0, <3>1, <3>3, <3>4, BehindRadix
    <3> QED BY <1>2, <3>2, <3>5
  <2> QED
    BY <2>1 DEF NoLonger
<1>3. ASSUME m = 2, t[1] = "0", t[2] = c, After(t, m) \notin D
      PROVE  Barren(t, m)
  <2>1. ASSUME NEW j \in m..Len(t), Form(t, j) PROVE FALSE
    <3>1. j \in Nat /\ m <= j
      BY <1>0
    <3>2. t[1] \in Digit /\ 2 <= m /\ \A i \in 3..m : t[i] \in D
      BY <1>3 DEF Digit
    <3>3. IntText(t, j) \/ FloatText(t, j)
      BY <2>1, <3>1, <3>2, NumberForms
    <3>4. j > 2 /\ t[3] \in D
      BY <1>0, <1>3, <3>1, <3>2, <3>3, BehindRadix
    <3>5. After(t, m) = t[3]
      BY <1>0, <1>3, <3>4, AfterRune
    <3> QED BY <1>3, <3>4, <3>5
  <2> QED
    BY <2>1 DEF Barren
<1> QED
  BY <1>1, <1>2, <1>3

(* The digits of a power run on, and an e or a sign alone never ends a      *)
(* literal.                                                                 *)
LEMMA FloatLongest ==
    ASSUME NEW t \in Seq(Rune), NEW m \in 0..Len(t)
    PROVE  /\ Mantissa(t, m) /\ After(t, m) \notin Digit \cup {"e"} => NoLonger(t, m)
           /\ Power(t, m) /\ After(t, m) \notin Digit => NoLonger(t, m)
           /\ Exponent(t, m) /\ After(t, m) \notin Digit \cup {"+", "-"} => Barren(t, m)
           /\ Signed(t, m) /\ After(t, m) \notin Digit => Barren(t, m)
<1>0. m \in Nat /\ Len(t) \in Nat /\ m <= Len(t)
  BY AfterRune
<1>1. ASSUME Mantissa(t, m), After(t, m) \notin Digit \cup {"e"} PROVE NoLonger(t, m)
  <2>1. ASSUME NEW j \in (m + 1)..Len(t), Form(t, j) PROVE FALSE
    <3>1. j \in Nat /\ m < j /\ m < Len(t)
      BY <1>0
    <3>2. After(t, m) = t[m + 1]
      BY <3>1, AfterRune
    <3>3. t[1] \in Digit
      BY <1>0, <1>1, MantissaRunes
    <3>4. IntText(t, j) \/ FloatText(t, j)
      BY <2>1, <3>1, <3>3, NumberForms
    <3> QED BY <1>0, <1>1, <3>1, <3>2, <3>4, BehindMantissa
  <2> QED
    BY <2>1 DEF NoLonger
<1>2. ASSUME NEW e \in Nat, e <= m, Exponent(t, e), NEW j \in e..Len(t), Form(t, j)
      PROVE  /\ j \in Nat /\ e < j
             /\ \/ \A k \in (e + 1)..j : t[k] \in Digit
                \/ /\ e + 1 < j /\ t[e + 1] \in {"+", "-"}
                   /\ \A k \in (e + 2)..j : t[k] \in Digit
  <2>1. j \in Nat /\ e <= j
    BY <1>0
  <2>2. t[1] \in Digit
    BY <1>2, ExponentRunes
  <2>3. IntText(t, j) \/ FloatText(t, j)
    BY <1>2, <2>1, <2>2, NumberForms
  <2> QED BY <1>2, <2>1, <2>3, BehindExponent
<1>3. ASSUME Exponent(t, m), After(t, m) \notin Digit \cup {"+", "-"} PROVE Barren(t, m)
  <2>1. ASSUME NEW j \in m..Len(t), Form(t, j) PROVE FALSE
    <3>1. /\ m < j
          /\ \/ \A k \in (m + 1)..j : t[k] \in Digit
             \/ /\ m + 1 < j /\ t[m + 1] \in {"+", "-"}
                /\ \A k \in (m + 2)..j : t[k] \in Digit
      BY <1>0, <1>2, <1>3, <2>1
    <3>2. After(t, m) = t[m + 1] /\ m + 1 \in (m + 1)..j
      BY <1>0, <3>1, AfterRune
    <3> QED BY <1>3, <3>1, <3>2
  <2> QED
    BY <2>1 DEF Barren
<1>4. ASSUME Signed(t, m), After(t, m) \notin Digit PROVE Barren(t, m)
  <2>1. PICK e \in Nat : e = m - 1
    BY <1>0, <1>4 DEF Signed
  <2>2. e <= m /\ Exponent(t, e) /\ e + 1 = m /\ e + 2 = m + 1 /\ t[m] \in {"+", "-"}
    BY <1>0, <1>4, <2>1 DEF Signed
  <2>3. ASSUME NEW j \in m..Len(t), Form(t, j) PROVE FALSE
    <3>0. j \in e..Len(t) /\ j \in Nat
      BY <1>0, <2>1
    <3>1. \/ \A k \in (e + 1)..j : t[k] \in Digit
          \/ /\ e + 1 < j /\ t[e + 1] \in {"+", "-"}
             /\ \A k \in (e + 2)..j : t[k] \in Digit
      BY <1>2, <2>2, <2>3, <3>0
    <3>2. m \in m..j /\ t[m] \notin Digit
      BY <1>0, <2>2, <3>0 DEF Digit
    <3>3. m < j /\ \A k \in (m + 1)..j : t[k] \in Digit
      BY <2>2, <3>1, <3>2
    <3>4. After(t, m) = t[m + 1] /\ m + 1 \in (m + 1)..j
      BY <1>0, <3>3, <3>0, AfterRune
    <3> QED BY <1>4, <3>3, <3>4
  <2> QED
    BY <2>3 DEF Barren
<1>5. ASSUME Power(t, m), After(t, m) \notin Digit PROVE NoLonger(t, m)
  <2>1. PICK i \in 2..(m - 1) :
             /\ Exponent(t, i)
             /\ \/ \A k \in (i + 1)..m : t[k] \in Digit
                \/ /\ i + 1 < m /\ t[i + 1] \in {"+", "-"}
                   /\ \A k \in (i + 2)..m : t[k] \in Digit
    BY <1>0, <1>5, PowerRunes
  <2>2. i \in Nat /\ i < m /\ i <= m
    BY <1>0
  <2>3. ASSUME NEW j \in (m + 1)..Len(t), Form(t, j) PROVE FALSE
    <3>0. j \in i..Len(t) /\ j \in Nat /\ m < j /\ m < Len(t)
      BY <1>0, <2>2
    <3>1. \/ \A k \in (i + 1)..j : t[k] \in Digit
          \/ /\ i + 1 < j /\ t[i + 1] \in {"+", "-"}
             /\ \A k \in (i + 2)..j : t[k] \in Digit
      BY <1>2, <2>1, <2>2, <2>3, <3>0
    <3>2. After(t, m) = t[m + 1]
      BY <3>0, AfterRune
    <3>3. t[m + 1] \notin Digit
      BY <1>5, <3>2
    <3>4. m + 1 \in (i + 1)..j /\ (i + 1 < m => m + 1 \in (i + 2)..j)
      BY <1>0, <2>2, <3>0
    <3>5. i + 1 \in (i + 1)..m /\ i + 1 \in (i + 1)..j
      BY <1>0, <2>2, <3>0
    <3>6. "+" \notin Digit /\ "-" \notin Digit
      BY DEF Digit
    <3>7. ~ \A k \in (i + 1)..j : t[k] \in Digit
      BY <3>3, <3>4
    <3>8. t[i + 1] \in {"+", "-"} /\ \A k \in (i + 2)..j : t[k] \in Digit
      BY <3>1, <3>7
    <3>9. i + 1 < m
      BY <2>1, <3>5, <3>6, <3>8
    <3> QED BY <3>3, <3>4, <3>8, <3>9
  <2> QED
    BY <2>3 DEF NoLonger
<1> QED
  BY <1>1, <1>3, <1>4, <1>5

(* A text that starts with no letter is no name.                            *)
LEMMA NoName ==
    ASSUME NEW t \in Seq(Rune), After(t, 0) \notin Letter
    PROVE  \A j \in 0..Len(t) : ~ IdentText(t, j)
<1>1. 0 \in 0..Len(t)
  BY LenProperties
<1>2. 0 < Len(t) => After(t, 0) = t[1]
  BY <1>1, AfterRune
<1> QED
  BY <1>1, <1>2 DEF IdentText

-----------------------------------------------------------------------------
(* What a point knows, point by point.                                      *)
LEMMA Shapes ==
    ASSUME NEW t, NEW m \in Nat
    PROVE  /\ \A p \in Between : Shape(p, t, m) <=> m = 0
           /\ \A p \in Lead : Shape(p, t, m) <=> m = 1 /\ t[1] = p
           /\ Shape("..", t, m) <=> m = 2 /\ t[1] = "." /\ t[2] = "."
           /\ Shape("comment", t, m) <=> CommentText(t, m)
           /\ Shape("ident", t, m) <=> IdentText(t, m)
           /\ Shape("keyword", t, m) <=> IdentText(t, m) /\ After(t, m) \notin Letter \cup Digit
           /\ Shape("lexNumber", t, m) <=> m = 1 /\ t[1] = "0"
           /\ Shape("lexHex", t, m) <=> m = 2 /\ t[1] = "0" /\ t[2] = "x"
           /\ Shape("lexBin", t, m) <=> m = 2 /\ t[1] = "0" /\ t[2] = "b"
           /\ Shape("hex", t, m) <=> RadixText(t, m, "x", Hex)
           /\ Shape("bin", t, m) <=> RadixText(t, m, "b", {"0", "1"})
           /\ Shape("lexDigit", t, m) <=> /\ AllDigits(t, m)
                                          /\ m = 1 /\ t[1] = "0" => After(t, m) \notin {"x", "b"}
           /\ Shape("fraction", t, m) <=> Mantissa(t, m)
           /\ Shape("exponent", t, m) <=> Exponent(t, m)
           /\ Shape("sign", t, m) <=> Signed(t, m)
           /\ Shape("power", t, m) <=> Power(t, m)
           /\ Shape("string", t, m) <=>
                (Plain(t) => OpenString(t, m) /\ (m < Len(t) => ~ Esc(t, m + 1)))
           /\ Shape("escape", t, m) <=> (Plain(t) => OpenString(t, m) /\ Esc(t, m + 1))
           /\ Shape("escaped", t, m) <=>
                (Plain(t) => OpenString(t, m) /\ (m < Len(t) => m >= 3 /\ t[m - 1] = "bs"))
<1> USE DEF Shape, NumberShape, StringShape
<1>1. \A p \in Between : Shape(p, t, m) <=> m = 0
  BY DEF Between, Lead
<1>2. \A p \in Lead : Shape(p, t, m) <=> m = 1 /\ t[1] = p
  BY DEF Between, Lead
<1>3. /\ Shape("..", t, m) <=> m = 2 /\ t[1] = "." /\ t[2] = "."
      /\ Shape("comment", t, m) <=> CommentText(t, m)
      /\ Shape("ident", t, m) <=> IdentText(t, m)
      /\ Shape("keyword", t, m) <=> IdentText(t, m) /\ After(t, m) \notin Letter \cup Digit
  BY DEF Between, Lead
<1>4. /\ Shape("lexNumber", t, m) <=> m = 1 /\ t[1] = "0"
      /\ Shape("lexHex", t, m) <=> m = 2 /\ t[1] = "0" /\ t[2] = "x"
      /\ Shape("lexBin", t, m) <=> m = 2 /\ t[1] = "0" /\ t[2] = "b"
      /\ Shape("hex", t, m) <=> RadixText(t, m, "x", Hex)
      /\ Shape("bin", t, m) <=> RadixText(t, m, "b", {"0", "1"})
  BY DEF Between, Lead
<1>5. /\ Shape("lexDigit", t, m) <=> /\ AllDigits(t, m)
                                     /\ m = 1 /\ t[1] = "0" => After(t, m) \notin {"x", "b"}
      /\ Shape("fraction", t, m) <=> Mantissa(t, m)
      /\ Shape("exponent", t, m) <=> Exponent(t, m)
      /\ Shape("sign", t, m) <=> Signed(t, m)
      /\ Shape("power", t, m) <=> Power(t, m)
  BY DEF Between, Lead
<1>6. Shape("string", t, m) <=>
        (Plain(t) => OpenString(t, m) /\ (m < Len(t) => ~ Esc(t, m + 1)))
  BY DEF Between, Lead
<1>7. Shape("escape", t, m) <=> (Plain(t) => OpenString(t, m) /\ Esc(t, m + 1))
  BY DEF Between, Lead
<1>8. Shape("escaped", t, m) <=>
        (Plain(t) => OpenString(t, m) /\ (m < Len(t) => m >= 3 /\ t[m - 1] = "bs"))
  BY DEF Between, Lead
<1> QED
  BY <1>1, <1>2, <1>3, <1>4, <1>5, <1>6, <1>7, <1>8

(* Eating one rune more: the number literals.                               *)
LEMMA MoreDigits ==
    ASSUME NEW t \in Seq(Rune), NEW m \in 0..Len(t), NEW c, c = After(t, m), c # Eof
    PROVE  /\ m = 0 /\ c = "0" => Shape("lexNumber", t, m + 1)
           /\ m = 0 /\ c \in Digit \ {"0"} => Shape("lexDigit", t, m + 1)
           /\ Shape("lexNumber", t, m) /\ c = "x" => Shape("lexHex", t, m + 1)
           /\ Shape("lexNumber", t, m) /\ c = "b" => Shape("lexBin", t, m + 1)
           /\ Shape("lexDigit", t, m) /\ c \in Digit => Shape("lexDigit", t, m + 1)
           /\ Shape("lexDigit", t, m) /\ c = "." => Shape("fraction", t, m + 1)
           /\ Shape("fraction", t, m) /\ c \in Digit => Shape("fraction", t, m + 1)
           /\ Shape("lexDigit", t, m) /\ c = "e" => Shape("exponent", t, m + 1)
           /\ Shape("fraction", t, m) /\ c = "e" => Shape("exponent", t, m + 1)
<1>0. m \in Nat /\ Len(t) \in Nat /\ m < Len(t) /\ c = t[m + 1] /\ m + 1 \in Nat
  BY AfterRune
<1>1. \A i \in 1..(m + 1) : i \in 1..m \/ i = m + 1
  BY <1>0
<1>2. m = 0 /\ c = "0" => Shape("lexNumber", t, m + 1)
  BY <1>0, Shapes
<1>3. m = 0 /\ c \in Digit \ {"0"} => Shape("lexDigit", t, m + 1)
  BY <1>0, <1>1, Shapes DEF AllDigits
<1>10. ASSUME Shape("lexNumber", t, m) PROVE m + 1 = 2 /\ t[1] = "0" /\ t[2] = c
  <2>1. m = 1 /\ t[1] = "0"
    BY <1>0, <1>10, Shapes
  <2>2. m + 1 = 2
    BY <2>1
  <2> QED BY <1>0, <2>1, <2>2
<1>4. Shape("lexNumber", t, m) /\ c = "x" => Shape("lexHex", t, m + 1)
  BY <1>0, <1>10, Shapes
<1>5. Shape("lexNumber", t, m) /\ c = "b" => Shape("lexBin", t, m + 1)
  BY <1>0, <1>10, Shapes
<1>6. Shape("lexDigit", t, m) /\ c \in Digit => Shape("lexDigit", t, m + 1)
  BY <1>0, <1>1, Shapes DEF AllDigits
<1>7. Shape("lexDigit", t, m) /\ c = "." => Shape("fraction", t, m + 1)
  <2>1. AllDigits(t, m) /\ c = "." => Mantissa(t, m + 1)
    <3>1. m >= 1 => m + 1 \in 2..(m + 1)
      BY <1>0
    <3> QED BY <1>0, <1>1, <3>1 DEF AllDigits, Mantissa
  <2> QED BY <1>0, <2>1, Shapes
<1>8. Shape("fraction", t, m) /\ c \in Digit => Shape("fraction", t, m + 1)
  <2>1. \A i \in 2..m : i \in 2..(m + 1)
    BY <1>0
  <2>2. Mantissa(t, m) /\ c \in Digit => Mantissa(t, m + 1)
    BY <1>0, <1>1, <2>1 DEF Mantissa
  <2> QED BY <1>0, <2>2, Shapes
<1>9. ASSUME Shape("lexDigit", t, m) \/ Shape("fraction", t, m), c = "e"
      PROVE  Shape("exponent", t, m + 1)
  <2>1. AllDigits(t, m) \/ Mantissa(t, m)
    BY <1>0, <1>9, Shapes
  <2>2. m >= 1
    BY <1>0, <2>1 DEF AllDigits, Mantissa
  <2>3. m + 1 >= 2 /\ (m + 1) - 1 = m
    BY <1>0, <2>2
  <2>4. Exponent(t, m + 1)
    BY <1>0, <1>9, <2>1, <2>3 DEF Exponent
  <2> QED BY <1>0, <2>4, Shapes
<1> QED
  BY <1>2, <1>3, <1>4, <1>5, <1>6, <1>7, <1>8, <1>9

(* The sign and the digits of an exponent, and those of a radix literal.    *)
LEMMA MorePower ==
    ASSUME NEW t \in Seq(Rune), NEW m \in 0..Len(t), NEW c, c = After(t, m), c # Eof
    PROVE  /\ Shape("exponent", t, m) /\ c \in {"+", "-"} => Shape("sign", t, m + 1)
           /\ \A p \in {"exponent", "sign", "power"} :
                Shape(p, t, m) /\ c \in Digit => Shape("power", t, m + 1)
           /\ \A p \in {"lexHex", "hex"} :
                Shape(p, t, m) /\ c \in Hex => Shape("hex", t, m + 1)
           /\ \A p \in {"lexBin", "bin"} :
                Shape(p, t, m) /\ c \in {"0", "1"} => Shape("bin", t, m + 1)
<1>0. m \in Nat /\ Len(t) \in Nat /\ m < Len(t) /\ c = t[m + 1] /\ m + 1 \in Nat
  BY AfterRune
<1>1. \A i \in 1..(m + 1) : i \in 1..m \/ i = m + 1
  BY <1>0
<1>2. ASSUME Shape("exponent", t, m), c \in {"+", "-"} PROVE Shape("sign", t, m + 1)
  <2>1. Exponent(t, m) /\ m >= 2
    BY <1>0, <1>2, Shapes DEF Exponent
  <2>2. m + 1 >= 2 /\ (m + 1) - 1 = m
    BY <1>0, <2>1
  <2>3. Signed(t, m + 1)
    BY <1>0, <1>2, <2>1, <2>2 DEF Signed
  <2> QED BY <1>0, <2>3, Shapes
<1>3. ASSUME NEW p \in {"exponent", "sign"}, Shape(p, t, m), c \in Digit
      PROVE  Shape("power", t, m + 1)
  <2>1. Exponent(t, m) \/ Signed(t, m)
    BY <1>0, <1>3, Shapes
  <2>2. m >= 2
    BY <1>0, <2>1 DEF Exponent, Signed
  <2>3. m \in 1..((m + 1) - 1) /\ \A j \in (m + 1)..(m + 1) : j = m + 1
    BY <1>0, <2>2
  <2>4. Power(t, m + 1)
    BY <1>0, <1>3, <2>1, <2>3 DEF Power
  <2> QED BY <1>0, <2>4, Shapes
<1>4. ASSUME Shape("power", t, m), c \in Digit PROVE Shape("power", t, m + 1)
  <2>1. Power(t, m)
    BY <1>0, <1>4, Shapes
  <2>2. PICK i \in 1..(m - 1) : /\ Exponent(t, i) \/ Signed(t, i)
                                /\ \A j \in (i + 1)..m : t[j] \in Digit
    BY <2>1 DEF Power
  <2>3. i \in 1..((m + 1) - 1) /\ \A j \in (i + 1)..(m + 1) : j \in (i + 1)..m \/ j = m + 1
    BY <1>0
  <2>4. Power(t, m + 1)
    BY <1>0, <1>4, <2>2, <2>3 DEF Power
  <2> QED BY <1>0, <2>4, Shapes
<1>5. ASSUME NEW a \in {"x", "b"}, NEW D, c \in D,
             RadixText(t, m, a, D) \/ (m = 2 /\ t[1] = "0" /\ t[2] = a)
      PROVE  RadixText(t, m + 1, a, D)
  <2>1. \A i \in 3..(m + 1) : i \in 3..m \/ i = m + 1
    BY <1>0
  <2> QED BY <1>0, <1>5, <2>1 DEF RadixText
<1>6. \A p \in {"lexHex", "hex"} : Shape(p, t, m) /\ c \in Hex => Shape("hex", t, m + 1)
  BY <1>0, <1>5, Shapes
<1>7. \A p \in {"lexBin", "bin"} : Shape(p, t, m) /\ c \in {"0", "1"} => Shape("bin", t, m + 1)
  BY <1>0, <1>5, Shapes
<1> QED
  BY <1>2, <1>3, <1>4, <1>6, <1>7

(* Operators, comments and names.                                           *)
LEMMA MoreText ==
    ASSUME NEW t \in Seq(Rune), NEW m \in 0..Len(t), NEW c, c = After(t, m), c # Eof
    PROVE  /\ m = 0 /\ c \in Lead => Shape(c, t, m + 1)
           /\ Shape("!", t, m) /\ c = "!" => Shape("comment", t, m + 1)
           /\ Shape("comment", t, m) /\ c # "nl" => Shape("comment", t, m + 1)
           /\ Shape(".", t, m) /\ c = "." => Shape("..", t, m + 1)
           /\ Shape("lexIdent", t, m) /\ c \in Letter => Shape("ident", t, m + 1)
           /\ Shape("ident", t, m) /\ c \in Letter \cup Digit => Shape("ident", t, m + 1)
<1>0. m \in Nat /\ Len(t) \in Nat /\ m < Len(t) /\ c = t[m + 1] /\ m + 1 \in Nat
  BY AfterRune
<1>1. \A i \in 1..(m + 1) : i \in 1..m \/ i = m + 1
  BY <1>0
<1>2. m = 0 /\ c \in Lead => Shape(c, t, m + 1)
  BY <1>0, Shapes
<1>3. Shape("!", t, m) /\ c = "!" => Shape("comment", t, m + 1)
  <2>1. "!" \in Lead
    BY DEF Lead
  <2>2. m = 1 /\ t[1] = "!" /\ c = "!" => CommentText(t, m + 1)
    BY <1>0, <1>1 DEF CommentText
  <2> QED BY <1>0, <2>1, <2>2, Shapes
<1>4. Shape("comment", t, m) /\ c # "nl" => Shape("comment", t, m + 1)
  <2>1. CommentText(t, m) /\ c # "nl" => CommentText(t, m + 1)
    BY <1>0, <1>1 DEF CommentText
  <2> QED BY <1>0, <2>1, Shapes
<1>5. Shape(".", t, m) /\ c = "." => Shape("..", t, m + 1)
  <2>1. ASSUME Shape(".", t, m) PROVE m + 1 = 2 /\ t[1] = "." /\ t[2] = c
    <3>1. m = 1 /\ t[1] = "."
      BY <1>0, <2>1, Shapes DEF Lead
    <3>2. m + 1 = 2
      BY <3>1
    <3> QED BY <1>0, <3>1, <3>2
  <2> QED BY <1>0, <2>1, Shapes
<1>6. Shape("lexIdent", t, m) /\ c \in Letter => Shape("ident", t, m + 1)
  <2>1. "lexIdent" \in Between
    BY DEF Between
  <2>2. m = 0 /\ c \in Letter => IdentText(t, m + 1)
    BY <1>0, <1>1 DEF IdentText
  <2> QED BY <1>0, <2>1, <2>2, Shapes
<1>7. Shape("ident", t, m) /\ c \in Letter \cup Digit => Shape("ident", t, m + 1)
  <2>1. IdentText(t, m) /\ c \in Letter \cup Digit => IdentText(t, m + 1)
    BY <1>0, <1>1 DEF IdentText
  <2> QED BY <1>0, <2>1, Shapes
<1> QED
  BY <1>2, <1>3, <1>4, <1>5, <1>6, <1>7

(* String literals: behind one backslash the next rune is escaped, and      *)
(* without two escapes in a row the rune behind it is not.                  *)
LEMMA MoreString ==
    ASSUME NEW t \in Seq(Rune), NEW m \in 0..Len(t), NEW c, c = After(t, m), c # Eof
    PROVE  /\ m = 0 /\ c = "dq" => Shape("string", t, m + 1)
           /\ Shape("string", t, m) /\ c \notin {"dq", "bs"} => Shape("string", t, m + 1)
           /\ Shape("string", t, m) /\ c = "bs" => Shape("escape", t, m + 1)
           /\ Shape("escape", t, m) => Shape("escaped", t, m + 1)
           /\ Shape("escaped", t, m) /\ c # "dq" => Shape("string", t, m + 1)
<1>0. m \in Nat /\ Len(t) \in Nat /\ m < Len(t) /\ c = t[m + 1] /\ m + 1 \in Nat
  BY AfterRune
<1>1. \A i \in 2..(m + 1) : i \in 2..m \/ i = m + 1
  BY <1>0
<1>2. m >= 1 /\ OpenString(t, m) /\ (c = "dq" => Esc(t, m + 1)) => OpenString(t, m + 1)
  BY <1>0, <1>1 DEF OpenString
<1>3. Plain(t) => \A i \in 1..(Len(t) - 2) : ~(t[i] = "bs" /\ t[i + 2] = "bs")
  BY DEF Plain
<1>4. Esc(t, (m + 1) + 1) <=> m + 2 >= 3 /\ t[m + 1] = "bs" /\ t[m] # "bs"
  BY <1>0 DEF Esc
<1>5. Esc(t, m + 1) <=> m + 1 >= 3 /\ t[m] = "bs" /\ t[m - 1] # "bs"
  BY <1>0 DEF Esc
<1>6. OpenString(t, m) => m >= 1 /\ t[1] = "dq"
  BY DEF OpenString
<1>7. m = 0 /\ c = "dq" => Shape("string", t, m + 1)
  <2>1. m = 0 /\ c = "dq" => OpenString(t, m + 1) /\ ~ Esc(t, (m + 1) + 1)
    BY <1>0, <1>1, <1>4 DEF OpenString
  <2> QED BY <1>0, <2>1, Shapes
<1>8. ASSUME Shape("string", t, m), c \notin {"dq", "bs"} PROVE Shape("string", t, m + 1)
  <2>1. ASSUME Plain(t) PROVE OpenString(t, m + 1) /\ ~ Esc(t, (m + 1) + 1)
    <3>1. OpenString(t, m)
      BY <1>0, <1>8, <2>1, Shapes
    <3> QED BY <1>0, <1>2, <1>4, <1>6, <1>8, <3>1
  <2> QED BY <1>0, <2>1, Shapes
<1>9. ASSUME Shape("string", t, m), c = "bs" PROVE Shape("escape", t, m + 1)
  <2>1. ASSUME Plain(t) PROVE OpenString(t, m + 1) /\ Esc(t, (m + 1) + 1)
    <3>1. OpenString(t, m) /\ ~ Esc(t, m + 1)
      BY <1>0, <1>9, <2>1, Shapes
    <3>2. OpenString(t, m + 1)
      BY <1>0, <1>2, <1>6, <1>9, <3>1
    <3>3. m >= 1 /\ t[1] = "dq"
      BY <1>6, <3>1
    <3>4. t[m] # "bs"
      <4>1. ASSUME t[m] = "bs" PROVE FALSE
        <5>1. m >= 2
          BY <1>0, <3>3, <4>1
        <5>2. t[m - 1] = "bs"
          BY <1>0, <1>5, <3>1, <4>1, <5>1
        <5>3. PICK i \in Nat : i = m - 1
          BY <1>0, <5>1
        <5>4. i \in 1..(Len(t) - 2) /\ t[i] = "bs" /\ i + 2 = m + 1
          BY <1>0, <5>1, <5>2, <5>3
        <5> QED BY <1>0, <1>3, <1>9, <2>1, <5>4
      <4> QED BY <4>1
    <3> QED BY <1>0, <1>4, <1>9, <3>2, <3>3, <3>4
  <2> QED BY <1>0, <2>1, Shapes
<1>10. ASSUME Shape("escape", t, m) PROVE Shape("escaped", t, m + 1)
  <2>1. ASSUME Plain(t) PROVE OpenString(t, m + 1) /\ m + 1 >= 3 /\ t[(m + 1) - 1] = "bs"
    <3>1. OpenString(t, m) /\ Esc(t, m + 1)
      BY <1>0, <1>10, <2>1, Shapes
    <3>2. OpenString(t, m + 1)
      BY <1>2, <1>6, <3>1
    <3>3. m + 1 >= 3 /\ t[m] = "bs" /\ (m + 1) - 1 = m
      BY <1>0, <1>5, <3>1
    <3> QED BY <3>2, <3>3
  <2> QED BY <1>0, <2>1, Shapes
<1>11. ASSUME Shape("escaped", t, m), c # "dq" PROVE Shape("string", t, m + 1)
  <2>1. ASSUME Plain(t) PROVE OpenString(t, m + 1) /\ ~ Esc(t, (m + 1) + 1)
    <3>1. OpenString(t, m) /\ m >= 3 /\ t[m - 1] = "bs"
      BY <1>0, <1>11, <2>1, Shapes
    <3>2. OpenString(t, m + 1)
      BY <1>2, <1>6, <1>11, <3>1
    <3>3. PICK i \in Nat : i = m - 1
      BY <1>0, <3>1
    <3>4. i \in 1..(Len(t) - 2) /\ t[i] = "bs" /\ i + 2 = m + 1
      BY <1>0, <3>1, <3>3
    <3>5. t[m + 1] # "bs"
      BY <1>0, <1>3, <2>1, <3>4
    <3> QED BY <1>4, <3>2, <3>5
  <2> QED BY <1>0, <2>1, Shapes
<1> QED
  BY <1>7, <1>8, <1>9, <1>10, <1>11

(* At the end of the source only an escape can be eaten.                    *)
LEMMA Overshoot ==
    ASSUME NEW t \in Seq(Rune)
    PROVE  /\ Shape("escape", t, Len(t)) => Shape("escaped", t, Len(t))
           /\ Shape("escaped", t, Len(t)) => Shape("string", t, Len(t))
<1>1. Len(t) \in Nat
  BY LenProperties
<1> QED
  BY <1>1, Shapes

-----------------------------------------------------------------------------
(* The first m runes of t are a token of kind k, and no longer text is one. *)
Best(k, t, m) == Plain(t) => Lexeme(k, SubSeq(t, 1, m)) /\ NoLonger(t, m)

(* An operator of one rune that nothing longer starts with is a token.      *)
LEMMA OneRuneBest ==
    ASSUME NEW t \in Seq(Rune), NEW k \in DOMAIN OperatorLexeme, NEW a,
           OperatorLexeme[k] = <<a>>, Len(t) >= 1, t[1] = a, NoLonger(t, 1)
    PROVE  Best(k, t, 1)
<1>1. 1 \in 0..Len(t)
  BY LenProperties
<1>2. Len(OperatorLexeme[k]) = 1 /\ \A i \in 1..1 : OperatorLexeme[k][i] = t[i]
  <2>1. \A i \in 1..1 : i = 1
    OBVIOUS
  <2> QED BY <2>1
<1> QED
  BY <1>1, <1>2, PrefixLexeme DEF Best

(* An operator of two runes that nothing longer starts with is a token.     *)
LEMMA TwoRunesBest ==
    ASSUME NEW t \in Seq(Rune), NEW k \in DOMAIN OperatorLexeme, NEW a, NEW b,
           OperatorLexeme[k] = <<a, b>>, Len(t) >= 2, t[1] = a, t[2] = b, NoLonger(t, 2)
    PROVE  Best(k, t, 2)
<1>1. 2 \in 0..Len(t)
  BY LenProperties
<1>2. Len(OperatorLexeme[k]) = 2 /\ \A i \in 1..2 : OperatorLexeme[k][i] = t[i]
  <2>1. \A i \in 1..2 : i = 1 \/ i = 2
    OBVIOUS
  <2> QED BY <2>1
<1> QED
  BY <1>1, <1>2, PrefixLexeme DEF Best

(* The tokens that lex sends itself: one rune, and nothing longer starts    *)
(* with it.                                                                 *)
LEMMA HeadBest ==
    ASSUME NEW t \in Seq(Rune), 0 \in 0..Len(t), NEW c, c = After(t, 0)
    PROVE  /\ c = "'" => Best("SINGLE_QUOTE", t, 1)
           /\ c \in DOMAIN Single => Best(Single[c], t, 1)
<1>0. Len(t) \in Nat /\ (c # Eof => Len(t) >= 1 /\ t[1] = c)
  BY AfterRune
<1>1. ASSUME c = "'" PROVE Best("SINGLE_QUOTE", t, 1)
  <2>1. OperatorLexeme["SINGLE_QUOTE"] = <<"'">> /\ "SINGLE_QUOTE" \in DOMAIN OperatorLexeme
    BY DEF OperatorLexeme
  <2>2. Len(t) >= 1 /\ t[1] = "'"
    BY <1>0, <1>1 DEF Eof
  <2>3. NoLonger(t, 1)
    BY <1>0, <2>2, OperatorLongest
  <2> QED BY <2>1, <2>2, <2>3, OneRuneBest
<1>2. ASSUME c \in DOMAIN Single PROVE Best(Single[c], t, 1)
  <2>1. c # Eof
    BY <1>2 DEF Single, Eof
  <2>2. Len(t) >= 1 /\ t[1] = c /\ 1 \in 0..Len(t)
    BY <1>0, <2>1
  <2>3. NoLonger(t, 1)
    BY <1>0, <1>2, <2>2, OperatorLongest
  <2> QED BY <1>2, <2>2, <2>3, PrefixLexeme DEF Best
<1> QED
  BY <1>1, <1>2

(* The operators, and their prefixes behind which no operator goes on.      *)
LEMMA OperatorBest ==
    ASSUME NEW t \in Seq(Rune), NEW m \in 0..Len(t), NEW c, c = After(t, m)
    PROVE  /\ Shape("!", t, m) /\ c = "=" => Best("NOT_EQUAL", t, m + 1)
           /\ Shape("!", t, m) /\ c \notin {"=", "!"} => Best("NOT", t, m)
           /\ Shape("=", t, m) /\ c = "=" => Best("EQUAL", t, m + 1)
           /\ Shape("=", t, m) /\ c = ">" => Best("FAT_RIGHT_ARROW", t, m + 1)
           /\ Shape("=", t, m) /\ c \notin {"=", ">"} => Best("ASSIGN", t, m)
           /\ Shape(":", t, m) /\ c = ":" => Best("COLON_COLON", t, m + 1)
           /\ Shape(":", t, m) /\ c # ":" => Best("COLON", t, m)
           /\ Shape("-", t, m) /\ c = ">" => Best("RIGHT_ARROW", t, m + 1)
           /\ Shape("-", t, m) /\ c # ">" => Best("MINUS", t, m)
           /\ Shape("<", t, m) /\ c = "=" => Best("LESS_EQUAL", t, m + 1)
           /\ Shape("<", t, m) /\ c # "=" => Best("LESS", t, m)
           /\ Shape(">", t, m) /\ c = "=" => Best("GREATER_EQUAL", t, m + 1)
           /\ Shape(">", t, m) /\ c # "=" => Best("GREATER", t, m)
           /\ Shape("|", t, m) /\ c = "|" => Best("OR", t, m + 1)
           /\ Shape("&", t, m) /\ c = "&" => Best("AND", t, m + 1)
           /\ Shape(".", t, m) /\ c # "." => Best("DOT", t, m)
<1>0. m \in Nat /\ Len(t) \in Nat /\ m <= Len(t) /\ (c # Eof => m < Len(t) /\ t[m + 1] = c)
  BY AfterRune
<1>1. ASSUME NEW p \in Lead, Shape(p, t, m)
      PROVE  /\ m = 1 /\ m + 1 = 2 /\ t[1] = p /\ Len(t) >= 1 /\ c = After(t, 1)
             /\ c # Eof => Len(t) >= 2 /\ t[2] = c
  <2>1. m = 1 /\ t[1] = p
    BY <1>0, <1>1, Shapes
  <2>2. m + 1 = 2
    BY <2>1
  <2> QED BY <1>0, <2>1, <2>2
<1>2. \A p \in {"!", "=", ":", "-", "<", ">", "|", "&", "."} : p \in Lead
  BY DEF Lead
<1>3. ASSUME NEW p \in Lead, NEW k \in DOMAIN OperatorLexeme, Shape(p, t, m),
             OperatorLexeme[k] = <<p>>, NoLonger(t, 1)
      PROVE  Best(k, t, m)
  BY <1>1, <1>3, OneRuneBest
<1>4. ASSUME NEW p \in Lead, NEW k \in DOMAIN OperatorLexeme, Shape(p, t, m), c # Eof,
             OperatorLexeme[k] = <<p, c>>, NoLonger(t, 2)
      PROVE  Best(k, t, m + 1)
  BY <1>1, <1>4, TwoRunesBest
<1>5. ASSUME NEW p \in {"=", ":", "-", "<", ">", "|", "&"}, Shape(p, t, m)
      PROVE  NoLonger(t, 2)
  BY <1>0, <1>1, <1>2, <1>5, OperatorLongest
<1>6. \A k \in {"NOT_EQUAL", "NOT", "EQUAL", "FAT_RIGHT_ARROW", "ASSIGN", "COLON_COLON", "COLON",
                "RIGHT_ARROW", "MINUS", "LESS_EQUAL", "LESS", "GREATER_EQUAL", "GREATER", "OR",
                "AND", "DOT"} : k \in DOMAIN OperatorLexeme
  BY OperatorNames
<1>7. /\ Shape("!", t, m) /\ c = "=" => Best("NOT_EQUAL", t, m + 1)
      /\ Shape("!", t, m) /\ c \notin {"=", "!"} => Best("NOT", t, m)
  <2>1. OperatorLexeme["NOT_EQUAL"] = <<"!", "=">> /\ OperatorLexeme["NOT"] = <<"!">>
    BY DEF OperatorLexeme
  <2>2. Shape("!", t, m) /\ c = "=" => NoLonger(t, 2)
    BY <1>0, <1>1, <1>2, OperatorLongest DEF Eof
  <2>3. Shape("!", t, m) /\ c \notin {"=", "!"} => NoLonger(t, 1)
    BY <1>0, <1>1, <1>2, OperatorLongest
  <2> QED BY <1>2, <1>3, <1>4, <1>6, <2>1, <2>2, <2>3 DEF Eof
<1>8. /\ Shape("=", t, m) /\ c = "=" => Best("EQUAL", t, m + 1)
      /\ Shape("=", t, m) /\ c = ">" => Best("FAT_RIGHT_ARROW", t, m + 1)
      /\ Shape("=", t, m) /\ c \notin {"=", ">"} => Best("ASSIGN", t, m)
  <2>1. /\ OperatorLexeme["EQUAL"] = <<"=", "=">> /\ OperatorLexeme["ASSIGN"] = <<"=">>
        /\ OperatorLexeme["FAT_RIGHT_ARROW"] = <<"=", ">">>
    BY DEF OperatorLexeme
  <2>2. Shape("=", t, m) /\ c \notin {"=", ">"} => NoLonger(t, 1)
    BY <1>0, <1>1, <1>2, OperatorLongest
  <2> QED BY <1>2, <1>3, <1>4, <1>5, <1>6, <2>1, <2>2 DEF Eof
<1>9. /\ Shape(":", t, m) /\ c = ":" => Best("COLON_COLON", t, m + 1)
      /\ Shape(":", t, m) /\ c # ":" => Best("COLON", t, m)
  <2>1. OperatorLexeme["COLON_COLON"] = <<":", ":">> /\ OperatorLexeme["COLON"] = <<":">>
    BY DEF OperatorLexeme
  <2>2. Shape(":", t, m) /\ c # ":" => NoLonger(t, 1)
    BY <1>0, <1>1, <1>2, OperatorLongest
  <2> QED BY <1>2, <1>3, <1>4, <1>5, <1>6, <2>1, <2>2 DEF Eof
<1>10. /\ Shape("-", t, m) /\ c = ">" => Best("RIGHT_ARROW", t, m + 1)
       /\ Shape("-", t, m) /\ c # ">" => Best("MINUS", t, m)
  <2>1. OperatorLexeme["RIGHT_ARROW"] = <<"-", ">">> /\ OperatorLexeme["MINUS"] = <<"-">>
    BY DEF OperatorLexeme
  <2>2. Shape("-", t, m) /\ c # ">" => NoLonger(t, 1)
    BY <1>0, <1>1, <1>2, OperatorLongest
  <2> QED BY <1>2, <1>3, <1>4, <1>5, <1>6, <2>1, <2>2 DEF Eof
<1>11. /\ Shape("<", t, m) /\ c = "=" => Best("LESS_EQUAL", t, m + 1)
       /\ Shape("<", t, m) /\ c # "=" => Best("LESS", t, m)
       /\ Shape(">", t, m) /\ c = "=" => Best("GREATER_EQUAL", t, m + 1)
       /\ Shape(">", t, m) /\ c # "=" => Best("GREATER", t, m)
  <2>1. /\ OperatorLexeme["LESS_EQUAL"] = <<"<", "=">> /\ OperatorLexeme["LESS"] = <<"<">>
        /\ OperatorLexeme["GREATER_EQUAL"] = <<">", "=">> /\ OperatorLexeme["GREATER"] = <<">">>
    BY DEF OperatorLexeme
  <2>2. ASSUME NEW p \in {"<", ">"}, Shape(p, t, m), c # "=" PROVE NoLonger(t, 1)
    BY <1>0, <1>1, <1>2, <2>2, OperatorLongest
  <2> QED BY <1>2, <1>3, <1>4, <1>5, <1>6, <2>1, <2>2 DEF Eof
<1>12. /\ Shape("|", t, m) /\ c = "|" => Best("OR", t, m + 1)
       /\ Shape("&", t, m) /\ c = "&" => Best("AND", t, m + 1)
  <2>1. OperatorLexeme["OR"] = <<"|", "|">> /\ OperatorLexeme["AND"] = <<"&", "&">>
    BY DEF OperatorLexeme
  <2> QED BY <1>2, <1>4, <1>5, <1>6, <2>1 DEF Eof
<1>13. Shape(".", t, m) /\ c # "." => Best("DOT", t, m)
  <2>1. OperatorLexeme["DOT"] = <<".">>
    BY DEF OperatorLexeme
  <2>2. Shape(".", t, m) /\ c # "." => NoLonger(t, 1)
    BY <1>0, <1>1, <1>2, OperatorLongest
  <2> QED BY <1>2, <1>3, <1>6, <2>1, <2>2
<1> QED
  BY <1>7, <1>8, <1>9, <1>10, <1>11, <1>12, <1>13

(* Three dots are an ellipsis.                                              *)
LEMMA EllipsisBest ==
    ASSUME NEW t \in Seq(Rune), NEW m \in 0..Len(t), Shape("..", t, m), After(t, m) = "."
    PROVE  Best("ELLIPSIS", t, m + 1)
<1>1. m = 2 /\ t[1] = "." /\ t[2] = "." /\ m \in Nat /\ Len(t) \in Nat
  BY AfterRune, Shapes
<1>2. m + 1 = 3
  BY <1>1
<1>3. m < Len(t) /\ t[3] = "."
  BY <1>1, <1>2, AfterRune DEF Eof
<1>4. 3 \in 0..Len(t)
  BY <1>1, <1>3
<1>5. "ELLIPSIS" \in DOMAIN OperatorLexeme /\ OperatorLexeme["ELLIPSIS"] = <<".", ".", ".">>
  BY DEF OperatorLexeme
<1>6. Len(OperatorLexeme["ELLIPSIS"]) = 3 /\ \A i \in 1..3 : OperatorLexeme["ELLIPSIS"][i] = t[i]
  <2>1. \A i \in 1..3 : i = 1 \/ i = 2 \/ i = 3
    OBVIOUS
  <2> QED BY <1>1, <1>3, <1>5, <2>1
<1>7. NoLonger(t, 3)
  BY <1>1, OperatorLongest
<1> QED
  BY <1>2, <1>4, <1>5, <1>6, <1>7, PrefixLexeme DEF Best

(* Comments, names and literals.                                            *)
LEMMA TextBest ==
    ASSUME NEW t \in Seq(Rune), NEW m \in 0..Len(t), NEW c, c = After(t, m)
    PROVE  /\ Shape("comment", t, m) /\ c \in {"nl", Eof} => Best("COMMENT", t, m)
           /\ Shape("keyword", t, m) =>
                Best(IF SubSeq(t, 1, m) \in keywords THEN "KEYWORD" ELSE "IDENT", t, m)
           /\ (Shape("string", t, m) \/ Shape("escaped", t, m)) /\ c = "dq" =>
                Best("STRING", t, m + 1)
<1>0. m \in Nat /\ Len(t) \in Nat /\ m <= Len(t) /\ (c # Eof => m < Len(t) /\ t[m + 1] = c)
  BY AfterRune
<1>1. Shape("comment", t, m) /\ c \in {"nl", Eof} => Best("COMMENT", t, m)
  BY <1>0, Shapes, CommentLongest, PrefixLexeme DEF Best
<1>2. Shape("keyword", t, m) =>
        Best(IF SubSeq(t, 1, m) \in keywords THEN "KEYWORD" ELSE "IDENT", t, m)
  BY <1>0, Shapes, IdentLongest, PrefixLexeme DEF Best
<1>3. ASSUME Shape("string", t, m) \/ Shape("escaped", t, m), c = "dq", Plain(t)
      PROVE  Lexeme("STRING", SubSeq(t, 1, m + 1)) /\ NoLonger(t, m + 1)
  <2>1. m < Len(t) /\ t[m + 1] = "dq" /\ m + 1 \in 0..Len(t)
    BY <1>0, <1>3 DEF Eof
  <2>2. OpenString(t, m) /\ (~ Esc(t, m + 1) \/ (m >= 3 /\ t[m - 1] = "bs"))
    BY <1>0, <1>3, <2>1, Shapes
  <2>3. ~ Esc(t, m + 1)
    BY <1>0, <2>2 DEF Esc
  <2>4. StringText(t, m + 1) /\ NoLonger(t, m + 1)
    BY <1>3, <2>2, <2>3, StringLongest
  <2> QED BY <1>3, <2>1, <2>4, PrefixLexeme
<1> QED
  BY <1>1, <1>2, <1>3 DEF Best

(* A number literal that cannot go on is the longest one.                   *)
LEMMA NumberBest ==
    ASSUME NEW t \in Seq(Rune), NEW m \in 0..Len(t), NEW c, c = After(t, m)
    PROVE  /\ Shape("lexDigit", t, m) /\ c \notin Digit \cup {".", "e", "u"} => Best("INT", t, m)
           /\ \A p \in {"lexDigit", "hex", "bin"} :
                Shape(p, t, m) /\ c = "u" => Best("INT", t, m + 1)
           /\ Shape("hex", t, m) /\ c \notin Hex \cup {"u"} => Best("INT", t, m)
           /\ Shape("bin", t, m) /\ c \notin {"0", "1", "u"} => Best("INT", t, m)
           /\ Shape("fraction", t, m) /\ c \notin Digit \cup {"e"} => Best("FLOAT", t, m)
           /\ Shape("power", t, m) /\ c \notin Digit => Best("FLOAT", t, m)
<1>0. m \in Nat /\ Len(t) \in Nat /\ m <= Len(t) /\ (c # Eof => m < Len(t) /\ t[m + 1] = c)
  BY AfterRune
<1>1. IntText(t, m) /\ NoLonger(t, m) => Best("INT", t, m)
  BY PrefixLexeme DEF Best
<1>2. FloatText(t, m) /\ NoLonger(t, m) => Best("FLOAT", t, m)
  BY PrefixLexeme DEF Best
<1>3. Shape("lexDigit", t, m) /\ c \notin Digit \cup {".", "e", "u"} => Best("INT", t, m)
  BY <1>0, <1>1, Shapes, IntLongest
<1>4. ASSUME NEW p \in {"lexDigit", "hex", "bin"}, Shape(p, t, m), c = "u"
      PROVE  Best("INT", t, m + 1)
  <2>1. IntBody(t, m)
    BY <1>0, <1>4, Shapes DEF IntBody
  <2>2. IntText(t, m + 1) /\ NoLonger(t, m + 1)
    BY <1>4, <2>1, IntLongest
  <2>3. m + 1 \in 0..Len(t)
    BY <1>0, <1>4 DEF Eof
  <2> QED BY <2>2, <2>3, PrefixLexeme DEF Best
<1>5. Shape("hex", t, m) /\ c \notin Hex \cup {"u"} => Best("INT", t, m)
  <2>1. RadixText(t, m, "x", Hex) /\ c \notin Hex \cup {"u"} => IntText(t, m) /\ NoLonger(t, m)
    BY RadixLongest
  <2> QED BY <1>0, <1>1, <2>1, Shapes
<1>6. Shape("bin", t, m) /\ c \notin {"0", "1", "u"} => Best("INT", t, m)
  <2>1. RadixText(t, m, "b", {"0", "1"}) /\ c \notin {"0", "1"} \cup {"u"}
          => IntText(t, m) /\ NoLonger(t, m)
    BY RadixLongest
  <2> QED BY <1>0, <1>1, <2>1, Shapes
<1>7. Shape("fraction", t, m) /\ c \notin Digit \cup {"e"} => Best("FLOAT", t, m)
  BY <1>0, <1>2, Shapes, FloatLongest DEF FloatText
<1>8. Shape("power", t, m) /\ c \notin Digit => Best("FLOAT", t, m)
  BY <1>0, <1>2, Shapes, FloatLongest DEF FloatText
<1> QED
  BY <1>3, <1>4, <1>5, <1>6, <1>7, <1>8

(* Where the lexer fails, no text of this start is a token.                 *)
Bad(t, m) == Plain(t) => Barren(t, m)

(* That is so at every call of fail inside a token.                         *)
LEMMA FailsBad ==
    ASSUME NEW t \in Seq(Rune), NEW m \in 0..Len(t), NEW c, c = After(t, m)
    PROVE  /\ \A p \in {"|", "&"} : Shape(p, t, m) /\ c # p => Bad(t, m)
           /\ Shape("..", t, m) /\ c # "." => Bad(t, m)
           /\ Shape("string", t, m) /\ c = Eof => Bad(t, m)
           /\ Shape("lexHex", t, m) /\ c \notin Hex => Bad(t, m)
           /\ Shape("lexBin", t, m) /\ c \notin {"0", "1"} => Bad(t, m)
           /\ Shape("exponent", t, m) /\ c \notin Digit \cup {"+", "-"} => Bad(t, m)
           /\ Shape("sign", t, m) /\ c \notin Digit => Bad(t, m)
           /\ m = 0 /\ c \in {"bs", "#", "bad"} => Bad(t, m)
<1>0. m \in Nat /\ Len(t) \in Nat /\ m <= Len(t) /\ (c # Eof => m < Len(t) /\ t[m + 1] = c)
  BY AfterRune
<1>1. \A p \in {"|", "&"} : Shape(p, t, m) /\ c # p => Bad(t, m)
  <2>1. ASSUME NEW p \in {"|", "&"}, Shape(p, t, m), c # p PROVE Barren(t, m)
    <3>1. m = 1 /\ t[1] = p
      BY <1>0, <2>1, Shapes DEF Lead
    <3> QED BY <1>0, <2>1, <3>1, OperatorLongest
  <2> QED BY <2>1 DEF Bad
<1>2. Shape("..", t, m) /\ c # "." => Bad(t, m)
  BY <1>0, Shapes, OperatorLongest DEF Bad
<1>3. Shape("string", t, m) /\ c = Eof => Bad(t, m)
  <2>1. c = Eof => m = Len(t)
    BY AfterRune
  <2>2. Plain(t) /\ Shape("string", t, m) => OpenString(t, m)
    BY <1>0, Shapes
  <2> QED BY <2>1, <2>2, StringLongest DEF Bad
<1>4. Shape("lexHex", t, m) /\ c \notin Hex => Bad(t, m)
  <2>1. m = 2 /\ t[1] = "0" /\ t[2] = "x" /\ c \notin Hex => Barren(t, m)
    BY RadixLongest
  <2> QED BY <1>0, <2>1, Shapes DEF Bad
<1>5. Shape("lexBin", t, m) /\ c \notin {"0", "1"} => Bad(t, m)
  <2>1. m = 2 /\ t[1] = "0" /\ t[2] = "b" /\ c \notin {"0", "1"} => Barren(t, m)
    BY RadixLongest
  <2> QED BY <1>0, <2>1, Shapes DEF Bad
<1>6. /\ Shape("exponent", t, m) /\ c \notin Digit \cup {"+", "-"} => Bad(t, m)
      /\ Shape("sign", t, m) /\ c \notin Digit => Bad(t, m)
  BY <1>0, Shapes, FloatLongest DEF Bad
<1>7. m = 0 /\ c \in {"bs", "#", "bad"} => Bad(t, m)
  <2>1. ASSUME m = 0, c \in {"bs", "#", "bad"} PROVE Barren(t, m)
    <3>1. t[1] = c
      BY <1>0, <2>1 DEF Eof
    <3> QED BY <1>0, <2>1, <3>1, OperatorLongest
  <2> QED BY <2>1 DEF Bad
<1> QED
  BY <1>1, <1>2, <1>3, <1>4, <1>5, <1>6, <1>7

-----------------------------------------------------------------------------
(* Offsets.  The bytes of the first i runes of a text c.                    *)
Octet == Rune \cup {"wide1", "wide2"}
Encoded(c, i) == FlattenSeq([j \in 1..i |-> BytesOf(c[j])])

(* Every rune takes one byte or two.                                        *)
LEMMA RuneBytes ==
    ASSUME NEW r \in Rune
    PROVE  /\ BytesOf(r) \in Seq(Octet)
           /\ Len(BytesOf(r)) = IF r = "wide" THEN 2 ELSE 1
           /\ IF r = "wide" THEN BytesOf(r)[1] = "wide1" /\ BytesOf(r)[2] = "wide2"
                            ELSE BytesOf(r)[1] = r
           /\ r # "bad" => RuneLen(r) = Len(BytesOf(r))
<1>1. CASE r = "wide"
  <2>1. BytesOf(r) = <<"wide1", "wide2">>
    BY <1>1 DEF BytesOf
  <2>2. "wide1" \in Octet /\ "wide2" \in Octet
    BY DEF Octet
  <2>3. BytesOf(r) \in Seq(Octet) /\ Len(BytesOf(r)) = 2
    BY <2>1, <2>2
  <2>4. RuneLen(r) = 2
    BY <1>1, Zenon DEF RuneLen
  <2>5. BytesOf(r)[1] = "wide1" /\ BytesOf(r)[2] = "wide2"
    BY <2>1
  <2> QED BY <1>1, <2>3, <2>4, <2>5
<1>2. CASE r # "wide"
  <2>1. BytesOf(r) = <<r>>
    BY <1>2 DEF BytesOf
  <2>2. r \in Octet
    BY DEF Octet
  <2>3. BytesOf(r) \in Seq(Octet) /\ Len(BytesOf(r)) = 1
    BY <2>1, <2>2
  <2>4. r # "bad" => RuneLen(r) = 1
    BY <1>2, Zenon DEF RuneLen
  <2>5. BytesOf(r)[1] = r
    BY <2>1
  <2> QED BY <1>2, <2>3, <2>4, <2>5
<1> QED
  BY <1>1, <1>2

(* One rune more is its bytes more.                                         *)
LEMMA EncodedNext ==
    ASSUME NEW c \in Seq(Rune), NEW i \in Nat, i < Len(c)
    PROVE  /\ Encoded(c, i) \in Seq(Octet)
           /\ Encoded(c, i + 1) \in Seq(Octet)
           /\ Encoded(c, i + 1) = Encoded(c, i) \o BytesOf(c[i + 1])
<1> DEFINE q == [j \in 1..i |-> BytesOf(c[j])]
           r == [j \in 1..(i + 1) |-> BytesOf(c[j])]
           x == BytesOf(c[i + 1])
<1>1. Len(c) \in Nat /\ \A j \in 1..Len(c) : c[j] \in Rune
  BY LenProperties, ElementOfSeq
<1>2. \A j \in 1..(i + 1) : BytesOf(c[j]) \in Seq(Octet)
  <2>1. \A j \in 1..(i + 1) : j \in 1..Len(c)
    BY <1>1
  <2> QED BY <1>1, <2>1, RuneBytes
<1>3. \A j \in 1..i : BytesOf(c[j]) \in Seq(Octet)
  <2>1. \A j \in 1..i : j \in 1..(i + 1)
    OBVIOUS
  <2> QED BY <1>2, <2>1
<1>4. q \in Seq(Seq(Octet)) /\ Len(q) = i /\ \A j \in 1..i : q[j] = BytesOf(c[j])
  BY <1>3
<1>5. r \in Seq(Seq(Octet)) /\ Len(r) = i + 1 /\ \A j \in 1..(i + 1) : r[j] = BytesOf(c[j])
  BY <1>2
<1>6. x \in Seq(Octet)
  <2>1. i + 1 \in 1..(i + 1)
    OBVIOUS
  <2> QED BY <1>2, <2>1
<1>7. r = Append(q, x)
  <2>1. /\ Append(q, x) \in Seq(Seq(Octet)) /\ Len(Append(q, x)) = i + 1
        /\ \A j \in 1..i : Append(q, x)[j] = q[j]
        /\ Append(q, x)[i + 1] = x
    <3> HIDE DEF q, x
    <3> QED BY <1>4, <1>6, AppendProperties
  <2>2. \A j \in 1..(i + 1) : r[j] = Append(q, x)[j]
    <3>1. \A j \in 1..(i + 1) : j \in 1..i \/ j = i + 1
      OBVIOUS
    <3> HIDE DEF q, r
    <3> QED BY <1>4, <1>5, <2>1, <3>1
  <2> HIDE DEF q, r, x
  <2> QED BY <1>5, <2>1, <2>2, SeqEqual
<1>8. FlattenSeq(q) \in Seq(Octet) /\ FlattenSeq(Append(q, x)) = FlattenSeq(q) \o x
  <2> HIDE DEF q, x
  <2> QED BY <1>4, <1>6, FlattenAppend
<1>9. FlattenSeq(r) = FlattenSeq(q) \o x /\ FlattenSeq(r) \in Seq(Octet)
  <2> HIDE DEF q, r, x
  <2> QED BY <1>6, <1>7, <1>8, ConcatProperties
<1> QED
  BY <1>8, <1>9 DEF Encoded

(* The bytes of a prefix are a prefix of the bytes.                         *)
LEMMA EncodedGrows ==
    ASSUME NEW c \in Seq(Rune), NEW i \in 0..Len(c), NEW k \in 0..Len(c), i <= k
    PROVE  /\ Encoded(c, i) \in Seq(Octet) /\ Encoded(c, k) \in Seq(Octet)
           /\ Len(Encoded(c, i)) <= Len(Encoded(c, k))
           /\ i < k => Len(Encoded(c, i)) < Len(Encoded(c, k))
           /\ \A b \in 1..Len(Encoded(c, i)) : Encoded(c, k)[b] = Encoded(c, i)[b]
<1>0. Len(c) \in Nat /\ i \in Nat /\ k \in Nat /\ k <= Len(c)
  BY LenProperties
<1> DEFINE Good(m) == /\ Encoded(c, i) \in Seq(Octet) /\ Encoded(c, m) \in Seq(Octet)
                      /\ Len(Encoded(c, i)) <= Len(Encoded(c, m))
                      /\ i < m => Len(Encoded(c, i)) < Len(Encoded(c, m))
                      /\ \A b \in 1..Len(Encoded(c, i)) : Encoded(c, m)[b] = Encoded(c, i)[b]
           S == {d \in Nat : i + d <= Len(c) => Good(i + d)}
<1>1. \A m \in 0..Len(c) : Encoded(c, m) \in Seq(Octet)
  <2>1. CASE Len(c) = 0
    <3>1. Encoded(c, 0) = <<>>
      BY DEF Encoded, FlattenSeq
    <3>2. \A m \in 0..Len(c) : m = 0
      BY <1>0, <2>1
    <3>3. Encoded(c, 0) \in Seq(Octet)
      BY <3>1, EmptySeq
    <3> QED BY <3>2, <3>3
  <2>2. CASE Len(c) > 0
    <3>1. TAKE m \in 0..Len(c)
    <3>2. CASE m < Len(c)
      BY <1>0, <3>2, EncodedNext
    <3>3. CASE m = Len(c)
      <4>1. PICK p \in Nat : p = m - 1
        BY <1>0, <2>2, <3>3
      <4>2. p < Len(c) /\ p + 1 = m
        BY <1>0, <3>3, <4>1
      <4>3. Encoded(c, p + 1) \in Seq(Octet)
        BY <4>2, EncodedNext
      <4> QED BY <4>2, <4>3
    <3> QED BY <1>0, <3>2, <3>3
  <2> QED BY <1>0, <2>1, <2>2
<1>2. 0 \in S
  <2>1. i + 0 = i /\ Len(Encoded(c, i)) \in Nat
    BY <1>0, <1>1, LenProperties
  <2> QED BY <1>1, <2>1
<1>3. \A d \in Nat : d \in S => d + 1 \in S
  <2>1. SUFFICES ASSUME NEW d \in Nat, d \in S, i + (d + 1) <= Len(c)
                 PROVE  Good(i + (d + 1))
    OBVIOUS
  <2>2. PICK m \in Nat : m = i + d
    BY <1>0
  <2>3. m < Len(c) /\ m + 1 = i + (d + 1) /\ i <= m /\ i < m + 1 /\ m \in 0..Len(c)
    BY <1>0, <2>1, <2>2
  <2>4. Good(m)
    BY <1>0, <2>1, <2>2, <2>3
  <2>5. /\ Encoded(c, m + 1) \in Seq(Octet)
        /\ Encoded(c, m + 1) = Encoded(c, m) \o BytesOf(c[m + 1])
    BY <2>3, EncodedNext
  <2>6. c[m + 1] \in Rune
    <3>1. m + 1 \in 1..Len(c)
      BY <1>0, <2>3
    <3> QED BY <3>1, ElementOfSeq
  <2>7. PICK x \in Seq(Octet) : x = BytesOf(c[m + 1]) /\ Len(x) \in {1, 2}
    BY <2>6, RuneBytes
  <2>8. PICK p \in Seq(Octet) : p = Encoded(c, m)
    BY <2>4
  <2>9. /\ Len(p \o x) = Len(p) + Len(x) /\ Len(p) \in Nat /\ Len(x) \in Nat
        /\ \A b \in 1..(Len(p) + Len(x)) : (p \o x)[b] = IF b <= Len(p) THEN p[b] ELSE x[b - Len(p)]
    BY ConcatProperties, LenProperties
  <2>10. Encoded(c, m + 1) = p \o x
    BY <2>5, <2>7, <2>8
  <2>11. Len(Encoded(c, i)) \in Nat /\ Len(Encoded(c, i)) <= Len(p)
    BY <2>4, <2>8, LenProperties
  <2>12. Len(Encoded(c, i)) < Len(Encoded(c, m + 1))
    <3>1. Len(Encoded(c, m + 1)) = Len(p) + Len(x)
      BY <2>9, <2>10
    <3>2. Len(x) = 1 \/ Len(x) = 2
      BY <2>7
    <3>3. PICK u \in Nat, v \in Nat, w \in Nat :
              u = Len(Encoded(c, i)) /\ v = Len(p) /\ w = Len(x)
      BY <2>9, <2>11
    <3>4. u < v + w
      BY <2>11, <3>2, <3>3
    <3> QED BY <3>1, <3>3, <3>4
  <2>13. ASSUME NEW b \in 1..Len(Encoded(c, i))
         PROVE  Encoded(c, m + 1)[b] = Encoded(c, i)[b]
    <3>1. b <= Len(p) /\ b \in 1..(Len(p) + Len(x))
      BY <2>9, <2>11
    <3>2. p[b] = Encoded(c, i)[b]
      BY <2>4, <2>8
    <3> QED BY <2>9, <2>10, <3>1, <3>2
  <2>14. Good(m + 1)
    BY <1>1, <2>3, <2>5, <2>12, <2>13, <2>11, <2>4
  <2> QED BY <2>3, <2>14
<1>4. Nat \subseteq S
  <2> HIDE DEF S
  <2> QED BY <1>2, <1>3, SetInduction
<1>5. PICK d \in Nat : d = k - i
  BY <1>0
<1>6. i + d = k
  BY <1>0, <1>5
<1>7. d \in S
  BY <1>4
<1>8. Good(k)
  BY <1>0, <1>6, <1>7
<1> QED
  BY <1>8

(* The offsets of the runes of the source,                                  *)
LEMMA Offsets ==
    ASSUME code \in Seq(Rune)
    PROVE  /\ Bytes = Encoded(code, Len(code)) /\ Bytes \in Seq(Octet) /\ Len(Bytes) \in Nat
           /\ \A i : OffsetOf(i) = Len(Encoded(code, i))
           /\ OffsetOf(0) = 0 /\ OffsetOf(Len(code)) = Len(Bytes)
           /\ \A i \in 0..Len(code) : OffsetOf(i) \in Nat /\ OffsetOf(i) <= Len(Bytes)
           /\ \A i, k \in 0..Len(code) : i < k => OffsetOf(i) < OffsetOf(k)
<1>0. Len(code) \in Nat /\ DOMAIN code = 1..Len(code)
  BY LenProperties
<1>1. Bytes = Encoded(code, Len(code))
  BY <1>0 DEF Bytes, Encoded
<1>2. \A i : OffsetOf(i) = Len(Encoded(code, i))
  BY DEF OffsetOf, Encoded
<1>3. Len(code) \in 0..Len(code) /\ \A i \in 0..Len(code) : i <= Len(code)
  BY <1>0
<1>4. Bytes \in Seq(Octet) /\ Len(Bytes) \in Nat
  <2>1. Encoded(code, Len(code)) \in Seq(Octet)
    BY <1>3, EncodedGrows
  <2> QED BY <1>1, <2>1, LenProperties
<1>5. OffsetOf(0) = 0
  <2>1. Encoded(code, 0) = <<>>
    BY DEF Encoded, FlattenSeq
  <2> QED BY <1>2, <2>1
<1>6. \A i \in 0..Len(code) : OffsetOf(i) \in Nat /\ OffsetOf(i) <= Len(Bytes)
  <2>1. ASSUME NEW i \in 0..Len(code)
        PROVE  Encoded(code, i) \in Seq(Octet) /\ Len(Encoded(code, i)) <= Len(Bytes)
    BY <1>1, <1>3, EncodedGrows
  <2> QED BY <1>2, <2>1, LenProperties
<1>7. \A i, k \in 0..Len(code) : i < k => OffsetOf(i) < OffsetOf(k)
  <2>1. ASSUME NEW i \in 0..Len(code), NEW k \in 0..Len(code), i < k
        PROVE  Len(Encoded(code, i)) < Len(Encoded(code, k))
    <3>1. i <= k
      BY <1>0, <2>1
    <3> QED BY <2>1, <3>1, EncodedGrows
  <2> QED BY <1>2, <2>1
<1> QED
  BY <1>1, <1>2, <1>4, <1>5, <1>6, <1>7

(* and the bytes that stand there.                                          *)
LEMMA RuneAt ==
    ASSUME code \in Seq(Rune), NEW i \in Nat, i < Len(code), NEW r, r = code[i + 1]
    PROVE  /\ r \in Rune /\ i \in 0..Len(code) /\ i + 1 \in 0..Len(code)
           /\ r = "wide" => /\ OffsetOf(i + 1) = OffsetOf(i) + 2
                            /\ Bytes[OffsetOf(i) + 1] = "wide1"
                            /\ Bytes[OffsetOf(i) + 2] = "wide2"
           /\ r # "wide" => /\ OffsetOf(i + 1) = OffsetOf(i) + 1
                            /\ Bytes[OffsetOf(i) + 1] = r
           /\ r # "bad" => OffsetOf(i + 1) = OffsetOf(i) + RuneLen(r)
<1>0. Len(code) \in Nat /\ i + 1 \in 1..Len(code) /\ i \in 0..Len(code) /\ i + 1 \in 0..Len(code)
  BY LenProperties
<1>1. r \in Rune
  BY <1>0, ElementOfSeq
<1>2. PICK x \in Seq(Octet) :
        /\ x = BytesOf(r) /\ Len(x) = IF r = "wide" THEN 2 ELSE 1
        /\ IF r = "wide" THEN x[1] = "wide1" /\ x[2] = "wide2" ELSE x[1] = r
        /\ r # "bad" => RuneLen(r) = Len(x)
  BY <1>1, RuneBytes
<1>3. PICK p \in Seq(Octet), q \in Seq(Octet) :
        p = Encoded(code, i) /\ q = Encoded(code, i + 1) /\ q = p \o x
  BY <1>2, EncodedNext
<1>4. /\ Len(q) = Len(p) + Len(x) /\ Len(p) \in Nat /\ Len(q) \in Nat
      /\ \A b \in 1..(Len(p) + Len(x)) : q[b] = IF b <= Len(p) THEN p[b] ELSE x[b - Len(p)]
  <2>1. /\ Len(p \o x) = Len(p) + Len(x)
        /\ \A b \in 1..(Len(p) + Len(x)) :
             (p \o x)[b] = IF b <= Len(p) THEN p[b] ELSE x[b - Len(p)]
    BY ConcatProperties
  <2>2. Len(p) \in Nat /\ Len(q) \in Nat
    BY LenProperties
  <2>3. q = p \o x
    BY <1>3
  <2> QED BY <2>1, <2>2, <2>3
<1>5. \A b \in 1..Len(q) : Bytes[b] = q[b]
  <2>1. Len(code) \in 0..Len(code) /\ i + 1 <= Len(code)
    BY <1>0
  <2>2. \A b \in 1..Len(Encoded(code, i + 1)) : Encoded(code, Len(code))[b] = Encoded(code, i + 1)[b]
    BY <1>0, <2>1, EncodedGrows
  <2> QED BY <1>3, <2>2, Offsets
<1>6. PICK o \in Nat : o = OffsetOf(i) /\ o = Len(p)
  BY <1>3, <1>4, Offsets
<1>7. OffsetOf(i + 1) = o + Len(x)
  BY <1>3, <1>4, <1>6, Offsets
<1>8. CASE r = "wide"
  <2>1. Len(x) = 2 /\ x[1] = "wide1" /\ x[2] = "wide2"
    BY <1>2, <1>8
  <2>2. /\ o + 1 \in 1..Len(q) /\ o + 2 \in 1..Len(q) /\ Len(q) = o + 2
        /\ ~(o + 1 <= o) /\ ~(o + 2 <= o) /\ (o + 1) - o = 1 /\ (o + 2) - o = 2
    BY <1>4, <1>6, <2>1
  <2>3. q[o + 1] = "wide1" /\ q[o + 2] = "wide2"
    BY <1>4, <1>6, <2>1, <2>2
  <2> QED BY <1>0, <1>1, <1>2, <1>5, <1>6, <1>7, <1>8, <2>1, <2>2, <2>3
<1>9. CASE r # "wide"
  <2>1. Len(x) = 1 /\ x[1] = r
    BY <1>2, <1>9
  <2>2. o + 1 \in 1..Len(q) /\ Len(q) = o + 1 /\ ~(o + 1 <= o) /\ (o + 1) - o = 1
    BY <1>4, <1>6, <2>1
  <2>3. q[o + 1] = r
    BY <1>4, <1>6, <2>1, <2>2
  <2> QED BY <1>0, <1>1, <1>2, <1>5, <1>6, <1>7, <1>9, <2>1, <2>2, <2>3
<1> QED
  BY <1>8, <1>9

(* Lines and columns, byte by byte.                                         *)
Ends(B, o) == {b \in 1..o : B[b] = "nl"}
Columns(B, o) == {b \in 1..o : \A n \in Ends(B, o) : n < b}

(* One byte more is one line more or one column more.                       *)
LEMMA OneByteMore ==
    ASSUME NEW B, NEW o \in Nat
    PROVE  /\ Cardinality(Ends(B, o)) \in Nat /\ Cardinality(Columns(B, o)) \in Nat
           /\ B[o + 1] = "nl" => /\ Cardinality(Ends(B, o + 1)) = Cardinality(Ends(B, o)) + 1
                                 /\ Cardinality(Columns(B, o + 1)) = 0
           /\ B[o + 1] # "nl" => /\ Cardinality(Ends(B, o + 1)) = Cardinality(Ends(B, o))
                                 /\ Cardinality(Columns(B, o + 1)) = Cardinality(Columns(B, o)) + 1
<1>1. IsFiniteSet(1..o)
  BY FS_Interval
<1>2. IsFiniteSet(Ends(B, o)) /\ IsFiniteSet(Columns(B, o))
  <2>1. Ends(B, o) \subseteq 1..o /\ Columns(B, o) \subseteq 1..o
    BY DEF Ends, Columns
  <2> QED BY <1>1, <2>1, FS_Subset
<1>3. Cardinality(Ends(B, o)) \in Nat /\ Cardinality(Columns(B, o)) \in Nat
  BY <1>2, FS_CardinalityType
<1>4. \A b \in 1..(o + 1) : b \in 1..o \/ b = o + 1
  OBVIOUS
<1>5. o + 1 \notin Ends(B, o) /\ o + 1 \notin Columns(B, o) /\ \A b \in 1..o : b \in 1..(o + 1)
  BY DEF Ends, Columns
<1>6. o + 1 \in 1..(o + 1) /\ \A b \in 1..o : b < o + 1 /\ ~(o + 1 < b)
  OBVIOUS
<1>7. ASSUME B[o + 1] = "nl"
      PROVE  /\ Cardinality(Ends(B, o + 1)) = Cardinality(Ends(B, o)) + 1
             /\ Cardinality(Columns(B, o + 1)) = 0
  <2>1. Ends(B, o + 1) = Ends(B, o) \cup {o + 1}
    BY <1>4, <1>5, <1>6, <1>7 DEF Ends
  <2>2. Columns(B, o + 1) = {}
    <3>1. o + 1 \in Ends(B, o + 1)
      BY <2>1
    <3>2. \A b \in 1..(o + 1) : ~(o + 1 < b)
      OBVIOUS
    <3> QED BY <3>1, <3>2 DEF Columns
  <2>3. Cardinality(Ends(B, o) \cup {o + 1}) = Cardinality(Ends(B, o)) + 1
    BY <1>2, <1>5, FS_AddElement
  <2> QED BY <2>1, <2>2, <2>3, FS_EmptySet
<1>8. ASSUME B[o + 1] # "nl"
      PROVE  /\ Cardinality(Ends(B, o + 1)) = Cardinality(Ends(B, o))
             /\ Cardinality(Columns(B, o + 1)) = Cardinality(Columns(B, o)) + 1
  <2>1. Ends(B, o + 1) = Ends(B, o)
    BY <1>4, <1>5, <1>8 DEF Ends
  <2>2. Columns(B, o + 1) = Columns(B, o) \cup {o + 1}
    <3>1. \A n \in Ends(B, o) : n < o + 1
      BY <1>6 DEF Ends
    <3> QED BY <1>4, <1>5, <1>6, <2>1, <3>1 DEF Columns
  <2>3. Cardinality(Columns(B, o) \cup {o + 1}) = Cardinality(Columns(B, o)) + 1
    BY <1>2, <1>5, FS_AddElement
  <2> QED BY <2>1, <2>2, <2>3
<1> QED
  BY <1>3, <1>7, <1>8

(* eat keeps line and column true.                                          *)
LEMMA EatenTrue ==
    ASSUME TypeOK, ValidUTF8, read < Len(code), current.Offset = OffsetOf(read)
    PROVE  /\ Eaten.Offset = OffsetOf(read + 1)
           /\ TruePos(current) => TruePos(Eaten)
<1>0. code \in Seq(Rune) /\ Len(code) \in Nat /\ read \in Nat /\ current \in Pos
  BY LenProperties DEF TypeOK
<1>1. PICK r : r = code[read + 1] /\ top = r
  BY DEF top
<1>2. r \in Rune /\ r # "bad"
  <2>1. read + 1 \in 1..Len(code) /\ DOMAIN code = 1..Len(code)
    BY <1>0, LenProperties
  <2> QED BY <1>0, <1>1, <2>1, ElementOfSeq DEF ValidUTF8, Range
<1>3. PICK o \in Nat : o = current.Offset
  BY <1>0 DEF Pos
<1>4. Eaten.Offset = OffsetOf(read + 1)
  BY <1>0, <1>1, <1>2, RuneAt DEF Eaten
<1>5. \A p : TruePos(p) <=> /\ p.Line = 1 + Cardinality(Ends(Bytes, p.Offset))
                            /\ p.Column = 1 + Cardinality(Columns(Bytes, p.Offset))
  BY DEF TruePos, Ends, Columns
<1>6. ASSUME TruePos(current)
      PROVE  /\ Eaten.Line = 1 + Cardinality(Ends(Bytes, Eaten.Offset))
             /\ Eaten.Column = 1 + Cardinality(Columns(Bytes, Eaten.Offset))
  <2>1. PICK l \in Nat, k \in Nat :
          /\ l = Cardinality(Ends(Bytes, o)) /\ k = Cardinality(Columns(Bytes, o))
          /\ current.Line = 1 + l /\ current.Column = 1 + k
    BY <1>3, <1>5, <1>6, OneByteMore
  <2>2. CASE r = "wide"
    <3>1. Bytes[o + 1] = "wide1" /\ Bytes[o + 2] = "wide2" /\ OffsetOf(read + 1) = o + 2
      BY <1>0, <1>1, <1>3, <2>2, RuneAt
    <3>2. RuneLen(r) = 2
      BY <2>2, Zenon DEF RuneLen
    <3>3. PICK o1 \in Nat : o1 = o + 1 /\ o1 + 1 = o + 2
      OBVIOUS
    <3>4. Cardinality(Ends(Bytes, o1)) = l /\ Cardinality(Columns(Bytes, o1)) = k + 1
      BY <2>1, <3>1, <3>3, OneByteMore
    <3>5. Bytes[o1 + 1] # "nl"
      BY <3>1, <3>3
    <3>6. Cardinality(Ends(Bytes, o1 + 1)) = l /\ Cardinality(Columns(Bytes, o1 + 1)) = k + 1 + 1
      BY <3>4, <3>5, OneByteMore
    <3>7. Eaten.Line = 1 + l /\ Eaten.Column = 1 + k + 2
      BY <1>1, <2>1, <2>2, <3>2 DEF Eaten
    <3> QED BY <1>4, <3>1, <3>3, <3>6, <3>7
  <2>3. CASE r # "wide"
    <3>1. Bytes[o + 1] = r /\ OffsetOf(read + 1) = o + 1
      BY <1>0, <1>1, <1>3, <2>3, RuneAt
    <3>2. RuneLen(r) = 1
      BY <1>2, <2>3, Zenon DEF RuneLen
    <3>3. CASE r = "nl"
      <4>1. Eaten.Line = 1 + l + 1 /\ Eaten.Column = 1
        BY <1>1, <2>1, <3>3 DEF Eaten
      <4>2. Cardinality(Ends(Bytes, o + 1)) = l + 1 /\ Cardinality(Columns(Bytes, o + 1)) = 0
        BY <2>1, <3>1, <3>3, OneByteMore
      <4> QED BY <1>4, <3>1, <4>1, <4>2
    <3>4. CASE r # "nl"
      <4>1. Eaten.Line = 1 + l /\ Eaten.Column = 1 + k + 1
        BY <1>1, <2>1, <3>2, <3>4 DEF Eaten
      <4>2. Cardinality(Ends(Bytes, o + 1)) = l /\ Cardinality(Columns(Bytes, o + 1)) = k + 1
        BY <2>1, <3>1, <3>4, OneByteMore
      <4> QED BY <1>4, <3>1, <4>1, <4>2
    <3> QED BY <3>3, <3>4
  <2> QED BY <2>2, <2>3
<1> QED
  BY <1>4, <1>5, <1>6

-----------------------------------------------------------------------------
(* The text from rune s on, as far as the lexer has read it.                *)
LEMMA TextParts ==
    ASSUME code \in Seq(Rune), NEW s \in 0..Len(code), NEW t, t = Text(s, Len(code))
    PROVE  /\ t \in Seq(Rune) /\ Len(t) = Len(code) - s
           /\ \A i \in 1..Len(t) : t[i] = code[s + i]
           /\ \A q \in s..Len(code) :
                /\ q - s \in 0..Len(t) /\ Text(s, q) = SubSeq(t, 1, q - s)
                /\ After(t, q - s) = IF q < Len(code) THEN code[q + 1] ELSE Eof
           /\ ~AdjacentEscapes => Plain(t)
<1>0. Len(code) \in Nat /\ s \in Nat /\ s <= Len(code) /\ s + 1 \in Nat \ {0}
  BY LenProperties
<1>1. t \in Seq(Rune) /\ Len(t) = Len(code) - s /\ \A i \in 1..Len(t) : t[i] = code[s + i]
  <2>1. \A q \in s..Len(code) :
          /\ Text(s, q) \in Seq(Rune) /\ Len(Text(s, q)) = IF s + 1 <= q THEN q - (s + 1) + 1 ELSE 0
          /\ \A i \in 1..(q - (s + 1) + 1) : Text(s, q)[i] = code[s + 1 + i - 1]
    <3>1. TAKE q \in s..Len(code)
    <3>2. q \in Nat /\ q <= Len(code)
      BY <1>0
    <3> QED BY <1>0, <3>2, SliceRunes DEF Text
  <2>2. Len(code) \in s..Len(code)
    BY <1>0
  <2>3. t \in Seq(Rune) /\ Len(t) = Len(code) - s
    BY <1>0, <2>1, <2>2
  <2>4. ASSUME NEW i \in 1..Len(t) PROVE t[i] = code[s + i]
    <3>1. i \in 1..(Len(code) - (s + 1) + 1) /\ s + 1 + i - 1 = s + i
      BY <1>0, <2>3
    <3>2. t[i] = code[s + 1 + i - 1]
      BY <2>1, <2>2, <3>1
    <3> QED BY <3>1, <3>2
  <2> QED BY <2>3, <2>4
<1>2. ASSUME NEW q \in s..Len(code)
      PROVE  /\ q - s \in 0..Len(t) /\ Text(s, q) = SubSeq(t, 1, q - s)
             /\ After(t, q - s) = IF q < Len(code) THEN code[q + 1] ELSE Eof
  <2>1. PICK m \in Nat : m = q - s
    BY <1>0
  <2>2. q \in Nat /\ q <= Len(code) /\ s + m = q /\ m <= Len(t) /\ Len(t) \in Nat /\ m \in 0..Len(t)
    BY <1>0, <1>1, <2>1
  <2>3. PICK v : v = Text(s, q)
    OBVIOUS
  <2>4. v \in Seq(Rune) /\ Len(v) = m /\ \A i \in 1..m : v[i] = code[s + i]
    <3>1. /\ v \in Seq(Rune) /\ Len(v) = IF s + 1 <= q THEN q - (s + 1) + 1 ELSE 0
          /\ \A i \in 1..(q - (s + 1) + 1) : v[i] = code[s + 1 + i - 1]
      BY <1>0, <2>2, <2>3, SliceRunes DEF Text
    <3>2. Len(v) = m /\ q - (s + 1) + 1 = m
      BY <1>0, <2>2, <3>1
    <3>3. \A i \in 1..m : s + 1 + i - 1 = s + i
      BY <1>0
    <3> QED BY <3>1, <3>2, <3>3
  <2>5. PICK u : u = SubSeq(t, 1, m)
    OBVIOUS
  <2>6. u \in Seq(Rune) /\ Len(u) = m /\ \A i \in 1..m : u[i] = t[i]
    BY <1>1, <2>2, <2>5, PrefixRunes
  <2>7. \A i \in 1..m : v[i] = u[i]
    <3>1. \A i \in 1..m : i \in 1..Len(t)
      BY <2>2
    <3> QED BY <1>1, <2>4, <2>6, <3>1
  <2>8. v = u
    BY <2>4, <2>6, <2>7, SeqEqual
  <2>9. After(t, m) = IF q < Len(code) THEN code[q + 1] ELSE Eof
    <3>1. CASE q < Len(code)
      <4>1. m < Len(t) /\ m + 1 \in 1..Len(t) /\ s + (m + 1) = q + 1
        BY <1>0, <1>1, <2>2, <3>1
      <4> QED BY <1>1, <3>1, <4>1 DEF After
    <3>2. CASE ~ (q < Len(code))
      <4>1. ~ (m < Len(t))
        BY <1>0, <1>1, <2>2, <3>2
      <4> QED BY <3>2, <4>1 DEF After
    <3> QED BY <3>1, <3>2
  <2> QED BY <2>1, <2>2, <2>3, <2>5, <2>8, <2>9
<1>3. ASSUME ~AdjacentEscapes PROVE Plain(t)
  <2>1. SUFFICES ASSUME NEW i \in 1..(Len(t) - 2) PROVE ~(t[i] = "bs" /\ t[i + 2] = "bs")
    BY DEF Plain
  <2>2. PICK k \in Nat : k = s + i
    BY <1>0
  <2>3. /\ i \in 1..Len(t) /\ i + 2 \in 1..Len(t) /\ s + (i + 2) = k + 2
        /\ k \in 1..(Len(code) - 2)
    BY <1>0, <1>1, <2>2
  <2>4. t[i] = code[k] /\ t[i + 2] = code[k + 2]
    BY <1>1, <2>2, <2>3
  <2> QED BY <1>3, <2>3, <2>4 DEF AdjacentEscapes
<1> QED
  BY <1>1, <1>2, <1>3

(* The lexer looks a keyword up by its bytes, the grammar by its runes.     *)
LEMMA WordBytes ==
    ASSUME code \in Seq(Rune), NEW s \in 0..Len(code), NEW q \in s..Len(code)
    PROVE  SubSeq(Bytes, OffsetOf(s) + 1, OffsetOf(q)) \in keywords <=> Text(s, q) \in keywords
<1>0. /\ Len(code) \in Nat /\ s \in Nat /\ q \in Nat /\ s <= q /\ q <= Len(code)
      /\ q \in 0..Len(code)
  BY LenProperties
<1>1. PICK a \in Nat, z \in Nat : a = OffsetOf(s) /\ z = OffsetOf(q) /\ z <= Len(Bytes) /\ a <= z
  BY <1>0, Offsets
<1>2. PICK w : w = SubSeq(Bytes, a + 1, z)
  OBVIOUS
<1>3. Bytes \in Seq(Octet)
  BY Offsets
<1>4. w \in Seq(Octet) /\ Len(w) = z - a /\ \A i \in 1..(z - a) : w[i] = Bytes[a + i]
  <2>1. /\ w \in Seq(Octet) /\ Len(w) = IF a + 1 <= z THEN z - (a + 1) + 1 ELSE 0
        /\ \A i \in 1..(z - (a + 1) + 1) : w[i] = Bytes[a + 1 + i - 1]
    BY <1>1, <1>2, <1>3, SliceRunes
  <2>2. Len(w) = z - a /\ z - (a + 1) + 1 = z - a
    BY <1>1, <2>1
  <2>3. \A i \in 1..(z - a) : a + 1 + i - 1 = a + i
    BY <1>1
  <2> QED BY <2>1, <2>2, <2>3
<1>5. PICK v : v = Text(s, q)
  OBVIOUS
<1>6. v \in Seq(Rune) /\ Len(v) = q - s /\ \A i \in 1..(q - s) : v[i] = code[s + i]
  <2>1. /\ v \in Seq(Rune) /\ Len(v) = IF s + 1 <= q THEN q - (s + 1) + 1 ELSE 0
        /\ \A i \in 1..(q - (s + 1) + 1) : v[i] = code[s + 1 + i - 1]
    BY <1>0, <1>5, SliceRunes DEF Text
  <2>2. Len(v) = q - s /\ q - (s + 1) + 1 = q - s
    BY <1>0, <2>1
  <2>3. \A i \in 1..(q - s) : s + 1 + i - 1 = s + i
    BY <1>0
  <2> QED BY <2>1, <2>2, <2>3
<1>7. \A x \in keywords : \A i \in 1..Len(x) : x[i] # "wide" /\ x[i] # "wide1"
  <2>1. TAKE x \in keywords
  <2>2. x \in Seq(Letter \ {"wide"})
    BY KeywordsAssumption
  <2>3. \A i \in 1..Len(x) : x[i] \in Letter \ {"wide"}
    BY <2>2, ElementOfSeq
  <2> QED BY <2>3 DEF Letter
<1>8. CASE \E i \in s..(q - 1) : code[i + 1] = "wide"
  <2>1. PICK i \in s..(q - 1) : code[i + 1] = "wide"
    BY <1>8
  <2>2. i \in Nat /\ i < Len(code) /\ i + 1 \in 0..Len(code) /\ i \in 0..Len(code) /\ i + 1 <= q /\ s <= i
    BY <1>0
  <2>3. /\ OffsetOf(i + 1) = OffsetOf(i) + 2 /\ Bytes[OffsetOf(i) + 1] = "wide1"
    BY <2>1, <2>2, RuneAt
  <2>4. PICK o \in Nat : o = OffsetOf(i) /\ a <= o /\ o + 2 <= z
    <3>1. OffsetOf(i) \in Nat /\ OffsetOf(i + 1) \in Nat
      BY <2>2, Offsets
    <3>2. a <= OffsetOf(i)
      BY <1>0, <1>1, <2>2, <3>1, Offsets
    <3>3. OffsetOf(i + 1) <= z
      <4>1. PICK j \in Nat : j = i + 1 /\ j \in 0..Len(code) /\ (j = q \/ j < q)
        BY <1>0, <2>2
      <4>2. j < q => OffsetOf(j) < OffsetOf(q)
        BY <1>0, <4>1, Offsets
      <4> QED BY <1>1, <3>1, <4>1, <4>2
    <3> QED BY <2>3, <3>1, <3>2, <3>3
  <2>5. PICK d \in 1..(z - a) : a + d = o + 1
    <3>1. (o + 1) - a \in 1..(z - a) /\ a + ((o + 1) - a) = o + 1
      BY <1>1, <2>4
    <3> QED BY <3>1
  <2>6. d \in 1..Len(w) /\ w[d] = "wide1"
    BY <1>4, <2>3, <2>4, <2>5
  <2>7. PICK e \in 1..(q - s) : s + e = i + 1
    <3>1. (i + 1) - s \in 1..(q - s) /\ s + ((i + 1) - s) = i + 1
      BY <1>0, <2>2
    <3> QED BY <3>1
  <2>8. e \in 1..Len(v) /\ v[e] = "wide"
    BY <1>6, <2>1, <2>7
  <2>9. w \notin keywords /\ v \notin keywords
    BY <1>7, <2>6, <2>8
  <2> QED BY <1>1, <1>2, <1>5, <2>9
<1>9. CASE \A i \in s..(q - 1) : code[i + 1] # "wide"
  <2> DEFINE S == {d \in Nat : s + d <= q => OffsetOf(s + d) = a + d}
  <2>1. 0 \in S
    BY <1>0, <1>1
  <2>2. \A d \in Nat : d \in S => d + 1 \in S
    <3>1. SUFFICES ASSUME NEW d \in Nat, d \in S, s + (d + 1) <= q
                   PROVE  OffsetOf(s + (d + 1)) = a + (d + 1)
      OBVIOUS
    <3>2. PICK i \in Nat : i = s + d /\ i + 1 = s + (d + 1) /\ i < Len(code) /\ i \in s..(q - 1) /\ s + d <= q
      BY <1>0, <3>1
    <3>3. OffsetOf(i + 1) = OffsetOf(i) + 1
      BY <1>9, <3>2, RuneAt
    <3>4. OffsetOf(i) = a + d
      BY <3>1, <3>2
    <3> QED BY <1>1, <3>2, <3>3, <3>4
  <2>3. Nat \subseteq S
    <3> HIDE DEF S
    <3> QED BY <2>1, <2>2, SetInduction
  <2>4. \A d \in Nat : s + d <= q => OffsetOf(s + d) = a + d
    BY <2>3
  <2>5. PICK k \in Nat : s + k = q /\ k = q - s
    BY <1>0
  <2>6. z = a + k /\ z - a = k
    BY <1>1, <2>4, <2>5
  <2>7. ASSUME NEW d \in 1..k PROVE w[d] = v[d]
    <3>1. PICK e \in Nat : d = e + 1
      <4>1. d - 1 \in Nat /\ d = (d - 1) + 1
        OBVIOUS
      <4> QED BY <4>1
    <3>2. PICK i \in Nat : i = s + e /\ i + 1 = s + d /\ i < Len(code) /\ i \in s..(q - 1) /\ s + e <= q
      BY <1>0, <2>5, <3>1
    <3>3. Bytes[OffsetOf(i) + 1] = code[i + 1]
      BY <1>9, <3>2, RuneAt
    <3>4. OffsetOf(i) = a + e /\ (a + e) + 1 = a + d
      BY <1>1, <2>4, <3>1, <3>2
    <3>5. Bytes[a + d] = code[s + d]
      BY <3>2, <3>3, <3>4
    <3> QED BY <1>4, <1>6, <2>5, <2>6, <3>5
  <2>8. v \in Seq(Octet)
    <3>1. Rune \subseteq Octet
      BY DEF Octet
    <3> QED BY <1>6, <3>1
  <2>9. w = v
    BY <1>4, <1>6, <2>5, <2>6, <2>7, <2>8, SeqEqual
  <2> QED BY <1>1, <1>2, <1>5, <2>9
<1> QED
  BY <1>8, <1>9

-----------------------------------------------------------------------------
(* No step changes the source.                                              *)
LEMMA SameCode ==
    ASSUME code' = code
    PROVE  /\ Bytes' = Bytes
           /\ \A i : OffsetOf(i)' = OffsetOf(i)
           /\ \A i, j : Text(i, j)' = Text(i, j)
           /\ \A p : TruePos(p)' <=> TruePos(p)
           /\ \A t : LongestToken(t)' <=> LongestToken(t)
           /\ ValidUTF8' <=> ValidUTF8
           /\ AdjacentEscapes' <=> AdjacentEscapes
<1>1. Bytes' = Bytes
  BY DEF Bytes
<1>2. \A i : OffsetOf(i)' = OffsetOf(i)
  BY DEF OffsetOf
<1>3. \A i, j : Text(i, j)' = Text(i, j)
  BY DEF Text
<1>4. \A p : TruePos(p)' <=> TruePos(p)
  BY <1>1 DEF TruePos
<1>5. \A t : LongestToken(t)' <=> LongestToken(t)
  BY <1>2, <1>3 DEF LongestToken
<1>6. ValidUTF8' <=> ValidUTF8
  BY DEF ValidUTF8
<1>7. AdjacentEscapes' <=> AdjacentEscapes
  BY DEF AdjacentEscapes
<1> QED
  BY <1>1, <1>2, <1>3, <1>4, <1>5, <1>6, <1>7

(* Between two tokens of a valid source: everything ExactInv says of a      *)
(* lexer that runs, the token in progress starting at rune s.               *)
Rest(s) == Text(s, Len(code))
Good(s) == /\ TypeOK /\ ValidUTF8 /\ pc \in Running /\ err = <<>> /\ s \in 0..read
           /\ TruePos(start) /\ Scanning(s) /\ Covered /\ TokensExact
Exact == (pc \notin Stop => Placed /\ Headed) /\ Covered /\ TokensExact /\ Verdict

(* The runes of the token in progress.                                      *)
LEMMA GoodText ==
    ASSUME NEW s, Good(s)
    PROVE  /\ code \in Seq(Rune) /\ Len(code) \in Nat /\ read \in Nat /\ read <= Len(code)
           /\ s \in Nat /\ s \in 0..Len(code) /\ s <= read /\ read \in s..Len(code)
           /\ Rest(s) \in Seq(Rune) /\ read - s \in 0..Len(Rest(s))
           /\ After(Rest(s), read - s) = top
           /\ Shape(pc, Rest(s), read - s)
           /\ top = Eof <=> read = Len(code)
           /\ read < Len(code) => top = code[read + 1] /\ top \in Rune
<1>1. /\ code \in Seq(Rune) /\ Len(code) \in Nat /\ read \in Nat /\ read <= Len(code)
      /\ s \in Nat /\ s \in 0..Len(code) /\ s <= read /\ read \in s..Len(code)
  BY LenProperties DEF Good, TypeOK
<1>2. /\ Rest(s) \in Seq(Rune) /\ read - s \in 0..Len(Rest(s))
      /\ After(Rest(s), read - s) = IF read < Len(code) THEN code[read + 1] ELSE Eof
  BY <1>1, TextParts DEF Rest
<1>3. After(Rest(s), read - s) = top
  BY <1>2 DEF top
<1>4. read < Len(code) => top = code[read + 1] /\ top \in Rune
  <2>1. read < Len(code) => read + 1 \in 1..Len(code)
    BY <1>1
  <2> QED BY <1>1, <2>1, ElementOfSeq DEF top
<1>5. Eof \notin Rune
  BY DEF Eof, Rune, Letter, Digit, Space, Lead, Single
<1>6. top = Eof <=> read = Len(code)
  <2>1. read = Len(code) => top = Eof
    BY <1>1 DEF top
  <2> QED BY <1>1, <1>4, <1>5, <2>1
<1> QED
  BY <1>1, <1>2, <1>3, <1>4, <1>6 DEF Good, Scanning, Rest

(* Inside a token: eat, or a step to another point that reads nothing.      *)
EatsOn(s) ==
    \E p \in Running \ Between :
        /\ eat(p)
        /\ \/ top # Eof /\ Shape(p, Rest(s), read - s + 1)
           \/ top = Eof /\ p \in {"string", "escaped"} /\ Shape(p, Rest(s), read - s)

(* Eating a rune of a token keeps the place and the shape of its text.      *)
LEMMA EatsOnExact ==
    ASSUME NEW s, Good(s), EatsOn(s)
    PROVE  Exact'
<1>1. PICK p \in Running \ Between :
        /\ eat(p)
        /\ \/ top # Eof /\ Shape(p, Rest(s), read - s + 1)
           \/ top = Eof /\ p \in {"string", "escaped"} /\ Shape(p, Rest(s), read - s)
  BY DEF EatsOn
<1>2. /\ current' = Eaten /\ pc' = p /\ code' = code /\ start' = start
      /\ tokens' = tokens /\ err' = err
      /\ read' = IF read < Len(code) THEN read + 1 ELSE read
  BY <1>1 DEF eat, forward
<1>3. Covered' /\ TokensExact' /\ Verdict'
  <2>1. Covered'
    BY <1>2, SameCode DEF Good, Covered, Lexed
  <2>2. TokensExact'
    BY <1>2, SameCode DEF Good, TokensExact, Lexed
  <2>3. Verdict'
    BY <1>1, <1>2 DEF Verdict, Running, Stop
  <2> QED BY <2>1, <2>2, <2>3
<1>4. Headed'
  BY <1>1, <1>2 DEF Headed, Between
<1>5. TruePos(start)'
  BY <1>2, SameCode DEF Good
<1>6. s \in 0..read' /\ s \in Nat /\ read \in Nat /\ Len(code) \in Nat
  BY <1>2, GoodText
<1>7. start'.Offset = OffsetOf(s)' /\ Rest(s)' = Rest(s) /\ Text(s, Len(code))' = Text(s, Len(code))
  <2>1. start.Offset = OffsetOf(s)
    BY DEF Good, Scanning
  <2>2. Len(code)' = Len(code)
    BY <1>2
  <2> QED BY <1>2, <2>1, <2>2, SameCode DEF Rest
<1>8. CASE top # Eof
  <2>1. read < Len(code) /\ read' = read + 1 /\ read' - s = read - s + 1
    BY <1>2, <1>6, <1>8, GoodText
  <2>2. TypeOK /\ ValidUTF8 /\ current.Offset = OffsetOf(read) /\ TruePos(current)
    BY <2>1, <1>6 DEF Good, Scanning
  <2>3. Eaten.Offset = OffsetOf(read + 1) /\ TruePos(Eaten)
    BY <2>1, <2>2, EatenTrue
  <2>4. current'.Offset = OffsetOf(read)' /\ TruePos(current)'
    BY <1>2, <2>1, <2>3, SameCode
  <2>5. Shape(p, Rest(s), read' - s)
    BY <1>1, <1>8, <2>1
  <2>6. Shape(pc, Text(s, Len(code)), read - s)'
    BY <1>2, <1>7, <2>5 DEF Rest
  <2> QED BY <1>3, <1>4, <1>5, <1>6, <1>7, <2>4, <2>6 DEF Exact, Placed, Scanning
<1>9. CASE top = Eof
  <2>1. read = Len(code) /\ read' = read /\ p \in {"string", "escaped"}
    BY <1>1, <1>2, <1>6, <1>9, GoodText
  <2>2. Shape(p, Rest(s), read' - s)
    BY <1>1, <1>9, <2>1
  <2>3. Shape(pc, Text(s, Len(code)), read - s)'
    BY <1>2, <1>7, <2>2 DEF Rest
  <2>4. (read = Len(code) /\ pc \in {"string", "escaped"})'
    BY <1>2, <2>1
  <2> QED BY <1>3, <1>4, <1>5, <1>6, <1>7, <2>3, <2>4 DEF Exact, Placed, Scanning
<1> QED
  BY <1>8, <1>9

MovesOn(s) ==
    \E p \in Running :
        /\ pc \notin {"string", "escaped"} /\ pc' \in {p, "panic"}
        /\ UNCHANGED <<code, read, start, current, tokens, err>>
        /\ Shape(p, Rest(s), read - s)
        /\ p = "lexIdent" => top \in Letter \cup {"bs", "#", "bad"}

(* So does a step to another point.                                         *)
LEMMA MovesOnExact ==
    ASSUME NEW s, Good(s), MovesOn(s)
    PROVE  Exact'
<1>1. PICK p \in Running :
        /\ pc \notin {"string", "escaped"} /\ pc' \in {p, "panic"}
        /\ UNCHANGED <<code, read, start, current, tokens, err>>
        /\ Shape(p, Rest(s), read - s)
        /\ p = "lexIdent" => top \in Letter \cup {"bs", "#", "bad"}
  BY DEF MovesOn
<1>2. Covered' /\ TokensExact' /\ Verdict'
  <2>1. Covered'
    BY <1>1, SameCode DEF Good, Covered, Lexed
  <2>2. TokensExact'
    BY <1>1, SameCode DEF Good, TokensExact, Lexed
  <2>3. Verdict'
    BY <1>1 DEF Verdict, Running, Stop
  <2> QED BY <2>1, <2>2, <2>3
<1>3. ASSUME pc' = p PROVE Placed' /\ Headed'
  <2>1. TruePos(start)' /\ TruePos(current)' /\ current'.Offset = OffsetOf(read)'
    BY <1>1, SameCode DEF Good, Scanning
  <2>2. s \in 0..read' /\ start'.Offset = OffsetOf(s)'
    BY <1>1, SameCode DEF Good, Scanning
  <2>3. Shape(pc, Text(s, Len(code)), read - s)'
    BY <1>1, <1>3, SameCode DEF Rest
  <2>4. top' = top
    BY <1>1 DEF top
  <2> QED BY <1>1, <1>3, <2>1, <2>2, <2>3, <2>4 DEF Placed, Scanning, Headed
<1> QED
  BY <1>1, <1>2, <1>3 DEF Exact, Stop

(* No token is named like a verdict.                                        *)
LEMMA KindsApart == "ILLEGAL" \notin Kind /\ "EOF" \notin Kind
<1>1. \A c \in DOMAIN Single : Single[c] \notin {"ILLEGAL", "EOF"}
  BY DEF Single
<1>2. \A k \in Range(Single) : k \notin {"ILLEGAL", "EOF"}
  BY <1>1 DEF Range
<1>3. \A k \in DOMAIN OperatorLexeme : k \notin {"ILLEGAL", "EOF"}
  BY OperatorNames
<1> QED
  BY <1>2, <1>3 DEF Kind

(* A token is sent: what was read since s is a longest lexeme.              *)
Sends(s) ==
    \E k \in Kind, e \in {current, Eaten}, p \in Between :
        /\ emit(k, e, p) /\ current' = e /\ UNCHANGED err
        /\ read' \in s..Len(code) /\ TruePos(e) /\ e.Offset = OffsetOf(read')
        /\ Best(k, Rest(s), read' - s)
        /\ p = "lexIdent" => k = "SINGLE_QUOTE"

(* The token is true to its text, and the next one starts behind it.        *)
LEMMA SendsExact ==
    ASSUME NEW s, Good(s), Sends(s)
    PROVE  Exact'
<1>1. PICK k \in Kind, e \in {current, Eaten}, p \in Between :
        /\ emit(k, e, p) /\ current' = e /\ UNCHANGED err
        /\ read' \in s..Len(code) /\ TruePos(e) /\ e.Offset = OffsetOf(read')
        /\ Best(k, Rest(s), read' - s)
        /\ p = "lexIdent" => k = "SINGLE_QUOTE"
  BY DEF Sends
<1>2. PICK tok : tok = [kind |-> k, Start |-> start, End |-> e]
  OBVIOUS
<1>3. PICK r : r = read' /\ r \in s..Len(code) /\ r \in 0..Len(code) /\ r \in Nat
  BY <1>1, GoodText
<1>4. /\ tokens' = Append(tokens, tok) /\ start' = e /\ current' = e /\ err' = <<>> /\ err = <<>>
      /\ pc' \in {p, "panic"} /\ code' = code /\ e.Offset = OffsetOf(r)
  BY <1>1, <1>2, <1>3 DEF emit, Slice, Good
<1>5. TypeOK
  BY DEF Good
<1>6. k \notin {"ILLEGAL", "EOF"}
  BY KindsApart
<1>7. Range(tokens') = Range(tokens) \cup {tok}
  <2>1. tokens \in Seq([kind : Kind \cup {"ILLEGAL", "EOF"}, Start : Pos, End : Pos])
    BY <1>5 DEF TypeOK
  <2>2. /\ DOMAIN tokens' = 1..(Len(tokens) + 1) /\ DOMAIN tokens = 1..Len(tokens)
        /\ Len(tokens) \in Nat /\ tokens'[Len(tokens) + 1] = tok
        /\ \A i \in 1..Len(tokens) : tokens'[i] = tokens[i]
    BY <1>4, <2>1
  <2>3. \A i \in 1..(Len(tokens) + 1) : i \in 1..Len(tokens) \/ i = Len(tokens) + 1
    BY <2>2
  <2>4. Len(tokens) + 1 \in 1..(Len(tokens) + 1) /\ \A i \in 1..Len(tokens) : i \in 1..(Len(tokens) + 1)
    BY <2>2
  <2> QED BY <2>2, <2>3, <2>4 DEF Range
<1>8. Lexed' = Lexed \cup {tok}
  BY <1>2, <1>6, <1>7 DEF Lexed
<1>9. Covered'
  <2>1. start.Offset \in Nat /\ start.Offset = tok.Start.Offset /\ tok.End.Offset = e.Offset
    BY <1>2, <1>5 DEF TypeOK, Pos
  <2>2. e.Offset \in Nat
    BY <1>3, <1>4, GoodText, Offsets
  <2>3. ASSUME NEW b \in 1..e.Offset
        PROVE  Bytes[b] \in Space \/ \E t \in Lexed' : t.Start.Offset < b /\ b <= t.End.Offset
    <3>1. CASE b <= start.Offset
      <4>1. b \in 1..start.Offset
        BY <2>1, <2>2, <3>1
      <4>2. Bytes[b] \in Space \/ \E t \in Lexed : t.Start.Offset < b /\ b <= t.End.Offset
        BY <1>4, <4>1 DEF Good, Covered
      <4> QED BY <1>8, <4>2
    <3>2. CASE ~ (b <= start.Offset)
      <4>1. tok \in Lexed' /\ tok.Start.Offset < b /\ b <= tok.End.Offset
        BY <1>8, <2>1, <2>2, <3>2
      <4> QED BY <4>1
    <3> QED BY <3>1, <3>2
  <2> QED BY <1>4, <2>3, SameCode DEF Covered
<1>10. ~AdjacentEscapes => LongestToken(tok)
  <2>1. ASSUME ~AdjacentEscapes PROVE LongestToken(tok)
    <3>0. /\ code \in Seq(Rune) /\ s \in 0..Len(code) /\ s \in Nat /\ Len(code) \in Nat
      BY GoodText
    <3>1. PICK t \in Seq(Rune) : t = Rest(s) /\ t = Text(s, Len(code)) /\ Plain(t) /\ Len(t) = Len(code) - s
      BY <2>1, <3>0, TextParts DEF Rest
    <3>2. \A q \in s..Len(code) : q - s \in 0..Len(t) /\ Text(s, q) = SubSeq(t, 1, q - s)
      BY <3>0, <3>1, TextParts
    <3>3. Lexeme(k, SubSeq(t, 1, r - s)) /\ NoLonger(t, r - s)
      BY <1>1, <1>3, <3>1 DEF Best
    <3>4. ASSUME NEW q \in (r + 1)..Len(code), IsLexeme(Text(s, q)) PROVE FALSE
      <4>1. q \in s..Len(code) /\ q - s \in (r - s + 1)..Len(t)
        <5>1. r \in Nat /\ s <= r /\ r <= Len(code) /\ Len(t) = Len(code) - s
          BY <1>3, <3>0, <3>1
        <5>2. q \in Nat /\ r + 1 <= q /\ q <= Len(code)
          BY <3>0, <5>1
        <5> QED BY <3>0, <5>1, <5>2
      <4>2. PICK kk : Lexeme(kk, SubSeq(t, 1, q - s))
        BY <3>2, <3>4, <4>1 DEF IsLexeme
      <4>3. q - s \in 0..Len(t)
        BY <3>2, <4>1
      <4>4. Form(t, q - s)
        BY <3>1, <4>2, <4>3, PrefixForms
      <4> QED BY <3>3, <4>1, <4>4 DEF NoLonger
    <3>5. OffsetOf(s) = tok.Start.Offset /\ OffsetOf(r) = tok.End.Offset /\ tok.kind = k
      BY <1>2, <1>4 DEF Good, Scanning
    <3>6. Lexeme(tok.kind, Text(s, r))
      BY <1>3, <3>2, <3>3, <3>5
    <3> QED BY <1>3, <3>0, <3>4, <3>5, <3>6 DEF LongestToken
  <2> QED BY <2>1
<1>11. TokensExact'
  <2>1. TruePos(tok.Start) /\ TruePos(tok.End)
    BY <1>1, <1>2 DEF Good
  <2>2. \A t \in Lexed' : /\ TruePos(t.Start) /\ TruePos(t.End)
                          /\ ~AdjacentEscapes => LongestToken(t)
    BY <1>8, <1>10, <2>1 DEF Good, TokensExact
  <2> QED BY <1>4, <2>2, SameCode DEF TokensExact
<1>12. Verdict'
  BY <1>4 DEF Verdict, Between
<1>13. ASSUME pc' = p PROVE Placed' /\ Headed'
  <2>1. TruePos(start)' /\ TruePos(current)'
    BY <1>1, <1>4, SameCode
  <2>2. start'.Offset = OffsetOf(read)' /\ current'.Offset = OffsetOf(read)'
    BY <1>3, <1>4, SameCode
  <2>3. read' - read' = 0 /\ read' \in 0..read'
    <3>1. PICK n \in Nat : n = read'
      BY <1>3
    <3>2. n - n = 0 /\ n \in 0..n
      OBVIOUS
    <3> QED BY <3>1, <3>2
  <2>4. \A t : Shape(p, t, 0)
    BY Shapes
  <2>5. Shape(pc, Text(read, Len(code)), read - read)'
    BY <1>13, <2>3, <2>4
  <2>6. Placed'
    BY <2>1, <2>2, <2>3, <2>5 DEF Placed, Scanning
  <2>7. Headed'
    <3>1. tokens' # <<>> /\ tokens'[Len(tokens')] = tok
      BY <1>4, <1>5, OldTokens
    <3> QED BY <1>1, <1>2, <1>13, <3>1 DEF Headed, Last
  <2> QED BY <2>6, <2>7
<1> QED
  BY <1>4, <1>9, <1>11, <1>12, <1>13 DEF Exact, Stop

(* No token is in progress at lex.                                          *)
LEMMA GoodAtLex ==
    ASSUME NEW s, Good(s), pc = "lex"
    PROVE  /\ s = read /\ code \in Seq(Rune) /\ read \in Nat /\ Len(code) \in Nat
           /\ read <= Len(code)
<1>1. /\ code \in Seq(Rune) /\ read \in Nat /\ Len(code) \in Nat /\ read <= Len(code)
      /\ s \in Nat /\ s <= read /\ Shape("lex", Rest(s), read - s)
  BY GoodText
<1>2. PICK m \in Nat : m = read - s
  BY <1>1
<1>3. m = 0
  BY <1>1, <1>2, Shapes DEF Between
<1> QED
  BY <1>1, <1>2, <1>3

(* The lexer stops: an error where nothing could be lexed,                  *)
Quoted == tokens # <<>> /\ Last(tokens).kind = "SINGLE_QUOTE"
Fails(s) ==
    /\ fail
    /\ \/ Bad(Rest(s), read - s)
       \/ Quoted /\ \A j \in 0..Len(Rest(s)) : ~ IdentText(Rest(s), j)

(* The error is justified, and the tokens sent before it stay true.         *)
LEMMA FailsExact ==
    ASSUME NEW s, Good(s), Fails(s)
    PROVE  Exact'
<1>1. PICK tok : tok = [kind |-> "ILLEGAL", Start |-> start, End |-> current]
  OBVIOUS
<1>2. /\ tokens' = Append(tokens, tok) /\ err' = <<[Start |-> start, End |-> current]>>
      /\ pc' \in Stop /\ code' = code /\ read' = read
  BY <1>1 DEF Fails, fail, emit, Slice, Stop
<1>3. /\ tokens \in Seq([kind : Kind \cup {"ILLEGAL", "EOF"}, Start : Pos, End : Pos])
      /\ Len(tokens) \in Nat
  BY DEF Good, TypeOK
<1>4. /\ DOMAIN tokens' = 1..(Len(tokens) + 1) /\ DOMAIN tokens = 1..Len(tokens)
      /\ Len(tokens') = Len(tokens) + 1
      /\ tokens'[Len(tokens) + 1] = tok
      /\ \A i \in 1..Len(tokens) : tokens'[i] = tokens[i]
  BY <1>2, <1>3
<1>5. Lexed' = Lexed
  <2>1. \A i \in 1..(Len(tokens) + 1) : i \in 1..Len(tokens) \/ i = Len(tokens) + 1
    BY <1>3
  <2>2. Len(tokens) + 1 \in 1..(Len(tokens) + 1) /\ \A i \in 1..Len(tokens) : i \in 1..(Len(tokens) + 1)
    BY <1>3
  <2>3. Range(tokens') = Range(tokens) \cup {tok}
    BY <1>4, <2>1, <2>2 DEF Range
  <2> QED BY <1>1, <2>3 DEF Lexed
<1>6. err' # <<>>
  BY <1>2
<1>7. TokensExact'
  BY <1>2, <1>5, SameCode DEF Good, TokensExact
<1>8. ASSUME ~AdjacentEscapes
      PROVE  \A k \in read..Len(code), kind \in Kind :
               Lexeme(kind, Text(s, k)) => AfterQuote' /\ kind \notin {"IDENT", "KEYWORD"}
  <2>0. /\ code \in Seq(Rune) /\ s \in 0..Len(code) /\ s \in Nat /\ Len(code) \in Nat
        /\ read \in Nat /\ s <= read
    BY GoodText
  <2>1. PICK t \in Seq(Rune) : t = Rest(s) /\ t = Text(s, Len(code)) /\ Plain(t) /\ Len(t) = Len(code) - s
    BY <1>8, <2>0, TextParts DEF Rest
  <2>2. \A q \in s..Len(code) : q - s \in 0..Len(t) /\ Text(s, q) = SubSeq(t, 1, q - s)
    BY <2>0, <2>1, TextParts
  <2>3. SUFFICES ASSUME NEW k \in read..Len(code), NEW kind \in Kind, Lexeme(kind, Text(s, k))
                 PROVE  AfterQuote' /\ kind \notin {"IDENT", "KEYWORD"}
    OBVIOUS
  <2>4. k \in s..Len(code) /\ k - s \in (read - s)..Len(t)
    BY <2>0, <2>1
  <2>5. Form(t, k - s) /\ (kind \in {"IDENT", "KEYWORD"} => IdentText(t, k - s))
    BY <2>1, <2>2, <2>3, <2>4, PrefixForms
  <2>6. ~ Bad(Rest(s), read - s)
    BY <2>1, <2>4, <2>5 DEF Bad, Barren
  <2>7. Quoted /\ ~ IdentText(t, k - s)
    BY <2>1, <2>2, <2>4, <2>6 DEF Fails
  <2>8. AfterQuote'
    <3>1. Len(tokens) \in 1..Len(tokens) /\ Len(tokens') > 1 /\ Len(tokens') - 1 = Len(tokens)
      BY <1>3, <1>4, <2>7 DEF Quoted
    <3>2. tokens'[Len(tokens') - 1] = Last(tokens)
      BY <1>4, <3>1 DEF Last
    <3> QED BY <2>7, <3>1, <3>2 DEF AfterQuote, Quoted
  <2> QED BY <2>5, <2>7, <2>8
<1>9. ~AdjacentEscapes => Justified'
  <2>1. s \in 0..Len(code) /\ OffsetOf(s) = err'[1].Start.Offset
    BY <1>2, GoodText DEF Good, Scanning
  <2> QED BY <1>2, <1>8, <2>1, SameCode DEF Justified
<1> QED
  BY <1>2, <1>6, <1>7, <1>9, SameCode DEF Exact, Covered, Verdict

(* or the end of the source.                                                *)
Finishes(s) == pc = "lex" /\ top = Eof /\ emit("EOF", current, "done") /\ UNCHANGED <<read, current, err>>

(* At the end of the source everything is covered.                          *)
LEMMA FinishesExact ==
    ASSUME NEW s, Good(s), Finishes(s)
    PROVE  Exact'
<1>1. PICK tok : tok = [kind |-> "EOF", Start |-> start, End |-> current]
  OBVIOUS
<1>2. /\ tokens' = Append(tokens, tok) /\ err' = <<>> /\ start' = current
      /\ pc' \in Stop /\ code' = code /\ read' = read
  BY <1>1 DEF Finishes, emit, Slice, Stop, Good
<1>3. /\ tokens \in Seq([kind : Kind \cup {"ILLEGAL", "EOF"}, Start : Pos, End : Pos])
      /\ Len(tokens) \in Nat
  BY DEF Good, TypeOK
<1>4. /\ DOMAIN tokens' = 1..(Len(tokens) + 1) /\ DOMAIN tokens = 1..Len(tokens)
      /\ Len(tokens') = Len(tokens) + 1
      /\ tokens'[Len(tokens) + 1] = tok
      /\ \A i \in 1..Len(tokens) : tokens'[i] = tokens[i]
  BY <1>2, <1>3
<1>5. Lexed' = Lexed
  <2>1. \A i \in 1..(Len(tokens) + 1) : i \in 1..Len(tokens) \/ i = Len(tokens) + 1
    BY <1>3
  <2>2. Len(tokens) + 1 \in 1..(Len(tokens) + 1) /\ \A i \in 1..Len(tokens) : i \in 1..(Len(tokens) + 1)
    BY <1>3
  <2>3. Range(tokens') = Range(tokens) \cup {tok}
    BY <1>4, <2>1, <2>2 DEF Range
  <2> QED BY <1>1, <2>3 DEF Lexed
<1>6. TokensExact'
  BY <1>2, <1>5, SameCode DEF Good, TokensExact
<1>7. /\ s = read /\ read = Len(code) /\ start.Offset = Len(Bytes) /\ current.Offset = Len(Bytes)
  <2>1. s = read
    BY GoodAtLex DEF Finishes
  <2>2. read = Len(code) /\ code \in Seq(Rune)
    BY GoodText DEF Finishes
  <2>3. start.Offset = OffsetOf(s) /\ current.Offset = OffsetOf(read)
    BY DEF Good, Scanning, Finishes
  <2> QED BY <2>1, <2>2, <2>3, Offsets
<1>8. Covered'
  <2>1. start'.Offset = start.Offset
    BY <1>2, <1>7
  <2> QED BY <1>2, <1>5, <2>1, SameCode DEF Good, Covered
<1>9. Verdict'
  <2>1. Last(tokens)' = tok
    BY <1>3, <1>4 DEF Last
  <2>2. Last(tokens)'.End.Offset = Len(Bytes) /\ start'.Offset = Len(Bytes)
    BY <1>1, <1>2, <1>7, <2>1
  <2> QED BY <1>2, <2>2, SameCode DEF Verdict
<1> QED
  BY <1>2, <1>6, <1>8, <1>9 DEF Exact

(* A space between two tokens is passed over.                               *)
Passes(s) == pc = "lex" /\ top \in Space /\ consume

(* The space is covered, and the next token starts behind it.               *)
LEMMA PassesExact ==
    ASSUME NEW s, Good(s), Passes(s)
    PROVE  Exact'
<1>1. /\ current' = Eaten /\ start' = Eaten /\ pc' = "lex" /\ pc = "lex" /\ code' = code
      /\ tokens' = tokens /\ err' = err /\ top = " "
      /\ read' = IF read < Len(code) THEN read + 1 ELSE read
  BY DEF Passes, consume, forward, Space
<1>2. /\ s = read /\ code \in Seq(Rune) /\ read \in Nat /\ Len(code) \in Nat
      /\ read <= Len(code)
  BY <1>1, GoodAtLex
<1>3. /\ read < Len(code) /\ code[read + 1] = " " /\ read' = read + 1
      /\ read + 1 \in 0..Len(code)
  <2>1. top # Eof
    BY <1>1 DEF Eof
  <2>2. read < Len(code)
    BY <1>2, <2>1, GoodText
  <2>3. top = code[read + 1]
    BY <2>2, GoodText
  <2>4. read + 1 \in 0..Len(code)
    BY <1>2, <2>2
  <2>5. read' = read + 1
    BY <1>1, <2>2
  <2> QED BY <1>1, <2>2, <2>3, <2>4, <2>5
<1>4. start.Offset = OffsetOf(read) /\ current.Offset = OffsetOf(read) /\ TruePos(current)
  BY <1>1, <1>2, <1>3 DEF Good, Scanning
<1>5. Eaten.Offset = OffsetOf(read + 1) /\ TruePos(Eaten)
  BY <1>2, <1>3, <1>4, EatenTrue DEF Good
<1>6. PICK o \in Nat : o = OffsetOf(read) /\ OffsetOf(read + 1) = o + 1 /\ Bytes[o + 1] = " "
  BY <1>2, <1>3, RuneAt, Offsets
<1>7. Covered'
  <2>1. \A b \in 1..(o + 1) : b \in 1..o \/ b = o + 1
    OBVIOUS
  <2>2. start'.Offset = o + 1 /\ start.Offset = o /\ Lexed' = Lexed
    BY <1>1, <1>4, <1>5, <1>6 DEF Lexed
  <2> QED BY <1>1, <1>6, <2>1, <2>2, SameCode DEF Good, Covered, Space
<1>8. TokensExact'
  BY <1>1, SameCode DEF Good, TokensExact, Lexed
<1>9. Verdict' /\ Headed'
  BY <1>1 DEF Verdict, Headed
<1>10. Placed'
  <2>1. TruePos(start)' /\ TruePos(current)'
    BY <1>1, <1>5, SameCode
  <2>2. start'.Offset = OffsetOf(read)' /\ current'.Offset = OffsetOf(read)'
    BY <1>1, <1>3, <1>5, SameCode
  <2>3. read' - read' = 0 /\ read' \in 0..read'
    <3>1. PICK n \in Nat : n = read'
      <4>1. read + 1 \in Nat
        BY <1>2
      <4>2. read' = read + 1
        BY <1>3
      <4> QED BY <4>1, <4>2
    <3>2. n - n = 0 /\ n \in 0..n
      OBVIOUS
    <3> QED BY <3>1, <3>2
  <2>4. \A t : Shape("lex", t, 0)
    BY Shapes DEF Between
  <2>5. Shape(pc, Text(read, Len(code)), read - read)'
    BY <1>1, <2>3, <2>4
  <2> QED BY <2>1, <2>2, <2>3, <2>5 DEF Placed, Scanning
<1> QED
  BY <1>7, <1>8, <1>9, <1>10 DEF Exact

-----------------------------------------------------------------------------
(* Every state function takes one of these steps.  t is the text from the   *)
(* start of the token in progress and m the number of its runes eaten.      *)
At(s, t, m) == /\ Good(s) /\ t = Rest(s) /\ m = read - s
               /\ top = After(t, m) /\ Shape(pc, t, m)
ExactStep(s) ==
    EatsOn(s) \/ MovesOn(s) \/ Sends(s) \/ Fails(s) \/ Finishes(s) \/ Passes(s)

(* The points inside a token.                                               *)
LEMMA InnerPoints ==
    /\ {"comment", "..", "ident", "keyword", "string", "escape", "escaped", "lexNumber",
        "lexDigit", "fraction", "exponent", "sign", "power", "lexHex", "hex", "lexBin",
        "bin"} \subseteq Running \ Between
    /\ Lead \subseteq Running \ Between /\ Between \subseteq Running
BY DEF Running, Points, Lead, Stop, Between

(* A step that eats one rune of a token,                                    *)
LEMMA EatStep ==
    ASSUME NEW s, NEW t, NEW m, At(s, t, m), NEW p \in Running \ Between, eat(p),
           top # Eof, Shape(p, t, m + 1)
    PROVE  ExactStep(s)
BY DEF At, EatsOn, ExactStep

(* one that sends what was eaten,                                           *)
LEMMA EmitStep ==
    ASSUME NEW s, NEW t, NEW m, At(s, t, m), NEW k \in Kind, Emit(k),
           pc \notin {"string", "escaped"}, Best(k, t, m)
    PROVE  ExactStep(s)
<1>1. emit(k, current, "lex") /\ read' = read /\ current' = current /\ err' = err
  BY DEF Emit
<1>2. read' \in s..Len(code) /\ read' - s = m /\ t = Rest(s)
  BY <1>1, GoodText DEF At
<1>3. TruePos(current) /\ current.Offset = OffsetOf(read')
  BY <1>1 DEF At, Good, Scanning
<1>4. "lex" \in Between /\ "lex" # "lexIdent"
  BY DEF Between
<1> QED
  BY <1>1, <1>2, <1>3, <1>4 DEF ExactStep, Sends

(* one that eats a last rune and sends the token,                           *)
LEMMA EatEmitStep ==
    ASSUME NEW s, NEW t, NEW m, At(s, t, m), NEW k \in Kind, NEW p \in Between,
           emit(k, Eaten, p), current' = Eaten, forward, err' = err, top # Eof,
           Best(k, t, m + 1), p = "lexIdent" => k = "SINGLE_QUOTE"
    PROVE  ExactStep(s)
<1>1. /\ read \in Nat /\ s \in Nat /\ s <= read /\ read < Len(code) /\ Len(code) \in Nat
      /\ m = read - s /\ t = Rest(s)
  BY GoodText DEF At
<1>2. read' = read + 1
  BY <1>1 DEF forward
<1>3. read' \in s..Len(code) /\ read' - s = m + 1
  BY <1>1, <1>2
<1>4. current.Offset = OffsetOf(read) /\ TruePos(current)
  BY <1>1 DEF At, Good, Scanning
<1>5. TruePos(Eaten) /\ Eaten.Offset = OffsetOf(read')
  BY <1>1, <1>2, <1>4, EatenTrue DEF At, Good
<1> QED
  BY <1>1, <1>3, <1>5 DEF ExactStep, Sends

(* one that fails,                                                          *)
LEMMA FailStep ==
    ASSUME NEW s, NEW t, NEW m, At(s, t, m), fail,
           Bad(t, m) \/ (Quoted /\ \A j \in 0..Len(t) : ~ IdentText(t, j))
    PROVE  ExactStep(s)
BY DEF At, Fails, ExactStep

(* and one that only moves on.                                              *)
LEMMA MoveStep ==
    ASSUME NEW s, NEW t, NEW m, At(s, t, m), NEW p \in Running,
           pc \notin {"string", "escaped"}, pc' \in {p, "panic"},
           UNCHANGED <<code, read, start, current, tokens, err>>, Shape(p, t, m),
           p = "lexIdent" => top \in Letter \cup {"bs", "#", "bad"}
    PROVE  ExactStep(s)
BY DEF At, MovesOn, ExactStep

(* lex: the switch on the first rune of a token.                            *)
LEMMA LexStep ==
    ASSUME NEW s, NEW t \in Seq(Rune), NEW m \in 0..Len(t), At(s, t, m), lex
    PROVE  ExactStep(s)
<1>1. pc = "lex" /\ pc \notin {"string", "escaped"} /\ top = After(t, m)
  BY DEF lex, At
<1>2. m = 0 /\ m \in Nat /\ m + 1 = 1 /\ 0 \in 0..Len(t)
  <2>1. m \in Nat /\ Shape("lex", t, m)
    BY <1>1, AfterRune DEF At
  <2>2. m = 0
    BY <2>1, Shapes DEF Between
  <2> QED BY <2>1, <2>2
<1>3. CASE top = Eof /\ emit("EOF", current, "done") /\ UNCHANGED <<read, current, err>>
  BY <1>1, <1>3 DEF ExactStep, Finishes
<1>4. CASE top \in DOMAIN Single /\ EatEmit(Single[top])
  <2>1. top # Eof
    BY <1>4 DEF Single, Eof
  <2>2. Best(Single[top], t, m + 1) /\ Single[top] \in Kind
    BY <1>1, <1>2, <1>4, HeadBest, Kinds
  <2>3. "lex" \in Between /\ "lex" # "lexIdent"
    BY DEF Between
  <2>4. emit(Single[top], Eaten, "lex") /\ current' = Eaten /\ forward /\ err' = err
    BY <1>4 DEF EatEmit
  <2> QED BY <2>1, <2>2, <2>3, <2>4, EatEmitStep
<1>5. CASE top \in Lead /\ eat(top)
  <2>1. top # Eof
    BY <1>5 DEF Lead, Eof
  <2>2. Shape(top, t, m + 1)
    BY <1>1, <1>2, <1>5, <2>1, MoreText
  <2> QED BY <1>5, <2>1, <2>2, EatStep, InnerPoints
<1>6. CASE top = "'" /\ emit("SINGLE_QUOTE", Eaten, "lexIdent") /\ current' = Eaten /\ forward
           /\ UNCHANGED err
  <2>1. top # Eof
    BY <1>6 DEF Eof
  <2>2. Best("SINGLE_QUOTE", t, m + 1) /\ "SINGLE_QUOTE" \in Kind
    BY <1>1, <1>2, <1>6, HeadBest, Kinds
  <2>3. "lexIdent" \in Between
    BY DEF Between
  <2> QED BY <1>6, <2>1, <2>2, <2>3, EatEmitStep
<1>7. CASE top = "dq" /\ eat("string")
  <2>1. top # Eof
    BY <1>7 DEF Eof
  <2>2. Shape("string", t, m + 1)
    BY <1>1, <1>2, <1>7, <2>1, MoreString
  <2> QED BY <1>7, <2>1, <2>2, EatStep, InnerPoints
<1>8. CASE top \in Space /\ consume
  BY <1>1, <1>8 DEF ExactStep, Passes
<1>9. CASE top = "0" /\ eat("lexNumber")
  <2>1. top # Eof
    BY <1>9 DEF Eof
  <2>2. Shape("lexNumber", t, m + 1)
    BY <1>1, <1>2, <1>9, <2>1, MoreDigits
  <2> QED BY <1>9, <2>1, <2>2, EatStep, InnerPoints
<1>10. CASE top \in Digit \ {"0"} /\ eat("lexDigit")
  <2>1. top # Eof
    BY <1>10 DEF Digit, Eof
  <2>2. Shape("lexDigit", t, m + 1)
    BY <1>1, <1>2, <1>10, <2>1, MoreDigits
  <2> QED BY <1>10, <2>1, <2>2, EatStep, InnerPoints
<1>11. CASE /\ top \in Letter \cup {"bs", "#", "bad"} /\ pc' = "lexIdent"
            /\ UNCHANGED <<code, read, start, current, tokens, err>>
  <2>1. "lexIdent" \in Running /\ "lexIdent" \in Between
    BY InnerPoints DEF Between
  <2>2. Shape("lexIdent", t, m)
    BY <1>2, <2>1, Shapes
  <2> QED BY <1>1, <1>11, <2>1, <2>2, MoveStep
<1> QED
  BY <1>3, <1>4, <1>5, <1>6, <1>7, <1>8, <1>9, <1>10, <1>11 DEF lex

(* EatEmit eats the last rune of a token and sends it.                      *)
LEMMA EatEmits ==
    ASSUME NEW s, NEW t, NEW m, At(s, t, m), NEW k \in Kind, EatEmit(k), top # Eof,
           Best(k, t, m + 1)
    PROVE  ExactStep(s)
<1>1. emit(k, Eaten, "lex") /\ current' = Eaten /\ forward /\ err' = err
  BY DEF EatEmit
<1>2. "lex" \in Between /\ "lex" # "lexIdent"
  BY DEF Between
<1> QED
  BY <1>1, <1>2, EatEmitStep

(* The operators and comments.                                              *)
LEMMA OperatorStep ==
    ASSUME NEW s, NEW t \in Seq(Rune), NEW m \in 0..Len(t), At(s, t, m),
           \/ lexExclamation \/ lexEqual \/ lexColon \/ lexMinus \/ lexLess
           \/ lexGreater \/ lexOr \/ lexAnd \/ lexDot
    PROVE  ExactStep(s)
<1>1. top = After(t, m) /\ Shape(pc, t, m)
  BY DEF At
<1>2. ASSUME pc \in Lead \cup {"comment", ".."}, NEW k \in Kind, Emit(k), Best(k, t, m)
      PROVE  ExactStep(s)
  BY <1>2, EmitStep DEF Lead
<1>3. ASSUME NEW k \in Kind, EatEmit(k), top # Eof, Best(k, t, m + 1)
      PROVE  ExactStep(s)
  BY <1>3, EatEmits
<1>4. \A p \in {"!", "=", ":", "-", "<", ">", "|", "&", "."} : p \in Lead
  BY DEF Lead
<1>5. CASE lexExclamation
  <2>1. CASE pc = "!" /\ top = "=" /\ EatEmit("NOT_EQUAL")
    <3>1. Best("NOT_EQUAL", t, m + 1)
      BY <1>1, <2>1, OperatorBest
    <3> QED BY <1>3, <2>1, <3>1, Kinds DEF Eof
  <2>2. CASE pc = "!" /\ top = "!" /\ eat("comment")
    <3>1. top # Eof
      BY <2>2 DEF Eof
    <3>2. Shape("comment", t, m + 1)
      BY <1>1, <2>2, <3>1, MoreText
    <3> QED BY <2>2, <3>1, <3>2, EatStep, InnerPoints
  <2>3. CASE pc = "!" /\ top \notin {"=", "!"} /\ Emit("NOT")
    <3>1. Best("NOT", t, m)
      BY <1>1, <2>3, OperatorBest
    <3> QED BY <1>2, <1>4, <2>3, <3>1, Kinds
  <2>4. CASE pc = "comment" /\ top \notin {"nl", Eof} /\ eat("comment")
    <3>1. Shape("comment", t, m + 1)
      BY <1>1, <2>4, MoreText
    <3> QED BY <2>4, <3>1, EatStep, InnerPoints
  <2>5. CASE pc = "comment" /\ top \in {"nl", Eof} /\ Emit("COMMENT")
    <3>1. Best("COMMENT", t, m)
      BY <1>1, <2>5, TextBest
    <3> QED BY <1>2, <2>5, <3>1, Kinds
  <2> QED BY <1>5, <2>1, <2>2, <2>3, <2>4, <2>5 DEF lexExclamation
<1>6. CASE lexEqual
  <2>1. pc = "=" /\ pc \in Lead
    BY <1>4, <1>6 DEF lexEqual
  <2>2. CASE top = "=" /\ EatEmit("EQUAL")
    <3>1. Best("EQUAL", t, m + 1)
      BY <1>1, <2>1, <2>2, OperatorBest
    <3> QED BY <1>3, <2>2, <3>1, Kinds DEF Eof
  <2>3. CASE top = ">" /\ EatEmit("FAT_RIGHT_ARROW")
    <3>1. Best("FAT_RIGHT_ARROW", t, m + 1)
      BY <1>1, <2>1, <2>3, OperatorBest
    <3> QED BY <1>3, <2>3, <3>1, Kinds DEF Eof
  <2>4. CASE top \notin {"=", ">"} /\ Emit("ASSIGN")
    <3>1. Best("ASSIGN", t, m)
      BY <1>1, <2>1, <2>4, OperatorBest
    <3> QED BY <1>2, <2>1, <2>4, <3>1, Kinds
  <2> QED BY <1>6, <2>2, <2>3, <2>4 DEF lexEqual
<1>7. ASSUME NEW p \in Lead, pc = p, NEW c, c # Eof, NEW k \in Kind, NEW l \in Kind,
             IF top = c THEN EatEmit(k) ELSE Emit(l),
             top = c => Best(k, t, m + 1), top # c => Best(l, t, m)
      PROVE  ExactStep(s)
  <2>1. CASE top = c
    BY <1>3, <1>7, <2>1
  <2>2. CASE top # c
    BY <1>2, <1>7, <2>2
  <2> QED BY <2>1, <2>2
<1>8. CASE lexColon
  <2>1. pc = ":" /\ IF top = ":" THEN EatEmit("COLON_COLON") ELSE Emit("COLON")
    BY <1>8 DEF lexColon
  <2>2. /\ top = ":" => Best("COLON_COLON", t, m + 1)
        /\ top # ":" => Best("COLON", t, m)
    BY <1>1, <2>1, OperatorBest
  <2> QED BY <1>4, <1>7, <2>1, <2>2, Kinds DEF Eof
<1>9. CASE lexMinus
  <2>1. pc = "-" /\ IF top = ">" THEN EatEmit("RIGHT_ARROW") ELSE Emit("MINUS")
    BY <1>9 DEF lexMinus
  <2>2. /\ top = ">" => Best("RIGHT_ARROW", t, m + 1)
        /\ top # ">" => Best("MINUS", t, m)
    BY <1>1, <2>1, OperatorBest
  <2> QED BY <1>4, <1>7, <2>1, <2>2, Kinds DEF Eof
<1>10. CASE lexLess
  <2>1. pc = "<" /\ IF top = "=" THEN EatEmit("LESS_EQUAL") ELSE Emit("LESS")
    BY <1>10 DEF lexLess
  <2>2. /\ top = "=" => Best("LESS_EQUAL", t, m + 1)
        /\ top # "=" => Best("LESS", t, m)
    BY <1>1, <2>1, OperatorBest
  <2> QED BY <1>4, <1>7, <2>1, <2>2, Kinds DEF Eof
<1>11. CASE lexGreater
  <2>1. pc = ">" /\ IF top = "=" THEN EatEmit("GREATER_EQUAL") ELSE Emit("GREATER")
    BY <1>11 DEF lexGreater
  <2>2. /\ top = "=" => Best("GREATER_EQUAL", t, m + 1)
        /\ top # "=" => Best("GREATER", t, m)
    BY <1>1, <2>1, OperatorBest
  <2> QED BY <1>4, <1>7, <2>1, <2>2, Kinds DEF Eof
<1>12. CASE lexOr
  <2>1. pc = "|" /\ IF top = "|" THEN EatEmit("OR") ELSE fail
    BY <1>12 DEF lexOr
  <2>2. /\ top = "|" => Best("OR", t, m + 1)
        /\ top # "|" => Bad(t, m)
    BY <1>1, <2>1, OperatorBest, FailsBad
  <2>3. CASE top = "|"
    BY <1>3, <2>1, <2>2, <2>3, Kinds DEF Eof
  <2>4. CASE top # "|"
    BY <2>1, <2>2, <2>4, FailStep
  <2> QED BY <2>3, <2>4
<1>13. CASE lexAnd
  <2>1. pc = "&" /\ IF top = "&" THEN EatEmit("AND") ELSE fail
    BY <1>13 DEF lexAnd
  <2>2. /\ top = "&" => Best("AND", t, m + 1)
        /\ top # "&" => Bad(t, m)
    BY <1>1, <2>1, OperatorBest, FailsBad
  <2>3. CASE top = "&"
    BY <1>3, <2>1, <2>2, <2>3, Kinds DEF Eof
  <2>4. CASE top # "&"
    BY <2>1, <2>2, <2>4, FailStep
  <2> QED BY <2>3, <2>4
<1>14. CASE lexDot
  <2>1. CASE pc = "." /\ top = "." /\ eat("..")
    <3>1. top # Eof
      BY <2>1 DEF Eof
    <3>2. Shape("..", t, m + 1)
      BY <1>1, <2>1, <3>1, MoreText
    <3> QED BY <2>1, <3>1, <3>2, EatStep, InnerPoints
  <2>2. CASE pc = "." /\ top /= "." /\ Emit("DOT")
    <3>1. Best("DOT", t, m)
      BY <1>1, <2>2, OperatorBest
    <3> QED BY <1>2, <1>4, <2>2, <3>1, Kinds
  <2>3. CASE pc = ".." /\ top = "." /\ EatEmit("ELLIPSIS")
    <3>1. Best("ELLIPSIS", t, m + 1)
      BY <1>1, <2>3, EllipsisBest
    <3> QED BY <1>3, <2>3, <3>1, Kinds DEF Eof
  <2>4. CASE pc = ".." /\ top /= "." /\ fail
    <3>1. Bad(t, m)
      BY <1>1, <2>4, FailsBad
    <3> QED BY <2>4, <3>1, FailStep
  <2> QED BY <1>14, <2>1, <2>2, <2>3, <2>4 DEF lexDot
<1> QED
  BY <1>5, <1>6, <1>8, <1>9, <1>10, <1>11, <1>12, <1>13, <1>14

(* Names.  lexIdent fails at a rune that starts no token, or at one that    *)
(* cannot stand behind a single quote.                                      *)
LEMMA IdentStep ==
    ASSUME NEW s, NEW t \in Seq(Rune), NEW m \in 0..Len(t), At(s, t, m), Headed, lexIdent
    PROVE  ExactStep(s)
<1>1. top = After(t, m) /\ Shape(pc, t, m) /\ m \in Nat
  BY AfterRune DEF At
<1>2. CASE pc = "lexIdent" /\ top \in Letter /\ eat("ident")
  <2>1. top # Eof
    BY <1>2 DEF Letter, Eof
  <2>2. Shape("ident", t, m + 1)
    BY <1>1, <1>2, <2>1, MoreText
  <2> QED BY <1>2, <2>1, <2>2, EatStep, InnerPoints
<1>3. CASE pc = "lexIdent" /\ top \notin Letter /\ fail
  <2>1. m = 0
    BY <1>1, <1>3, Shapes DEF Between
  <2>2. CASE top \in {"bs", "#", "bad"}
    <3>1. Bad(t, m)
      BY <1>1, <2>1, <2>2, FailsBad
    <3> QED BY <1>3, <3>1, FailStep
  <2>3. CASE top \notin {"bs", "#", "bad"}
    <3>1. Quoted
      BY <1>3, <2>3 DEF Headed, Quoted
    <3>2. \A j \in 0..Len(t) : ~ IdentText(t, j)
      BY <1>1, <1>3, <2>1, NoName
    <3> QED BY <1>3, <3>1, <3>2, FailStep
  <2> QED BY <2>2, <2>3
<1>4. CASE pc = "ident" /\ top \in Letter \cup Digit /\ eat("ident")
  <2>1. top # Eof
    BY <1>4 DEF Letter, Digit, Eof
  <2>2. Shape("ident", t, m + 1)
    BY <1>1, <1>4, <2>1, MoreText
  <2> QED BY <1>4, <2>1, <2>2, EatStep, InnerPoints
<1>5. CASE /\ pc = "ident" /\ top \notin Letter \cup Digit /\ Slice(current, "keyword")
           /\ UNCHANGED <<code, read, start, current, tokens, err>>
  <2>1. pc' \in {"keyword", "panic"}
    BY <1>5 DEF Slice
  <2>2. Shape("keyword", t, m)
    BY <1>1, <1>5, Shapes
  <2> QED BY <1>5, <2>1, <2>2, MoveStep, InnerPoints
<1>6. CASE pc = "keyword" /\ Emit(IF currentString \in keywords THEN "KEYWORD" ELSE "IDENT")
  <2>1. /\ code \in Seq(Rune) /\ s \in 0..Len(code) /\ read \in s..Len(code) /\ read \in 0..Len(code)
        /\ t = Text(s, Len(code)) /\ m = read - s
    BY GoodText DEF At, Rest
  <2>2. start.Offset = OffsetOf(s) /\ current.Offset = OffsetOf(read)
    BY <1>6 DEF At, Good, Scanning
  <2>3. OffsetOf(read) \in Nat /\ OffsetOf(read) <= Len(Bytes) /\ Len(Bytes) \in Nat
    BY <2>1, Offsets
  <2>4. currentString = SubSeq(Bytes, OffsetOf(s) + 1, OffsetOf(read))
    <3>1. ~ (current.Offset > Len(Bytes))
      BY <2>2, <2>3
    <3>2. currentString = SubSeq(Bytes, start.Offset + 1, current.Offset)
      BY <3>1 DEF currentString
    <3> QED BY <2>2, <3>2
  <2>5. currentString \in keywords <=> SubSeq(t, 1, m) \in keywords
    <3>1. Text(s, read) = SubSeq(t, 1, m)
      BY <2>1, TextParts
    <3>2. SubSeq(Bytes, OffsetOf(s) + 1, OffsetOf(read)) \in keywords <=> Text(s, read) \in keywords
      BY <2>1, WordBytes
    <3> QED BY <2>4, <3>1, <3>2
  <2>6. Best(IF currentString \in keywords THEN "KEYWORD" ELSE "IDENT", t, m)
    BY <1>1, <1>6, <2>5, TextBest
  <2> QED BY <1>6, <2>6, EmitStep, Kinds
<1> QED
  BY <1>2, <1>3, <1>4, <1>5, <1>6 DEF lexIdent

(* String literals.                                                         *)
LEMMA StringStep ==
    ASSUME NEW s, NEW t \in Seq(Rune), NEW m \in 0..Len(t), At(s, t, m), lexStringLiteral
    PROVE  ExactStep(s)
<1>1. top = After(t, m) /\ Shape(pc, t, m) /\ m \in Nat
  BY AfterRune DEF At
<1>2. ASSUME top = Eof, pc \in {"escape", "escaped"}, NEW p \in {"string", "escaped"}, eat(p),
             pc = "escape" => p = "escaped", pc = "escaped" => p = "string"
      PROVE  ExactStep(s)
  <2>1. m = Len(t)
    BY <1>1, <1>2, AfterRune
  <2>2. Shape(p, t, m)
    BY <1>1, <1>2, <2>1, Overshoot
  <2>3. p \in Running \ Between
    BY InnerPoints
  <2> QED BY <1>2, <2>2, <2>3 DEF ExactStep, EatsOn, At
<1>3. CASE pc = "string" /\ top = Eof /\ fail
  <2>1. Bad(t, m)
    BY <1>1, <1>3, FailsBad
  <2> QED BY <1>3, <2>1, FailStep
<1>4. CASE pc = "string" /\ top = "bs" /\ eat("escape")
  <2>1. top # Eof
    BY <1>4 DEF Eof
  <2>2. Shape("escape", t, m + 1)
    BY <1>1, <1>4, <2>1, MoreString
  <2> QED BY <1>4, <2>1, <2>2, EatStep, InnerPoints
<1>5. CASE pc = "escape" /\ eat("escaped")
  <2>1. CASE top # Eof
    <3>1. Shape("escaped", t, m + 1)
      BY <1>1, <1>5, <2>1, MoreString
    <3> QED BY <1>5, <2>1, <3>1, EatStep, InnerPoints
  <2>2. CASE top = Eof
    BY <1>2, <1>5, <2>2
  <2> QED BY <2>1, <2>2
<1>6. CASE pc \in {"string", "escaped"} /\ top = "dq" /\ EatEmit("STRING")
  <2>1. top # Eof
    BY <1>6 DEF Eof
  <2>2. Best("STRING", t, m + 1)
    BY <1>1, <1>6, TextBest
  <2> QED BY <1>6, <2>1, <2>2, EatEmits, Kinds
<1>7. CASE pc = "string" /\ top \notin {Eof, "bs", "dq"} /\ eat("string")
  <2>1. Shape("string", t, m + 1)
    BY <1>1, <1>7, MoreString
  <2> QED BY <1>7, <2>1, EatStep, InnerPoints
<1>8. CASE pc = "escaped" /\ top /= "dq" /\ eat("string")
  <2>1. CASE top # Eof
    <3>1. Shape("string", t, m + 1)
      BY <1>1, <1>8, <2>1, MoreString
    <3> QED BY <1>8, <2>1, <3>1, EatStep, InnerPoints
  <2>2. CASE top = Eof
    BY <1>2, <1>8, <2>2
  <2> QED BY <2>1, <2>2
<1> QED
  BY <1>3, <1>4, <1>5, <1>6, <1>7, <1>8 DEF lexStringLiteral

(* Number literals.                                                         *)
LEMMA NumberStep ==
    ASSUME NEW s, NEW t \in Seq(Rune), NEW m \in 0..Len(t), At(s, t, m), lexNumber \/ lexDigit
    PROVE  ExactStep(s)
<1>1. top = After(t, m) /\ Shape(pc, t, m) /\ m \in Nat
  BY AfterRune DEF At
<1>2. ASSUME NEW p, p \in {"lexDigit", "fraction", "exponent", "sign", "power", "lexHex", "lexBin"},
             eat(p), top # Eof, Shape(p, t, m + 1)
      PROVE  ExactStep(s)
  BY <1>2, EatStep, InnerPoints
<1>3. ASSUME NEW k \in {"INT", "FLOAT"}, Emit(k), Best(k, t, m), pc \notin {"string", "escaped"}
      PROVE  ExactStep(s)
  BY <1>3, EmitStep, Kinds
<1>4. CASE lexNumber
  <2>1. pc = "lexNumber"
    BY <1>4 DEF lexNumber
  <2>2. CASE top = "x" /\ eat("lexHex")
    <3>1. top # Eof
      BY <2>2 DEF Eof
    <3>2. Shape("lexHex", t, m + 1)
      BY <1>1, <2>1, <2>2, <3>1, MoreDigits
    <3> QED BY <1>2, <2>2, <3>1, <3>2
  <2>3. CASE top = "b" /\ eat("lexBin")
    <3>1. top # Eof
      BY <2>3 DEF Eof
    <3>2. Shape("lexBin", t, m + 1)
      BY <1>1, <2>1, <2>3, <3>1, MoreDigits
    <3> QED BY <1>2, <2>3, <3>1, <3>2
  <2>4. CASE /\ top \notin {"x", "b"} /\ pc' = "lexDigit"
             /\ UNCHANGED <<code, read, start, current, tokens, err>>
    <3>1. m = 1 /\ t[1] = "0"
      BY <1>1, <2>1, Shapes
    <3>2. AllDigits(t, m)
      BY <3>1 DEF AllDigits, Digit
    <3>3. Shape("lexDigit", t, m)
      BY <1>1, <2>4, <3>2, Shapes
    <3> QED BY <2>1, <2>4, <3>3, MoveStep, InnerPoints
  <2> QED BY <1>4, <2>2, <2>3, <2>4 DEF lexNumber
<1>5. CASE lexDigit
  <2>1. CASE pc = "lexDigit" /\ top \in Digit /\ eat("lexDigit")
    <3>1. top # Eof
      BY <2>1 DEF Digit, Eof
    <3>2. Shape("lexDigit", t, m + 1)
      BY <1>1, <2>1, <3>1, MoreDigits
    <3> QED BY <1>2, <2>1, <3>1, <3>2
  <2>2. CASE pc = "lexDigit" /\ top = "." /\ eat("fraction")
    <3>1. top # Eof
      BY <2>2 DEF Eof
    <3>2. Shape("fraction", t, m + 1)
      BY <1>1, <2>2, <3>1, MoreDigits
    <3> QED BY <1>2, <2>2, <3>1, <3>2
  <2>3. CASE pc = "lexDigit" /\ top = "u" /\ EatEmit("INT")
    <3>1. top # Eof
      BY <2>3 DEF Eof
    <3>2. Best("INT", t, m + 1)
      BY <1>1, <2>3, NumberBest
    <3> QED BY <2>3, <3>1, <3>2, EatEmits, Kinds
  <2>4. CASE pc = "lexDigit" /\ top \notin Digit \cup {".", "e", "u"} /\ Emit("INT")
    <3>1. Best("INT", t, m)
      BY <1>1, <2>4, NumberBest
    <3> QED BY <1>3, <2>4, <3>1
  <2>5. CASE pc = "fraction" /\ top \in Digit /\ eat("fraction")
    <3>1. top # Eof
      BY <2>5 DEF Digit, Eof
    <3>2. Shape("fraction", t, m + 1)
      BY <1>1, <2>5, <3>1, MoreDigits
    <3> QED BY <1>2, <2>5, <3>1, <3>2
  <2>6. CASE pc \in {"lexDigit", "fraction"} /\ top = "e" /\ eat("exponent")
    <3>1. top # Eof
      BY <2>6 DEF Eof
    <3>2. Shape("exponent", t, m + 1)
      BY <1>1, <2>6, <3>1, MoreDigits
    <3> QED BY <1>2, <2>6, <3>1, <3>2
  <2>7. CASE pc = "exponent" /\ top \in {"+", "-"} /\ eat("sign")
    <3>1. top # Eof
      BY <2>7 DEF Eof
    <3>2. Shape("sign", t, m + 1)
      BY <1>1, <2>7, <3>1, MorePower
    <3> QED BY <1>2, <2>7, <3>1, <3>2
  <2>8. CASE pc \in {"exponent", "sign", "power"} /\ top \in Digit /\ eat("power")
    <3>1. top # Eof
      BY <2>8 DEF Digit, Eof
    <3>2. Shape("power", t, m + 1)
      BY <1>1, <2>8, <3>1, MorePower
    <3> QED BY <1>2, <2>8, <3>1, <3>2
  <2>9. CASE pc = "exponent" /\ top \notin Digit \cup {"+", "-"} /\ fail
    <3>1. Bad(t, m)
      BY <1>1, <2>9, FailsBad
    <3> QED BY <2>9, <3>1, FailStep
  <2>10. CASE pc = "sign" /\ top \notin Digit /\ fail
    <3>1. Bad(t, m)
      BY <1>1, <2>10, FailsBad
    <3> QED BY <2>10, <3>1, FailStep
  <2>11. CASE pc = "fraction" /\ top \notin Digit \cup {"e"} /\ Emit("FLOAT")
    <3>1. Best("FLOAT", t, m)
      BY <1>1, <2>11, NumberBest
    <3> QED BY <1>3, <2>11, <3>1
  <2>12. CASE pc = "power" /\ top \notin Digit /\ Emit("FLOAT")
    <3>1. Best("FLOAT", t, m)
      BY <1>1, <2>12, NumberBest
    <3> QED BY <1>3, <2>12, <3>1
  <2> QED
    BY <1>5, <2>1, <2>2, <2>3, <2>4, <2>5, <2>6, <2>7, <2>8, <2>9, <2>10, <2>11, <2>12 DEF lexDigit
<1> QED
  BY <1>4, <1>5

(* Hexadecimal and binary literals.                                         *)
LEMMA RadixStep ==
    ASSUME NEW s, NEW t \in Seq(Rune), NEW m \in 0..Len(t), At(s, t, m), lexHex \/ lexBin
    PROVE  ExactStep(s)
<1>1. top = After(t, m) /\ Shape(pc, t, m) /\ m \in Nat
  BY AfterRune DEF At
<1>2. ASSUME NEW p, NEW q, NEW D, <<p, q, D>> \in {<<"lexHex", "hex", Hex>>, <<"lexBin", "bin", {"0", "1"}>>},
             Radix(p, q, D)
      PROVE  ExactStep(s)
  <2>1. (p = "lexHex" /\ q = "hex" /\ D = Hex) \/ (p = "lexBin" /\ q = "bin" /\ D = {"0", "1"})
    BY <1>2
  <2>2. CASE pc = p /\ top \notin D /\ fail
    <3>1. Bad(t, m)
      BY <1>1, <2>1, <2>2, FailsBad
    <3> QED BY <2>2, <3>1, FailStep
  <2>3. CASE pc \in {p, q} /\ top \in D /\ eat(q)
    <3>1. top # Eof
      BY <2>1, <2>3 DEF Hex, Digit, Eof
    <3>2. Shape(q, t, m + 1)
      BY <1>1, <2>1, <2>3, <3>1, MorePower
    <3>3. q \in Running \ Between
      BY <2>1, InnerPoints
    <3> QED BY <2>3, <3>1, <3>2, <3>3, EatStep
  <2>4. CASE pc = q /\ top = "u" /\ EatEmit("INT")
    <3>1. top # Eof
      BY <2>4 DEF Eof
    <3>2. Best("INT", t, m + 1)
      BY <1>1, <2>1, <2>4, NumberBest
    <3> QED BY <2>4, <3>1, <3>2, EatEmits, Kinds
  <2>5. CASE pc = q /\ top \notin D \cup {"u"} /\ Emit("INT")
    <3>1. Best("INT", t, m)
      BY <1>1, <2>1, <2>5, NumberBest
    <3>2. pc \notin {"string", "escaped"}
      BY <2>1, <2>5
    <3> QED BY <2>5, <3>1, <3>2, EmitStep, Kinds
  <2> QED BY <1>2, <2>2, <2>3, <2>4, <2>5 DEF Radix
<1> QED
  BY <1>2 DEF lexHex, lexBin

-----------------------------------------------------------------------------
(* So the invariant is kept, and it is what LexedExactly says.              *)
LEMMA StepIsExact ==
    ASSUME NEW s, Good(s), Headed, Step
    PROVE  ExactStep(s)
<1>1. PICK t \in Seq(Rune) : t = Rest(s) /\ read - s \in 0..Len(t)
  BY GoodText
<1>2. PICK m \in 0..Len(t) : m = read - s
  BY <1>1
<1>3. At(s, t, m)
  BY <1>1, <1>2, GoodText DEF At
<1> QED
  BY <1>3, LexStep, OperatorStep, IdentStep, StringStep, NumberStep, RadixStep DEF Step

(* The strengthened invariant is kept by every step.                        *)
LEMMA ExactIsKept ==
    ASSUME ExactInv, [Next]_vars
    PROVE  ExactInv'
<1>1. CASE Step
  <2>1. LexInv /\ LexInv'
    BY <1>1, StepIsShaped, ShapedKeeps DEF ExactInv
  <2>2. code' = code /\ pc \in Running
    <3>1. Shaped
      BY <1>1, <2>1, StepIsShaped
    <3> QED BY <3>1 DEF Shaped, Moves, Eats, eat, Emits, emit, Closes, fail, consume
  <2>3. ASSUME ValidUTF8' PROVE Exact'
    <3>1. ValidUTF8
      BY <2>2, <2>3, SameCode
    <3>2. Placed /\ Headed /\ Covered /\ TokensExact
      BY <2>2, <3>1 DEF ExactInv, Running
    <3>3. PICK s \in 0..read : Scanning(s)
      BY <3>2 DEF Placed
    <3>4. Good(s)
      BY <2>1, <2>2, <3>1, <3>2, <3>3 DEF Good, Placed, LexInv, Running
    <3>5. ExactStep(s)
      BY <1>1, <3>2, <3>4, StepIsExact
    <3> QED
      BY <3>4, <3>5, EatsOnExact, MovesOnExact, SendsExact, FailsExact, FinishesExact, PassesExact
         DEF ExactStep
  <2> QED BY <2>1, <2>3 DEF ExactInv, Exact
<1>2. CASE UNCHANGED vars
  <2>1. /\ code' = code /\ read' = read /\ start' = start /\ current' = current /\ pc' = pc
        /\ tokens' = tokens /\ err' = err
    BY <1>2 DEF vars
  <2>2. LexInv'
    BY <2>1 DEF ExactInv, LexInv, TypeOK, OneVerdict, TokensOrdered, Last
  <2>3. ASSUME ValidUTF8' PROVE Exact'
    <3>1. (pc \notin Stop => Placed /\ Headed) /\ Covered /\ TokensExact /\ Verdict
      BY <2>1, <2>3, SameCode DEF ExactInv
    <3>2. Placed => Placed'
      BY <2>1, SameCode DEF Placed, Scanning
    <3>3. Headed => Headed'
      <4>1. top' = top
        BY <2>1 DEF top
      <4> QED BY <2>1, <4>1 DEF Headed
    <3>4. Lexed' = Lexed
      BY <2>1 DEF Lexed
    <3>5. Covered' /\ TokensExact'
      BY <2>1, <3>1, <3>4, SameCode DEF Covered, TokensExact
    <3>6. Justified => Justified'
      <4>1. AfterQuote' <=> AfterQuote
        BY <2>1 DEF AfterQuote
      <4> QED BY <2>1, <4>1, SameCode DEF Justified
    <3>7. Verdict'
      BY <2>1, <3>1, <3>6, SameCode DEF Verdict
    <3> QED BY <2>1, <3>1, <3>2, <3>3, <3>5, <3>7 DEF Exact
  <2> QED BY <2>2, <2>3 DEF ExactInv, Exact
<1> QED
  BY <1>1, <1>2 DEF Next, Stopped

(* The invariant holds of a lexer that has read nothing.                    *)
LEMMA ExactAtFirst ==
    ASSUME LexInv, Init
    PROVE  ExactInv
<1>1. /\ code \in Seq(Rune) /\ read = 0 /\ pc = "lex" /\ tokens = <<>> /\ err = <<>>
      /\ start = [Offset |-> 0, Line |-> 1, Column |-> 1] /\ current = start
  BY SourcesAssumption DEF Init
<1>2. start.Offset = 0 /\ start.Line = 1 /\ start.Column = 1
  BY <1>1
<1>3. Lexed = {}
  BY <1>1 DEF Lexed, Range
<1>4. TruePos(start)
  <2>1. {b \in 1..0 : Bytes[b] = "nl"} = {} /\ {b \in 1..0 : \A n \in {} : n < b} = {}
    OBVIOUS
  <2>2. Cardinality({}) = 0
    BY FS_EmptySet
  <2> QED BY <1>2, <2>1, <2>2 DEF TruePos
<1>5. Scanning(0)
  <2>1. \A t : Shape("lex", t, 0)
    BY Shapes DEF Between
  <2>2. OffsetOf(0) = 0
    BY <1>1, Offsets
  <2>3. read - 0 = 0
    BY <1>1
  <2> QED BY <1>1, <1>2, <1>4, <2>1, <2>2, <2>3 DEF Scanning
<1>6. Placed /\ Headed
  BY <1>1, <1>4, <1>5 DEF Placed, Headed
<1>7. Covered /\ TokensExact /\ Verdict
  BY <1>1, <1>2, <1>3 DEF Covered, TokensExact, Verdict
<1> QED
  BY <1>6, <1>7 DEF ExactInv

(* The strengthened invariant holds always.                                 *)
LEMMA ExactInvHolds == Spec => []ExactInv
<1>1. Init /\ LexInv => ExactInv
  BY ExactAtFirst
<1>2. ExactInv /\ [Next]_vars => ExactInv'
  BY ExactIsKept
<1>3. QED
  BY <1>1, <1>2, LexInvHolds, PTL DEF Spec

(* It says of a lexer that has stopped what LexedExactly asks.              *)
LEMMA ExactInvSuffices == ExactInv => LexedExactly
<1> SUFFICES ASSUME ExactInv PROVE LexedExactly
  OBVIOUS
<1>1. NothingDropped
  BY DEF ExactInv, NothingDropped, Verdict, Covered
<1>2. LongestMatch
  BY DEF ExactInv, LongestMatch, TokensExact, LongestToken
<1>3. ErrorsJustified
  BY DEF ExactInv, ErrorsJustified, Verdict, Justified
<1>4. PositionsTrue
  BY DEF ExactInv, PositionsTrue, TokensExact, TruePos
<1> QED
  BY <1>1, <1>2, <1>3, <1>4 DEF LexedExactly

(* Lexing is exact: on every source that is valid UTF-8 the tokens that     *)
(* emit sends cover the text up to spaces and carry their true line and     *)
(* column; unless two escapes follow each other, every token is the longest *)
(* lexeme that starts at its first rune, of the kind the lexical grammar    *)
(* gives it, and fail is called only where no lexeme starts.                *)
THEOREM LexerExact == Spec => []LexedExactly
<1>1. ExactInv => LexedExactly
  BY ExactInvSuffices
<1>2. QED
  BY <1>1, ExactInvHolds, PTL

=============================================================================
