------------------------------- MODULE Lexer -------------------------------
(***************************************************************************)
(* The lexer of the new compiler (src/next/compiler/syntax/lexer.go).      *)
(*                                                                         *)
(* A source is a sequence of runes.  Runes are strings of one character,   *)
(* "nl", "dq" and "bs" for newline, double quote and backslash; "wide" is  *)
(* a letter that takes two bytes in UTF-8 and "bad" is a byte that is not  *)
(* valid UTF-8, which ReadRune hands out as U+FFFD.  The state             *)
(* functions of the code are the values of pc that carry their name; the   *)
(* other values are the points inside a state function between two calls   *)
(* of eat, so every step eats at most one rune.                            *)
(***************************************************************************)
EXTENDS Naturals, Sequences, FiniteSets, SequencesExt

CONSTANTS
    Sources,    \* the source texts to lex, sequences of runes
    keywords    \* the spellings of the keywords map, sequences of bytes

VARIABLES
    code,       \* the runes of l.src.Code
    read,       \* how many runes eat has passed; l.top is the next one
    start,      \* l.start
    current,    \* l.current
    pc,         \* l.state, or the point reached inside it
    tokens,     \* what was sent to l.Tokens
    err         \* what l.Error was called with, <<>> or one range

vars == <<code, read, start, current, pc, tokens, err>>

-----------------------------------------------------------------------------
(* Runes. *)
Letter == {"a", "b", "e", "i", "n", "s", "u", "x", "wide"}
Digit == {"0", "1", "9"}
Hex == Digit \cup {"a", "b", "e"}
Space == {" "}

(* The tokens of one character, by the rune that the switch of lex tests.   *)
Single == [c \in {"nl", ";", "(", ")", "{", "}", "[", "]", "+", "*", "/", "%", ","} |->
             CASE c = "nl" -> "NEWLINE" [] c = ";" -> "SEMICOLON"
               [] c = "(" -> "LPAREN"   [] c = ")" -> "RPAREN"
               [] c = "{" -> "LBRACE"   [] c = "}" -> "RBRACE"
               [] c = "[" -> "LBRACKET" [] c = "]" -> "RBRACKET"
               [] c = "+" -> "PLUS"     [] c = "*" -> "STAR"
               [] c = "/" -> "DIV"      [] c = "%" -> "PERCENT"
               [] c = "," -> "COMMA"]

(* The runes that start an operator of several characters.                  *)
Lead == {"!", "=", ":", "-", "<", ">", "|", "&", "."}

Rune == Letter \cup Digit \cup Space \cup DOMAIN Single \cup Lead
          \cup {"'", "dq", "bs", "#", "bad"}
Eof == "eof"

ASSUME SourcesAssumption == Sources \subseteq Seq(Rune)

(* The keys of the keywords map are words of ASCII letters.                 *)
ASSUME KeywordsAssumption ==
    keywords \subseteq Seq(Letter \ {"wide"}) /\ <<>> \notin keywords

(* utf8.RuneLen: what eat adds to the offset.  The zero rune that stands    *)
(* for the end counts 1, and the U+FFFD of an invalid byte counts 3.        *)
RuneLen(c) == CASE c = "wide" -> 2 [] c = "bad" -> 3 [] OTHER -> 1

(* The bytes a rune really takes in l.src.Code.                             *)
BytesOf(c) == IF c = "wide" THEN <<"wide1", "wide2">> ELSE <<c>>
Bytes == FlattenSeq([i \in DOMAIN code |-> BytesOf(code[i])])

top == IF read < Len(code) THEN code[read + 1] ELSE Eof

-----------------------------------------------------------------------------
(* eat with forward: l.current after it.                                    *)
Eaten == [Offset |-> current.Offset + RuneLen(top),
          Line   |-> IF top = "nl" THEN current.Line + 1 ELSE current.Line,
          Column |-> IF top = "nl" THEN 1 ELSE current.Column + RuneLen(top)]

(* forward: the errors it tests for cannot occur, since ReadRune of a       *)
(* bytes.Reader fails at the end only and replaces invalid bytes by the     *)
(* valid U+FFFD.                                                            *)
forward == read' = IF read < Len(code) THEN read + 1 ELSE read

eat(next) ==
    /\ current' = Eaten
    /\ forward
    /\ pc' = next
    /\ UNCHANGED <<code, start, tokens, err>>

(* Slicing l.src.Code up to a position behind its end panics, unless the    *)
(* slice happens to have spare capacity.                                    *)
Slice(end, next) ==
    pc' \in IF end.Offset > Len(Bytes) THEN {next, "panic"} ELSE {next}

(* emit sends the token and then formats it for the log, which slices the   *)
(* code from Start to End.                                                  *)
emitKeepStart(kind, end, next) ==
    /\ tokens' = Append(tokens, [kind |-> kind, Start |-> start, End |-> end])
    /\ start' = start
    /\ Slice(end, next)
    /\ UNCHANGED code
emit(kind, end, next) ==
    /\ tokens' = Append(tokens, [kind |-> kind, Start |-> start, End |-> end])
    /\ start' = end
    /\ Slice(end, next)
    /\ UNCHANGED code

Emit(kind) == emit(kind, current, "lex") /\ UNCHANGED <<read, current, err>>
EatEmit(kind) ==
    /\ emit(kind, Eaten, "lex")
    /\ current' = Eaten
    /\ forward
    /\ UNCHANGED err

(* fail; the state function returns nil afterwards.                         *)
failSilently ==
    /\ emit("ILLEGAL", current, "done")
    /\ UNCHANGED <<read, current, err>>
fail ==
    /\ err' = <<[Start |-> start, End |-> current]>>
    /\ emit("ILLEGAL", current, "done")
    /\ UNCHANGED <<read, current>>

(* consume at a space: nothing is emitted and the token start follows.      *)
consumeNothing == UNCHANGED vars
consume ==
    /\ current' = Eaten
    /\ start' = Eaten
    /\ forward
    /\ UNCHANGED <<code, pc, tokens, err>>

-----------------------------------------------------------------------------
Init ==
    /\ code \in Sources
    /\ read = 0
    /\ start = [Offset |-> 0, Line |-> 1, Column |-> 1]
    /\ current = start
    /\ pc = "lex"
    /\ tokens = <<>>
    /\ err = <<>>

(* lex: the switch on l.top.                                                *)
lex ==
    /\ pc = "lex"
    /\ \/ /\ top = Eof
          /\ emit("EOF", current, "done")
          /\ UNCHANGED <<read, current, err>>
       \/ top \in DOMAIN Single /\ EatEmit(Single[top])
       \/ top \in Lead /\ eat(top)
       \/ /\ top = "'"
          /\ emit("SINGLE_QUOTE", Eaten, "lexIdent")
          /\ current' = Eaten
          /\ forward
          /\ UNCHANGED err
       \/ top = "dq" /\ eat("string")
       \/ top \in Space /\ consume
       \/ top = "0" /\ eat("lexNumber")
       \/ top \in Digit \ {"0"} /\ eat("lexDigit")
       \/ /\ top \in Letter \cup {"bs", "#", "bad"}
          /\ pc' = "lexIdent"
          /\ UNCHANGED <<code, read, start, current, tokens, err>>

lexExclamation ==
    \/ pc = "!" /\ top = "=" /\ EatEmit("NOT_EQUAL")
    \/ pc = "!" /\ top = "!" /\ eat("comment")
    \/ pc = "!" /\ top \notin {"=", "!"} /\ Emit("NOT")
    \/ pc = "comment" /\ top \notin {"nl", Eof} /\ eat("comment")
    \/ pc = "comment" /\ top \in {"nl", Eof} /\ Emit("COMMENT")

lexEqualNoArrow ==
    /\ pc = "="
    /\ IF top = "=" THEN EatEmit("EQUAL") ELSE Emit("ASSIGN")
lexEqual ==
    /\ pc = "="
    /\ \/ top = "=" /\ EatEmit("EQUAL")
       \/ top = ">" /\ EatEmit("FAT_RIGHT_ARROW")
       \/ top \notin {"=", ">"} /\ Emit("ASSIGN")

lexColon ==
    /\ pc = ":"
    /\ IF top = ":" THEN EatEmit("COLON_COLON") ELSE Emit("COLON")

(* The operators that lex handles in its own switch.                        *)
lexMinus ==
    /\ pc = "-"
    /\ IF top = ">" THEN EatEmit("RIGHT_ARROW") ELSE Emit("MINUS")
lexLess ==
    /\ pc = "<"
    /\ IF top = "=" THEN EatEmit("LESS_EQUAL") ELSE Emit("LESS")
lexGreater ==
    /\ pc = ">"
    /\ IF top = "=" THEN EatEmit("GREATER_EQUAL") ELSE Emit("GREATER")
lexOr == pc = "|" /\ (IF top = "|" THEN EatEmit("OR") ELSE fail)
lexAnd == pc = "&" /\ (IF top = "&" THEN EatEmit("AND") ELSE fail)

lexDot ==
    \/ pc = "." /\ top = "." /\ eat("..")
    \/ pc = "." /\ top /= "." /\ Emit("DOT")
    \/ pc = ".." /\ top = "." /\ EatEmit("ELLIPSIS")
    \/ pc = ".." /\ top /= "." /\ fail

(* lexIdent with eatIdent; currentString slices the code by offsets.        *)
currentString ==
    IF current.Offset > Len(Bytes) THEN <<>>    \* stale bytes, no keyword
    ELSE SubSeq(Bytes, start.Offset + 1, current.Offset)
lexIdent ==
    \/ pc = "lexIdent" /\ top \in Letter /\ eat("ident")
    \/ pc = "lexIdent" /\ top \notin Letter /\ fail
    \/ pc = "ident" /\ top \in Letter \cup Digit /\ eat("ident")
    \/ /\ pc = "ident" /\ top \notin Letter \cup Digit
       /\ Slice(current, "keyword")
       /\ UNCHANGED <<code, read, start, current, tokens, err>>
    \/ /\ pc = "keyword"
       /\ Emit(IF currentString \in keywords THEN "KEYWORD" ELSE "IDENT")

(* lexStringLiteral: an escape is two calls of eat, and the rune behind it  *)
(* is tested for the closing quote and otherwise eaten whatever it is.      *)
lexStringNoEscape ==
    \/ pc = "string" /\ top = Eof /\ fail
    \/ pc = "string" /\ top = "dq" /\ EatEmit("STRING")
    \/ pc = "string" /\ top \notin {Eof, "dq"} /\ eat("string")
lexStringOneLine ==
    \/ pc = "string" /\ top \in {Eof, "nl"} /\ fail
    \/ pc = "string" /\ top = "dq" /\ EatEmit("STRING")
    \/ pc = "string" /\ top \notin {Eof, "nl", "dq"} /\ eat("string")
lexStringLiteral ==
    \/ pc = "string" /\ top = Eof /\ fail
    \/ pc = "string" /\ top = "bs" /\ eat("escape")
    \/ pc = "escape" /\ eat("escaped")
    \/ pc \in {"string", "escaped"} /\ top = "dq" /\ EatEmit("STRING")
    \/ pc = "string" /\ top \notin {Eof, "bs", "dq"} /\ eat("string")
    \/ pc = "escaped" /\ top /= "dq" /\ eat("string")

lexNumber ==
    /\ pc = "lexNumber"
    /\ \/ top = "x" /\ eat("lexHex")
       \/ top = "b" /\ eat("lexBin")
       \/ /\ top \notin {"x", "b"}
          /\ pc' = "lexDigit"
          /\ UNCHANGED <<code, read, start, current, tokens, err>>

lexDigit ==
    \/ /\ pc = "lexDigit"
       /\ \/ top \in Digit /\ eat("lexDigit")
          \/ top = "." /\ eat("fraction")
          \/ top = "u" /\ EatEmit("INT")
          \/ top \notin Digit \cup {".", "e", "u"} /\ Emit("INT")
    \/ pc = "fraction" /\ top \in Digit /\ eat("fraction")
    \/ pc \in {"lexDigit", "fraction"} /\ top = "e" /\ eat("exponent")
    \/ pc = "exponent" /\ top \in {"+", "-"} /\ eat("sign")
    \/ pc \in {"exponent", "sign", "power"} /\ top \in Digit /\ eat("power")
    \/ pc = "exponent" /\ top \notin Digit \cup {"+", "-"} /\ fail
    \/ pc = "sign" /\ top \notin Digit /\ fail
    \/ pc = "fraction" /\ top \notin Digit \cup {"e"} /\ Emit("FLOAT")
    \/ pc = "power" /\ top \notin Digit /\ Emit("FLOAT")

(* lexHex and lexBin: one digit at least, then digits, then an optional u.  *)
RadixNoSuffix(first, more, digits) ==
    \/ pc = first /\ top \notin digits /\ fail
    \/ pc \in {first, more} /\ top \in digits /\ eat(more)
    \/ pc = more /\ top \notin digits /\ Emit("INT")
Radix(first, more, digits) ==
    \/ pc = first /\ top \notin digits /\ fail
    \/ pc \in {first, more} /\ top \in digits /\ eat(more)
    \/ pc = more /\ top = "u" /\ EatEmit("INT")
    \/ pc = more /\ top \notin digits \cup {"u"} /\ Emit("INT")
lexHex == Radix("lexHex", "hex", Hex)
lexBin == Radix("lexBin", "bin", {"0", "1"})

Stopped == pc \in {"done", "panic"} /\ UNCHANGED vars

Step ==
    \/ lex \/ lexExclamation \/ lexEqual \/ lexColon \/ lexMinus \/ lexLess
    \/ lexGreater \/ lexOr \/ lexAnd \/ lexDot \/ lexIdent
    \/ lexStringLiteral \/ lexNumber \/ lexDigit \/ lexHex \/ lexBin
Next == Step \/ Stopped

Spec == Init /\ [][Next]_vars /\ WF_vars(Step)
-----------------------------------------------------------------------------
(* The lexical grammar, stated apart from the lexer: Lexeme(k, t) says that *)
(* the runes t are a token of kind k.                                       *)
OperatorLexeme ==
    [NOT |-> <<"!">>, NOT_EQUAL |-> <<"!", "=">>, ASSIGN |-> <<"=">>,
     EQUAL |-> <<"=", "=">>, FAT_RIGHT_ARROW |-> <<"=", ">">>,
     COLON |-> <<":">>, COLON_COLON |-> <<":", ":">>, MINUS |-> <<"-">>,
     RIGHT_ARROW |-> <<"-", ">">>, LESS |-> <<"<">>,
     LESS_EQUAL |-> <<"<", "=">>, GREATER |-> <<">">>,
     GREATER_EQUAL |-> <<">", "=">>, OR |-> <<"|", "|">>, AND |-> <<"&", "&">>,
     DOT |-> <<".">>, ELLIPSIS |-> <<".", ".", ".">>, SINGLE_QUOTE |-> <<"'">>]

Over(t, S) == \A i \in DOMAIN t : t[i] \in S
Number(t, S) == t /= <<>> /\ Over(t, S)
DropSuffix(t) == IF t /= <<>> /\ Last(t) = "u" THEN Front(t) ELSE t
IsInt(t) ==
    LET n == DropSuffix(t)
    IN  \/ Number(n, Digit)
        \/ Len(n) > 2 /\ n[1] = "0" /\ n[2] = "x" /\ Number(SubSeq(n, 3, Len(n)), Hex)
        \/ Len(n) > 2 /\ n[1] = "0" /\ n[2] = "b" /\ Number(SubSeq(n, 3, Len(n)), {"0", "1"})
IsMantissa(t) ==
    \E i \in 2..Len(t) : /\ t[i] = "." /\ Number(SubSeq(t, 1, i - 1), Digit)
                         /\ Over(SubSeq(t, i + 1, Len(t)), Digit)
IsFloat(t) ==
    \/ IsMantissa(t)
    \/ \E i \in 2..Len(t) :
          /\ t[i] = "e"
          /\ IsMantissa(SubSeq(t, 1, i - 1)) \/ Number(SubSeq(t, 1, i - 1), Digit)
          /\ LET p == SubSeq(t, i + 1, Len(t))
             IN  \/ Number(p, Digit)
                 \/ p /= <<>> /\ p[1] \in {"+", "-"} /\ Number(Tail(p), Digit)

(* The rune at i is escaped when an odd number of backslashes precedes it.  *)
Escaped(t, i) ==
    Cardinality({j \in 2..(i - 1) : \A k \in j..(i - 1) : t[k] = "bs"}) % 2 = 1
IsString(t) ==
    /\ Len(t) >= 2 /\ t[1] = "dq" /\ Last(t) = "dq"
    /\ \A i \in 2..Len(t) : t[i] = "dq" => (Escaped(t, i) <=> i < Len(t))

Lexeme(k, t) ==
    \/ k = "INT" /\ IsInt(t)
    \/ k = "FLOAT" /\ IsFloat(t)
    \/ k = "STRING" /\ IsString(t)
    \/ k = "KEYWORD" /\ t \in keywords
    \/ /\ k = "IDENT" /\ t \notin keywords
       /\ Number(t, Letter \cup Digit) /\ t[1] \in Letter
    \/ /\ k = "COMMENT" /\ Len(t) >= 2 /\ t[1] = "!" /\ t[2] = "!"
       /\ "nl" \notin Range(t)
    \/ k \in DOMAIN OperatorLexeme /\ t = OperatorLexeme[k]
    \/ \E c \in DOMAIN Single : t = <<c>> /\ k = Single[c]
Kind == DOMAIN OperatorLexeme \cup Range(Single)
          \cup {"INT", "FLOAT", "STRING", "KEYWORD", "IDENT", "COMMENT"}
IsLexeme(t) == \E k \in Kind : Lexeme(k, t)

(* Byte offset of the end of the first i runes.                             *)
OffsetOf(i) == Len(FlattenSeq([j \in 1..i |-> BytesOf(code[j])]))
Text(i, j) == SubSeq(code, i + 1, j)

ValidUTF8 == "bad" \notin Range(code)
(* Two escapes in a row, which the lexer does not pair up.                  *)
AdjacentEscapes == \E i \in 1..(Len(code) - 2) : code[i] = "bs" /\ code[i + 2] = "bs"
Lexed == {t \in Range(tokens) : t.kind \notin {"ILLEGAL", "EOF"}}

-----------------------------------------------------------------------------
Pos == [Offset : Nat, Line : Nat, Column : Nat]
Points == {"lex", "comment", "..", "lexIdent", "ident", "keyword", "string",
           "escape", "escaped", "lexNumber", "lexDigit", "fraction", "exponent",
           "sign", "power", "lexHex", "hex", "lexBin", "bin", "done", "panic"}

(* The state of the lexer has its type; eat never passes the last rune.     *)
TypeOK ==
    /\ code \in Seq(Rune)
    /\ read \in 0..Len(code)
    /\ start \in Pos /\ current \in Pos
    /\ pc \in Points \cup Lead
    /\ tokens \in Seq([kind : Kind \cup {"ILLEGAL", "EOF"}, Start : Pos, End : Pos])
    /\ err = <<>> \/ err \in [{1} -> [Start : Pos, End : Pos]]

(* What the parser relies on: the stream is closed by exactly one token     *)
(* that is EOF or ILLEGAL, ILLEGAL exactly when l.Error was called, and     *)
(* nothing follows it.                                                      *)
OneVerdict ==
    /\ \A i \in DOMAIN tokens :
         tokens[i].kind \in {"ILLEGAL", "EOF"} =>
             i = Len(tokens) /\ pc \in {"done", "panic"}
    /\ pc = "done" => /\ tokens /= <<>>
                      /\ Last(tokens).kind = IF err = <<>> THEN "EOF" ELSE "ILLEGAL"

(* Tokens never overlap or run backwards: each one starts where an earlier  *)
(* one ended or later, and only ILLEGAL and EOF can be empty.               *)
TokensOrdered ==
    /\ \A i \in DOMAIN tokens :
         /\ tokens[i].Start.Offset <= tokens[i].End.Offset
         /\ tokens[i].kind \notin {"ILLEGAL", "EOF"} =>
                tokens[i].Start.Offset < tokens[i].End.Offset
    /\ \A i, j \in DOMAIN tokens :
         i < j => tokens[i].End.Offset <= tokens[j].Start.Offset

(* The inductive form of the two: between two tokens nothing is pending     *)
(* (the points lex and lexIdent), inside one something was eaten, and no    *)
(* verdict is out before the lexer stops.                                   *)
Stop == {"done", "panic"}
LexInv ==
    /\ TypeOK
    /\ start.Offset <= current.Offset
    /\ pc \notin {"lex", "lexIdent"} \cup Stop => start.Offset < current.Offset
    /\ \A i \in DOMAIN tokens : tokens[i].End.Offset <= start.Offset
    /\ pc \notin Stop =>
         /\ err = <<>>
         /\ \A i \in DOMAIN tokens : tokens[i].kind \notin {"ILLEGAL", "EOF"}
    /\ OneVerdict
    /\ TokensOrdered

(* A source that is lexed to the end is covered by its tokens, spaces       *)
(* between them excepted: no rune is dropped and none is read twice.        *)
NothingDropped ==
    pc = "done" /\ ValidUTF8 /\ err = <<>> =>
        /\ Last(tokens).End.Offset = Len(Bytes)
        /\ \A b \in 1..Len(Bytes) :
             \/ Bytes[b] \in Space
             \/ \E t \in Lexed : t.Start.Offset < b /\ b <= t.End.Offset

(* Maximal munch: every token is a lexeme of its kind, and no longer lexeme *)
(* of any kind starts at its first rune.                                    *)
LongestMatch ==
    pc = "done" /\ ValidUTF8 /\ ~AdjacentEscapes =>
        \A t \in Lexed : \E i, j \in 0..Len(code) :
            /\ OffsetOf(i) = t.Start.Offset /\ OffsetOf(j) = t.End.Offset
            /\ Lexeme(t.kind, Text(i, j))
            /\ \A k \in (j + 1)..Len(code) : ~IsLexeme(Text(i, k))

(* An error is never reported for text that could still be lexed: neither   *)
(* what was eaten of the token nor any longer text is a lexeme (behind a    *)
(* single quote, an identifier).                                            *)
AfterQuote == Len(tokens) > 1 /\ tokens[Len(tokens) - 1].kind = "SINGLE_QUOTE"
ErrorsJustified ==
    pc = "done" /\ ValidUTF8 /\ ~AdjacentEscapes /\ err /= <<>> =>
        \E i \in 0..Len(code) :
            /\ OffsetOf(i) = err[1].Start.Offset
            /\ \A k \in read..Len(code), kind \in Kind :
                 Lexeme(kind, Text(i, k)) =>
                     AfterQuote /\ kind \notin {"IDENT", "KEYWORD"}

(* Line and column of a token are the ones its offset has in the source.    *)
PositionsTrue ==
    ValidUTF8 => \A t \in Lexed : \A p \in {t.Start, t.End} :
        LET ends == {b \in 1..p.Offset : Bytes[b] = "nl"}
        IN  /\ p.Line = 1 + Cardinality(ends)
            /\ p.Column = 1 + Cardinality({b \in 1..p.Offset : \A n \in ends : n < b})

(* A token stream is the one the lexical grammar gives: nothing is left     *)
(* out, every lexeme is the longest one, its place is true, and an error    *)
(* stands only where no lexeme could.  Literals with two escapes in a row   *)
(* are excepted (AdjacentEscapes).                                          *)
LexedExactly == NothingDropped /\ LongestMatch /\ ErrorsJustified /\ PositionsTrue

(* Lexing ends on every source.                                             *)
Termination == <>(pc \in {"done", "panic"})

=============================================================================
