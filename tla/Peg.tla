-------------------------------- MODULE Peg --------------------------------
(***************************************************************************)
(* The parsing expressions of Boost.Spirit.Qi as src/dachs/parser uses     *)
(* them: what each combinator consumes, when it backtracks, when an        *)
(* expectation ('>') ends the whole parse, which nodes it yields and which *)
(* side effects survive its failure.                                       *)
(*                                                                         *)
(* A text is a sequence of atoms: blanks, line ends, single punctuation    *)
(* characters and pieces of words.  A word is a run of adjacent pieces     *)
(* ("do" "g" is the word dog), so that a literal can match the beginning   *)
(* of a longer word, as qi::lit does.                                      *)
(***************************************************************************)
EXTENDS SyntaxTree

CONSTANTS
    Alpha,      \* pieces of words that begin with a letter or '_'
    Digits      \* pieces that begin with a digit

VARIABLE text   \* the source being parsed

Alnum == Alpha \cup Digits
N == Len(text)

(* The combinators. *)
Lit(s)      == [o |-> "lit", s |-> s]               \* qi::lit
Cls(S)      == [o |-> "cls", a |-> S]               \* qi::char_ and friends
L(a)        == Cls({a})
Eol         == L("\n")                              \* qi::eol
Eoi         == [o |-> "eoi"]                        \* qi::eoi
Sq(ps)      == [o |-> "seq", p |-> ps, x |-> FALSE] \* a >> b
Ex(ps)      == [o |-> "seq", p |-> ps, x |-> TRUE]  \* a > b
Al(ps)      == [o |-> "alt", p |-> ps]              \* a | b
St(q)       == [o |-> "star", q |-> q]              \* *a
Op(q)       == [o |-> "opt", q |-> q]               \* -a
No(q)       == [o |-> "not", q |-> q]               \* !a
Lx(q)       == [o |-> "lexeme", q |-> q, pre |-> TRUE]
NoSkip(q)   == [o |-> "lexeme", q |-> q, pre |-> FALSE]
Tx(q)       == [o |-> "text", q |-> q]              \* the matched text as a leaf
Nd(k, q)    == [o |-> "node", k |-> k, q |-> q]     \* a semantic action
Fl(q, r)    == [o |-> "fold", q |-> q, r |-> r, n |-> FALSE] \* q[_val = _1] >> *r[_val = f(_val, ...)]
Fl1(q, r)   == [o |-> "fold", q |-> q, r |-> r, n |-> TRUE]  \* q[_val = _1] >> -r[_val = f(_val, ...)]
Pt(k, q)    == [o |-> "part", k |-> k, q |-> q]     \* the r of a fold
Keeps(q, K) == [o |-> "keeps", q |-> q, a |-> K]    \* -q; nodes of kinds K stay when q fails
Found(m, q) == [o |-> "found", m |-> m, q |-> q]    \* q sets a flag of implicit_import
FoundIn(f, q) == [o |-> "named", m |-> f, q |-> q]  \* the flag f has for the name q reads, if any
Rf(r)       == [o |-> "rule", r |-> r]              \* a rule that is used before its definition
Pl(q)       == Sq(<<q, St(q)>>)                     \* +a
Ls(q, s)    == Sq(<<q, St(Sq(<<s, q>>))>>)          \* a % b
Df(q, r)    == Sq(<<No(r), q>>)                     \* a - b
SqOr(q, r)  == Al(<<Sq(<<q, Op(r)>>), r>>)          \* a || b
OneOf(ss)   == Al([i \in DOMAIN ss |-> Lit(ss[i])])
Kw(q)       == Sq(<<q, No(NoSkip(Cls(Alnum)))>>)    \* DACHS_KWD

(* The outcome of an expression at a position: "ok", "no" (backtrack) or    *)
(* "err" (expectation_failure), the position behind it, the nodes, the      *)
(* flags that were set on the way.                                          *)
Res(s, i, v, m) == [s |-> s, i |-> i, v |-> v, m |-> m]
NoMatch == Res("no", 0, <<>>, {})

(* comment_skipper: blanks and comments are skipped before every literal.   *)
Blank == {" ", "# comment"}
RECURSIVE Skip(_)
Skip(i) == IF i <= N /\ text[i] \in Blank THEN Skip(i + 1) ELSE i

At(s, i) == i + Len(s) - 1 <= N /\ \A k \in 1..Len(s) : text[i + k - 1] = s[k]
Written(i, j) == SelectSeq(SubSeq(text, i, j), LAMBDA a : a \notin Blank)

RECURSIVE Ev(_, _, _, _)
RECURSIVE EvSeq(_, _, _, _, _)
RECURSIVE EvAlt(_, _, _, _, _, _)
RECURSIVE EvStar(_, _, _, _, _)

(* Expression e at position i; sk: blanks are skipped; T: the outcomes of   *)
(* the rules of Rf at this and later positions.                             *)
Ev(e, i, sk, T) ==
    LET at == IF sk THEN Skip(i) ELSE i
        r  == Ev(e.q, i, sk, T)
    IN  CASE e.o = "cls"    -> IF at <= N /\ text[at] \in e.a THEN Res("ok", at + 1, <<>>, {}) ELSE NoMatch
          [] e.o = "seq"    -> EvSeq(e, 1, sk, T, Res("ok", i, <<>>, {}))
          [] e.o = "alt"    -> EvAlt(e, 1, i, sk, T, {})
          [] e.o = "opt"    -> IF r.s = "no" THEN Res("ok", i, <<>>, r.m) ELSE r
          [] e.o = "rule"   -> T[at][e.r]
          [] e.o = "lit"    -> IF At(e.s, at) THEN Res("ok", at + Len(e.s), <<>>, {}) ELSE NoMatch
          [] e.o = "star"   -> EvStar(e.q, "all", sk, T, Res("ok", i, <<>>, {}))
          [] e.o = "not"    -> Res(CASE r.s = "ok" -> "no" [] r.s = "no" -> "ok" [] OTHER -> "err",
                                   i, <<>>, r.m)
          [] e.o = "lexeme" -> Ev(e.q, IF e.pre THEN at ELSE i, FALSE, T)
          [] e.o = "eoi"    -> IF at > N THEN Res("ok", at, <<>>, {}) ELSE NoMatch
          [] e.o = "keeps"  -> IF r.s = "no" THEN Res("ok", i, OfKind(e.a, r.v), r.m) ELSE r
          [] r.s # "ok"     -> r
          [] e.o = "text"   -> [r EXCEPT !.v = <<Leaf(Written(at, r.i - 1))>>]
          [] e.o = "node"   -> [r EXCEPT !.v = Make(e.k, r.v)]
          [] e.o = "part"   -> [r EXCEPT !.v = <<Node(e.k, <<>>, r.v)>>]
          [] e.o = "found"  -> [r EXCEPT !.m = @ \cup {e.m}]
          [] e.o = "named"  -> [r EXCEPT !.m = @ \cup {e.m[n] : n \in DOMAIN e.m \cap {r.v[1].v}}]
          [] e.o = "fold"   -> EvStar(e.r, IF e.n THEN "one" ELSE "fold", sk, T, r)

EvSeq(e, k, sk, T, acc) ==
    IF k > Len(e.p) THEN acc
    ELSE LET r == Ev(e.p[k], acc.i, sk, T)
             m == acc.m \cup r.m
         IN  CASE r.s = "ok"  -> EvSeq(e, k + 1, sk, T, Res("ok", r.i, acc.v \o r.v, m))
               [] r.s = "no"  -> Res(IF e.x /\ k > 1 THEN "err" ELSE "no", acc.i, acc.v \o r.v, m)
               [] r.s = "err" -> Res("err", r.i, <<>>, m)

EvAlt(e, k, i, sk, T, m) ==
    IF k > Len(e.p) THEN Res("no", i, <<>>, m)
    ELSE LET r == Ev(e.p[k], i, sk, T)
         IN  IF r.s = "no" THEN EvAlt(e, k + 1, i, sk, T, m \cup r.m)
             ELSE [r EXCEPT !.m = @ \cup m]

EvStar(q, how, sk, T, acc) ==
    LET r == Ev(q, acc.i, sk, T)
        m == acc.m \cup r.m
        v == IF how = "all" THEN acc.v \o r.v ELSE Make(r.v[1].k, acc.v \o r.v[1].c)
    IN  CASE r.s = "no"  -> [acc EXCEPT !.m = m]
          [] r.s = "err" -> Res("err", r.i, <<>>, m)
          [] how = "one" -> Res("ok", r.i, v, m)
          [] OTHER       -> EvStar(q, how, sk, T, Res("ok", r.i, v, m))

(* The outcomes of the rules at every position, from the end of the text    *)
(* to its beginning: order lists the rules so that one that another tries   *)
(* at its own first position comes first.                                   *)
RECURSIVE Row(_, _, _, _, _)
Row(rules, order, k, i, T) ==
    IF k > Len(order) THEN T
    ELSE Row(rules, order, k + 1, i, [T EXCEPT ![i][order[k]] = Ev(rules[order[k]], i, TRUE, T)])
RECURSIVE Fill(_, _, _, _)
Fill(rules, order, i, T) ==
    IF i \notin DOMAIN T THEN T
    ELSE Fill(rules, order, i - 1, IF i <= N /\ text[i] \in Blank THEN T ELSE Row(rules, order, 1, i, T))

Outcomes(rules, order) ==
    Fill(rules, order, N + 1, [i \in 1..N + 1 |-> [r \in DOMAIN rules |-> NoMatch]])
=============================================================================
