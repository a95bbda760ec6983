------------------------------ MODULE Unparse ------------------------------
(***************************************************************************)
(* The reference the grammar is checked against: how a syntax tree is      *)
(* written.  Operators bind as the comments and tests of the parser say,   *)
(* parentheses are put where precedence needs them, and a layout decides   *)
(* about blanks, line ends and the two ways to write calls and blocks:     *)
(*   sp   a blank between all tokens, not only between words               *)
(*   nl   the separator of statements                                      *)
(*   cmd  x.f a, b instead of x.f(a, b)                                    *)
(*   blk  how a lambda at the end of the arguments is written:             *)
(*        "arg" as an argument, "do" behind the call, "brace" in {...}     *)
(* A token is a sequence of atoms, a text a sequence of tokens.            *)
(***************************************************************************)
EXTENDS SyntaxTree, TLC

Tok(a) == << <<a>> >>
Word1(n) == <<n.v>>
Concat(ts) == FoldLeft(LAMBDA a, b : a \o b, <<>>, ts)
Between(ts, s) == IF ts = <<>> THEN <<>> ELSE FoldLeft(LAMBDA a, b : a \o s \o b, Head(ts), Tail(ts))
Commas(ts) == Between(ts, Tok(","))
(* The bracket behind a callee, a constructed type or an indexed value      *)
(* stands directly behind it: it begins with the atom "".                   *)
Attached(a, ts, z) == << <<"", a>> >> \o ts \o Tok(z)
Nl(st) == IF st.nl = "\n" THEN Tok("\n") ELSE <<>>
Paren(ts) == Tok("(") \o ts \o Tok(")")

Levels == << {<<"|", "|">>}, {<<"&", "&">>}, {<<"|">>}, {<<"^">>}, {<<"&">>}, {<<"=", "=">>, <<"!", "=">>},
             {<<"<", "=">>, <<">", "=">>, <<"<">>, <<">">>}, {<<"<", "<">>, <<">", ">">>},
             {<<"+">>, <<"-">>}, {<<"*">>, <<"/">>, <<"%">>} >>
LevelOf(op) == 1 + CHOOSE i \in DOMAIN Levels : op \in Levels[i]

IsRange(t) == t.k = "new" /\ t.c[1].v = <<"range">> /\ Len(t.c) = 4
IsOneline(f) == LET b == Last(f.c).c IN Len(b) = 1 /\ b[1].k = "return" /\ Len(b[1].c) = 1
HasBlock(t) == t.c # <<>> /\ Last(t.c).k = "lambda"
IsCommand(t, st) == st.cmd /\ t.k = "call" /\ t.v = <<"ufcs">> /\ Len(t.c) > 2

(* 0 and 1: only where a whole expression may stand; 15: anywhere.          *)
Prec(t, st) ==
    CASE t.k = "typed" -> 0
      [] t.k = "lambda" /\ IsOneline(t.c[1]) -> 0
      [] IsCommand(t, st) -> 0 - 1
      [] t.k \in {"if_expr", "switch_expr"} \/ IsRange(t) -> 1
      [] t.k = "binary" -> LevelOf(t.v)
      [] t.k = "cast" -> 12
      [] t.k = "unary" -> 13
      [] t.k \in {"call", "ufcs", "index"} -> 14
      [] OTHER -> 15

RECURSIVE Tk(_, _)
Sub(t, p, st) == IF Prec(t, st) < p THEN Paren(Tk(t, st)) ELSE Tk(t, st)
Tks(ts, st) == [i \in DOMAIN ts |-> IF IsCommand(ts[i], st) THEN Paren(Tk(ts[i], st)) ELSE Tk(ts[i], st)]
Opt(k, t, st, pre) ==    \* the part of kind k, if t has one, behind the tokens pre
    LET f == OfKind({k}, t.c) IN IF f = <<>> THEN <<>> ELSE pre \o Tk(f[1].c[1], st)
Params(f, st) == Tks(OfKind({"param"}, f.c), st)
TypeKinds == {"primary_type", "array_type", "pointer_type", "dict_type", "tuple_type", "func_type",
              "any_func_type", "typeof_type", "maybe_type"}
TypePart(t, st) ==
    LET f == OfKind(TypeKinds, t.c) IN IF f = <<>> THEN <<>> ELSE Tok(":") \o Tk(f[1], st)
Declared(t, st) ==
    (IF OfKind({"mut"}, t.c) # <<>> THEN Tok("var") ELSE <<>>) \o Word1(t) \o TypePart(t, st)

(* An expression that begins like a statement is one only in parentheses.   *)
StmtTk(t, st) ==
    LET ts == Tk(t, st)
    IN  IF t.k \in ExprKinds /\ ts[1][1] \in {"if", "unless", "case", "begin"} THEN Paren(ts) ELSE ts
Stmts(b, st) == Between([i \in DOMAIN b |-> StmtTk(b[i], st)], Tok(st.nl))
BlockTk(b, st) == Stmts(b.c, st) \o (IF b.c = <<>> THEN <<>> ELSE Tok(st.nl))

(* The arguments of a call, with the last lambda behind it if blk says so.  *)
Block(f, st) ==
    LET ps == Params(f, st)
        bars == IF ps = <<>> THEN <<>> ELSE Tok("|") \o Commas(ps) \o Tok("|")
        body == Last(f.c).c
    IN  IF st.blk = "brace" /\ body # <<>> /\ Last(body).k = "return" /\ Len(Last(body).c) = 1
        THEN Tok("{") \o bars \o Between([i \in DOMAIN body |->
                 IF i = Len(body) THEN Tk(body[i].c[1], st) ELSE StmtTk(body[i], st)], Tok(st.nl)) \o Tok("}")
        ELSE Tok("do") \o bars \o Nl(st) \o BlockTk(Last(f.c), st) \o Tok("end")
Behind(args, st) ==
    IF args # <<>> /\ Last(args).k = "lambda" /\ st.blk # "arg" /\ OfKind({"returns"}, Last(args).c[1].c) = <<>>
    THEN [args |-> Front(args), block |-> Block(Last(args).c[1], st)]
    ELSE [args |-> args, block |-> <<>>]

CallTk(t, st) ==
    LET ufcs == t.v = <<"ufcs">>
        b    == Behind(SubSeq(t.c, IF ufcs THEN 3 ELSE 2, Len(t.c)), st)
        head == IF ufcs THEN Sub(t.c[2], 14, st) \o Tok(".") \o Tk(t.c[1], st) ELSE Sub(t.c[1], 14, st)
        args == Commas(Tks(b.args, st))
    IN  IF IsCommand(t, st) /\ b.args # <<>> THEN head \o << <<" ">> >> \o args \o b.block
        ELSE head \o Attached("(", args, ")") \o b.block
NewTk(t, st) ==
    LET b == Behind(Tail(t.c), st)
    IN  Tok("new") \o Tk(t.c[1], st)
        \o (IF b.args = <<>> /\ b.block # <<>> THEN <<>> ELSE Attached("{", Commas(Tks(b.args, st)), "}")) \o b.block
LambdaTk(f, st) ==
    LET ps == Commas(Params(f, st))
        rt == Opt("returns", f, st, Tok(":"))
        arrow == << <<"-", ">">> >>
    IN  IF IsOneline(f)
        THEN arrow \o (IF rt # <<>> THEN Paren(ps) \o rt ELSE ps)
                   \o (IF ps = <<>> /\ rt = <<>> THEN <<>> ELSE Tok("in")) \o Tk(Last(f.c).c[1].c[1], st)
        ELSE arrow \o Paren(ps) \o rt \o Tok("do") \o Nl(st) \o BlockTk(Last(f.c), st) \o Tok("end")

(* Clauses of if, case and switch: pairs of a condition (or values) and a   *)
(* block, and an else block.                                                *)
BodyTk(b, st) == IF b.k = "block" THEN BlockTk(b, st) ELSE Stmts(Front(b.c), st)
    \o (IF Len(b.c) > 1 THEN Tok(st.nl) ELSE <<>>) \o Tk(Last(b.c), st) \o Tok(st.nl)
CondTk(c, st) == IF c.k = "values" THEN Commas(Tks(c.c, st)) ELSE Tk(c, st)
Then(st) == IF st.nl = "\n" THEN Tok("\n") ELSE Tok("then")
Clauses(cs, first, next, st) ==
    LET n == Len(cs) \div 2
    IN  Concat([i \in 1..n |-> (IF i = 1 THEN first ELSE next) \o CondTk(cs[2 * i - 1], st) \o Then(st)
                               \o BodyTk(cs[2 * i], st)])
        \o (IF Len(cs) % 2 = 1 THEN Tok("else") \o BodyTk(Last(cs), st) ELSE <<>>) \o Tok("end")
IfTk(t, st) ==
    IF t.v = <<"case">> THEN Tok("case") \o Tok(st.nl) \o Clauses(t.c, Tok("when"), Tok("when"), st)
    ELSE Clauses(t.c, <<t.v>>, << <<"else", "if">> >>, st)

FunctionTk(t, st) ==
    LET kind == OfKind({"kind"}, t.c)
        head == CASE t.v = <<"dachs.init">> -> << <<"in", "it">> >>
                  [] t.v = <<"dachs.copy">> -> Tok("copy")
                  [] t.v = <<"dachs.conv">> -> Tok("cast")
                  [] OTHER -> Word1(kind[1]) \o Word1(t)
        blocks == OfKind({"block"}, t.c)
        access == IF OfKind({"private"}, t.c) # <<>> THEN Tok("-") ELSE <<>>
    IN  access \o head \o (IF Params(t, st) = <<>> THEN <<>> ELSE Attached("(", Commas(Params(t, st)), ")"))
        \o Opt("returns", t, st, Tok(":")) \o Tok(st.nl) \o BlockTk(blocks[1], st)
        \o (IF Len(blocks) = 2 THEN Tok("ensure") \o Tok(st.nl) \o BlockTk(blocks[2], st) ELSE <<>>) \o Tok("end")

TypeTk(t, st) ==
    CASE t.k = "array_type" -> Tok("static_array") \o (IF t.c = <<>> THEN <<>> ELSE Paren(Tk(t.c[1], st)))
      [] t.k = "pointer_type" -> Tok("pointer") \o (IF t.c = <<>> THEN <<>> ELSE Paren(Tk(t.c[1], st)))
      [] t.k = "dict_type" -> Tok("{") \o Tk(t.c[1], st) \o << <<"=", ">">> >> \o Tk(t.c[2], st) \o Tok("}")
      [] t.k = "tuple_type" -> Paren(Commas(Tks(t.c, st)))
      [] t.k = "func_type" ->
            LET ret == OfKind({"returns"}, t.c)
            IN  (IF ret = <<>> THEN Tok("proc") ELSE Tok("func"))
                \o Paren(Commas(Tks(SubSeq(t.c, 1, Len(t.c) - Len(ret)), st))) \o Opt("returns", t, st, Tok(":"))
      [] t.k = "any_func_type" -> Tok("func")
      [] t.k = "typeof_type" -> Tok("typeof") \o Attached("(", Tk(t.c[1], st), ")")
      [] t.k = "maybe_type" -> (IF t.c[1].k \in {"maybe_type", "func_type"} THEN Paren(Tk(t.c[1], st))
                                ELSE Tk(t.c[1], st)) \o Tok("?")
      [] t.v = <<"array">> /\ t.c # <<>> /\ t.c[1].k = "pointer_type" -> Tok("[") \o Tk(t.c[1].c[1], st) \o Tok("]")
      [] OTHER -> Word1(t) \o (IF t.c = <<>> THEN <<>> ELSE Paren(Commas(Tks(t.c, st))))

Tk(t, st) ==
    CASE t.k \in {"var_ref", "int", "float", "bool"} -> Word1(t)
      [] t.k = "uint" -> <<t.v \o <<"u">>>>
      [] t.k = "char" -> << <<"'">> \o t.v \o <<"'">> >>
      [] t.k = "string" -> << <<"\"">> \o t.v \o <<"\"">> >>
      [] t.k = "symbol" -> << <<":">> \o t.v >>
      [] t.k = "array" -> Tok("[") \o Commas(Tks(t.c, st)) \o Tok("]")
      [] t.k = "tuple" -> Paren(Commas(Tks(t.c, st)))
      [] t.k = "dict" -> Tok("{") \o Commas([i \in DOMAIN t.c |->
            Tk(t.c[i].c[1], st) \o << <<"=", ">">> >> \o Tk(t.c[i].c[2], st)]) \o Tok("}")
      [] t.k = "lambda" -> LambdaTk(t.c[1], st)
      [] t.k = "call" -> CallTk(t, st)
      [] IsRange(t) -> Sub(t.c[2], 2, st) \o << <<".", ".">> \o (IF t.c[4].v = <<"true">> THEN <<".">> ELSE <<>>) >>
                       \o Sub(t.c[3], 2, st)
      [] t.k = "new" -> NewTk(t, st)
      [] t.k = "index" -> Sub(t.c[1], 14, st) \o Attached("[", Tk(t.c[2], st), "]")
      [] t.k = "ufcs" -> Sub(t.c[1], 14, st) \o Tok(".") \o Word1(t)
      [] t.k = "unary" -> Word1(t) \o Sub(t.c[1], 13, st)
      [] t.k = "cast" -> Sub(t.c[1], 12, st) \o Tok("as") \o Tk(t.c[2], st)
      [] t.k = "binary" -> Sub(t.c[1], LevelOf(t.v), st) \o Word1(t) \o Sub(t.c[2], LevelOf(t.v) + 1, st)
      [] t.k = "typed" -> Sub(t.c[1], 1, st) \o Tok(":") \o Tk(t.c[2], st)
      [] t.k = "block_expr" -> Tok("begin") \o Nl(st) \o BodyTk(t, st) \o Tok("end")
      [] t.k \in {"if_expr", "if_stmt"} -> IfTk(t, st)
      [] t.k \in {"switch_expr", "switch_stmt"} ->
            Tok("case") \o Tk(t.c[1], st) \o Tok(st.nl) \o Clauses(Tail(t.c), Tok("when"), Tok("when"), st)
      [] t.k \in {"param", "var_decl"} ->
            (IF OfKind({"private"}, t.c) # <<>> THEN Tok("-") ELSE <<>>)
            \o (IF OfKind({"private", "public"}, t.c) # <<>> THEN Word1(t) \o TypePart(t, st) ELSE Declared(t, st))
      [] t.k = "init" -> Commas(Tks(OfKind({"var_decl"}, t.c), st))
            \o (IF Last(t.c).k = "rhs" THEN << <<":", "=">> >> \o Commas(Tks(Last(t.c).c, st)) ELSE <<>>)
      [] t.k = "assign" -> Commas(Tks(t.c[1].c, st)) \o Word1(t) \o Commas(Tks(t.c[2].c, st))
      [] t.k = "return" -> Tok("ret") \o Commas(Tks(t.c, st))
      [] t.k = "postfix_if" -> Tk(t.c[1], st) \o Word1(t) \o Tk(t.c[2], st)
      [] t.k = "for" -> Tok("for") \o Commas(Tks(OfKind({"param"}, t.c), st)) \o Tok("in")
            \o Tk(t.c[Len(t.c) - 1], st) \o Tok(st.nl) \o BlockTk(Last(t.c), st) \o Tok("end")
      [] t.k = "while" -> Tok("for") \o Tk(t.c[1], st) \o Tok(st.nl) \o BlockTk(t.c[2], st) \o Tok("end")
      [] t.k = "block" -> Tok("begin") \o Nl(st) \o BlockTk(t, st) \o Tok("end")
      [] t.k = "function" -> FunctionTk(t, st)
      [] t.k = "class" -> Tok("class") \o Word1(t) \o Tok(st.nl)
            \o Concat([i \in DOMAIN t.c |-> Tk(t.c[i], st) \o Tok(st.nl)]) \o Tok("end")
      [] t.k = "import" -> Tok("import") \o Word1(t)
      [] t.k = "inu" -> Between(Tks(t.c, st), Tok(st.nl))
      [] OTHER -> TypeTk(t, st)

(* The text: a blank between two tokens that are words, or between all but  *)
(* an attached bracket and what it stands behind.                           *)
Lay(s, k, st, words) ==
    IF k[1] = "" THEN s \o Tail(k)
    ELSE IF s # <<>> /\ (st.sp \/ (Last(s) \in words /\ k[1] \in words)) THEN s \o <<" ">> \o k
    ELSE s \o k
Unparse(t, st, words) == FoldLeft(LAMBDA s, k : Lay(s, k, st, words), <<>>, Tk(t, st))
=============================================================================
