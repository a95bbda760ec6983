------------------------------- MODULE Parser -------------------------------
(***************************************************************************)
(* syntax::parser: parse_impl runs the grammar over the source and, unless *)
(* only the syntax is checked, installs the imports that literals, ranges  *)
(* and types of the program need.  The source is one way to write a syntax *)
(* tree, so that the outcome can be compared with it.                      *)
(***************************************************************************)
EXTENDS Grammar, Unparse

CONSTANT
    Sources     \* a syntax tree, a way to write it (see Unparse) and the mode

VARIABLES
    program,    \* the tree that was written
    layout,     \* how it was written
    mode,       \* "parse" or "check" (check_syntax, CheckOnly = true)
    phase,      \* "source", "parsed", "rejected" or "done"
    root,       \* the tree that was parsed
    found,      \* the flags of implicit_import
    imports     \* the imports of the program when the parser returns

vars == <<text, program, layout, mode, phase, root, found, imports>>

Init ==
    /\ \E s \in Sources : program = s[1] /\ layout = s[2] /\ mode = s[3]
    /\ text = Unparse(program, layout, Alnum)
    /\ phase = "source" /\ root = Node("none", <<>>, <<>>) /\ found = {} /\ imports = <<>>

parse_impl ==
    /\ phase = "source"
    /\ LET r == phrase_parse
       IN  /\ phase' = IF r.s = "ok" THEN "parsed" ELSE "rejected"
           /\ root' = IF r.s = "ok" /\ mode = "parse" THEN r.v[1] ELSE root
           /\ found' = r.m
    /\ UNCHANGED <<text, program, layout, mode, imports>>

(* A main function with parameters needs the command line. *)
IsMain(f) == f.k = "function" /\ f.v = <<"main">> /\ OfKind({"param"}, f.c) # <<>>
Implicit ==
    (IF "std.range" \in found THEN <<"std.range">> ELSE <<>>)
    \o (IF "std.array" \in found THEN <<"std.array">> ELSE <<>>)
    \o (IF "std.string" \in found THEN <<"std.string">> ELSE <<>>)
    \o (IF \E i \in DOMAIN root.c : IsMain(root.c[i]) THEN <<"std.argv">> ELSE <<>>)
install ==
    /\ phase = "parsed"
    /\ phase' = "done"
    /\ imports' = IF mode = "check" THEN <<>> ELSE Implicit
    /\ UNCHANGED <<text, program, layout, mode, root, found>>

Next == parse_impl \/ install
Spec == Init /\ [][Next]_vars /\ WF_vars(Next)

---------------------------------------------------------------------------
(* The shapes the grammar is known to read in another way than they are     *)
(* meant.                                                                   *)
RECURSIVE Subtrees(_)
Subtrees(t) == {t} \cup UNION {Subtrees(t.c[i]) : i \in DOMAIN t.c}

(* x!=y: the '!' belongs to the name, and '=' assigns. *)
TightNotEqual ==
    \E i \in 2..N - 1 : text[i - 1] \in Alnum \cup {"'", "?"} /\ text[i] = "!" /\ text[i + 1] = "="
(* :x+y and :x=>y: operator characters belong to the symbol. *)
TightSymbol ==
    \E i \in 1..N - 2 : text[i] = ":" /\ text[i + 1] \in Alnum /\ text[i + 2] \in {"!", "+", "-", "=", "&", ">"}
(* new T {a; b}: a has been pushed to the arguments when the '}' that would *)
(* end the arguments is missing; the block is then read from the '{'.       *)
BlockReadAsArguments ==
    layout.blk = "brace" /\ \E t \in Subtrees(program) :
        /\ t.k = "new" /\ Len(t.c) = 2 /\ t.c[2].k = "lambda"
        /\ LET b == Last(t.c[2].c[1].c).c IN Len(b) > 1 /\ b[1].k \in ExprKinds

(* A word that begins with a keyword the grammar matches without looking at *)
(* what follows (do, then, else, end, case, pointer, static_array, func,    *)
(* proc, in before parameters) or with inf or nan, which are numbers.       *)
KeywordPrefix ==
    \E i \in 1..N - 1 :
        /\ i = 1 \/ text[i - 1] \notin Alnum
        /\ text[i] \in {"do", "then", "else", "end", "case", "pointer", "static_array", "func", "proc", "in", "nan"}
        /\ text[i + 1] \in Alnum
(* x.f if y: the keyword behind the blank is read as the argument of f. *)
KeywordAsArgument ==
    \E i \in 1..N, j \in 1..N :
        text[i] = "." /\ text[j] \in {"if", "unless"} /\ text[j - 1] = " " /\ j - i \in {3, 4} /\ text[j - 2] \in Alnum

(* x.f if :y: it is even read, as a variable 'if' of the type y. *)
KeywordOfType ==
    KeywordAsArgument /\ \E i \in 1..N : text[i] \in {"if", "unless"} /\ At(<<":">>, Skip(i + 1))
(* ret :array, then :string: the words may be tried as a declaration or an   *)
(* argument of that type first, and the flag stays when that fails.         *)
Tried ==
    LET behind(m) == \E i \in 1..N : text[i] \in Alnum /\ At(<<":", m>>, Skip(i + 1))
    IN  {NamedModules[m] : m \in {m \in DOMAIN NamedModules : behind(m[1])}}

(* Whatever the parser accepts it reads as it was written: operators bind   *)
(* and associate as the reference says, receivers and blocks become the     *)
(* right arguments, no backtracking leaves a part behind; and this for all  *)
(* the ways to write blanks, line ends, calls and blocks.                   *)
NeverMisread ==
    mode = "parse" /\ phase \in {"parsed", "done"}
    /\ ~TightNotEqual /\ ~TightSymbol /\ ~BlockReadAsArguments /\ ~KeywordOfType
        => root = program

(* Every program is accepted in every way to write it, whatever its words   *)
(* look like, unless a word begins with a keyword that is matched without   *)
(* DACHS_KWD or the text has one of the shapes above.                       *)
Accepts ==
    phase = "rejected" => KeywordPrefix \/ TightNotEqual \/ TightSymbol \/ KeywordAsArgument

(* The modules that literals, ranges, types and a main function with        *)
(* parameters need are imported once each, although the flags are set by    *)
(* actions that backtracking does not undo; nothing else is imported, and   *)
(* nothing at all when only the syntax is checked.  A type needs std.array  *)
(* or std.string when it is named so ([t] is an array), with parameters or  *)
(* without.  A variable, function or symbol of these names needs nothing;   *)
(* only behind a word may the symbol have been tried as the type of that    *)
(* word (Tried).                                                            *)
Needed ==
    LET sub == Subtrees(program)
        has(P(_)) == \E t \in sub : P(t)
        typed_as(t, n) == t.k = "primary_type" /\ t.v = <<n>>
    IN  (IF has(LAMBDA t : IsRange(t)) THEN {"std.range"} ELSE {})
        \cup (IF has(LAMBDA t : t.k = "array" \/ typed_as(t, "array")) THEN {"std.array"} ELSE {})
        \cup (IF has(LAMBDA t : t.k = "string" \/ typed_as(t, "string")) THEN {"std.string"} ELSE {})
        \cup (IF \E i \in DOMAIN program.c : IsMain(program.c[i]) THEN {"std.argv"} ELSE {})
=============================================================================
