------------------------------ MODULE Grammar ------------------------------
(***************************************************************************)
(* The grammar of src/dachs/parser/parser.cpp, rule by rule.  A definition *)
(* has the name of its rule.  typed_expr, compound_stmt, qualified_type,   *)
(* unary_expr and do_block are used before they are defined (Rf).          *)
(***************************************************************************)
EXTENDS Peg

typed == Rf("typed_expr")
type  == Rf("qualified_type")
stmt  == Rf("compound_stmt")

end_   == L("end")
then_  == L("then")
else_  == L("else")
elseif == Lit(<<"else", "if">>)
if_kind == Tx(Al(<<L("if"), L("unless")>>))

sep == Pl(Al(<<L(";"), Eol>>))
comma == Al(<<Sq(<<L(","), Op(Eol)>>), Sq(<<Op(Eol), L(",")>>)>>)
trailing_comma == Op(SqOr(L(","), Eol))
ThenOrSep == SqOr(Kw(then_), sep)

stmt_block_before_end == Nd("block", Op(Ls(Df(stmt, Kw(end_)), sep)))

(* ---- literals ---- *)
character_literal == Nd("char", Lx(Ex(<<L("'"), Tx(Cls(Alnum)), L("'")>>)))
float_literal ==
    Nd("float", Tx(Lx(Sq(<<Op(Cls({"+", "-"})),
        Al(<<Sq(<<Op(Cls(Digits)), L("."), Cls(Digits)>>), Lit(<<"in", "f">>), L("nan")>>)>>))))
boolean_literal == Nd("bool", Kw(Tx(Al(<<L("true"), L("false")>>))))
string_literal == Found("std.string", Nd("string", Lx(Ex(<<L("\""), Tx(St(Cls(Alnum))), L("\"")>>))))
integer_literal == Nd("int", Tx(Lx(Sq(<<Op(Cls({"+", "-"})), Cls(Digits)>>))))
uinteger_literal == Nd("uint", Lx(Ex(<<Sq(<<Tx(Cls(Digits)), L("u")>>), No(Cls(Alnum))>>)))
array_literal ==
    Found("std.array", Nd("array", Sq(<<L("["), Op(Sq(<<Op(Eol), Ls(typed, comma), trailing_comma>>)), L("]")>>)))
tuple_literal ==
    Nd("tuple", Sq(<<L("("), Op(Sq(<<Op(Eol), typed, Pl(Sq(<<comma, typed>>)), trailing_comma>>)), L(")")>>))
symbol_literal ==
    Nd("symbol", Lx(Sq(<<L(":"), Tx(Pl(Cls(Alnum \cup {"=", "*", "/", "%", "+", ">", "<", "&", "^", "|", "!", "~", "-"})))>>)))
dict_literal ==
    Nd("dict", Sq(<<L("{"),
        Op(Sq(<<Op(Eol), Ls(Nd("pair", Ex(<<Sq(<<typed, Lit(<<"=", ">">>)>>), typed>>)), comma), trailing_comma>>)),
        L("}")>>))
primary_literal ==
    Al(<<boolean_literal, character_literal, float_literal, uinteger_literal, integer_literal>>)

(* ---- names ---- *)
Word == Sq(<<Cls(Alpha), St(Cls(Alnum))>>)
called_function_name == Tx(Lx(Sq(<<Op(L("@")), Word, Op(L("?")), St(L("'")), Op(L("!"))>>)))
function_name == Tx(Lx(Sq(<<Word, Op(L("?")), St(L("'"))>>)))
(* The primes at the end of the name are not added to _val. *)
variable_name == Lx(Sq(<<Tx(Sq(<<Op(L("@")), Word>>)), St(L("'"))>>))
type_name == variable_name
class_name == Tx(Lx(Word))

var_ref == Nd("var_ref", called_function_name)
parameter ==
    Nd("param", Sq(<<Op(Nd("mut", Kw(L("var")))), variable_name,
                     Op(Sq(<<Op(Eol), L(":"), Op(Eol), type>>))>>))

(* ---- primary expressions ---- *)
(* The arguments are pushed to _val as they are parsed, also when the '}'   *)
(* is missing and the option is given up.                                   *)
constructor_call ==
    Keeps(Sq(<<L("{"), Op(Sq(<<Op(Eol), Ls(typed, comma), Op(Eol)>>)), L("}")>>), ExprKinds)
object_construct_ ==
    Nd("new", Sq(<<Kw(L("new")), type, constructor_call, Op(Rf("do_block"))>>))

(* A return type stays in _c when the "in" behind it is missing and the     *)
(* parentheses turn out to be the body.                                     *)
LambdaParams ==
    Sq(<<L("("), Op(Sq(<<Ls(parameter, comma), trailing_comma>>)), L(")"), Op(Nd("returns", Ex(<<L(":"), type>>)))>>)
lambda_expr_oneline ==
    LET parens == Sq(<<LambdaParams, Op(Eol), Kw(L("in"))>>)
        bare   == Op(Sq(<<Ls(Df(parameter, L("in")), comma), trailing_comma, Kw(L("in"))>>))
    IN  Nd("function", Sq(<<Lit(<<"-", ">">>), Op(Eol), Al(<<parens, Sq(<<Keeps(parens, {"returns"}), bare>>)>>),
                            Op(Eol), Nd("returning", typed)>>))
lambda_expr_do_end ==
    Nd("function", Sq(<<Lit(<<"-", ">">>), Op(Eol),
        Al(<<LambdaParams, Op(Ls(Df(parameter, L("do")), comma))>>),
        Op(Eol), Kw(L("do")), Op(Eol), stmt_block_before_end, Op(sep), end_>>))
lambda_expr_ == Nd("lambda", Al(<<lambda_expr_do_end, lambda_expr_oneline>>))

block_expr_before_end ==
    Nd("block_expr", Sq(<<St(Sq(<<Df(stmt, Sq(<<typed, Op(sep), end_>>)), sep>>)), typed>>))
begin_end_expr == Sq(<<Kw(L("begin")), Op(Eol), block_expr_before_end, Op(sep), end_>>)

variable_decl ==
    Nd("var_decl", Sq(<<Op(Nd("mut", Kw(L("var")))), variable_name,
                        Op(Sq(<<Op(Eol), L(":"), Op(Eol), type>>))>>))
variable_decl_without_init ==
    Nd("var_decl", Sq(<<Nd("mut", Kw(L("var"))), variable_name, Op(Eol), L(":"), Op(Eol), type>>))
initialize_stmt ==
    Al(<<Nd("init", Sq(<<Ls(variable_decl, comma), trailing_comma, Lit(<<":", "=">>),
                         Op(Eol), Nd("rhs", Ls(typed, comma))>>)),
         Nd("init", Ls(variable_decl_without_init, comma))>>)
let_expr ==
    Nd("block_expr", Sq(<<Kw(L("let")), Op(Eol), Ls(initialize_stmt, sep), Op(Eol), Kw(L("in")), Op(Eol), typed>>))

primary_expr ==
    Al(<<object_construct_, lambda_expr_, begin_end_expr, let_expr, primary_literal, string_literal,
         array_literal, symbol_literal, dict_literal, tuple_literal, var_ref,
         Sq(<<L("("), Op(Eol), typed, Op(Eol), L(")")>>)>>)

oneline_lambda_stmt_block ==
    Nd("returning", Sq(<<St(Sq(<<Df(stmt, Sq(<<typed, Op(sep), L("}")>>)), sep>>)), typed>>))
BlockParams == Op(Sq(<<L("|"), Ls(parameter, comma), L("|")>>))
do_block ==
    Al(<<Nd("function", Sq(<<Kw(L("do")), BlockParams, Op(Eol), stmt_block_before_end, Op(sep), end_>>)),
         Nd("function", Sq(<<L("{"), BlockParams, Op(Eol), oneline_lambda_stmt_block, Op(sep), L("}")>>))>>)

(* ---- postfix, unary and binary expressions ---- *)
Space == NoSkip(L(" "))
SpaceAhead == No(No(Space))
var_ref_before_space == Sq(<<var_ref, SpaceAhead, No(Kw(L("as")))>>)
Dot == Sq(<<Op(Eol), L("."), Op(Eol)>>)
postfix_expr ==
    Fl(primary_expr, Al(<<
        Pt("ufcs_call", Sq(<<Dot, var_ref, L("("), Op(Ls(typed, comma)), trailing_comma, L(")"), Op(Rf("do_block"))>>)),
        Pt("ufcs_call", Sq(<<Dot, var_ref_before_space, Ls(Df(typed, L("do")), comma), Rf("do_block")>>)),
        Pt("ufcs_call", Sq(<<Dot, var_ref_before_space, No(Cls({"+", "-"})),
                             Ls(Df(typed, Al(<<L("do"), then_, else_, end_>>)), comma)>>)),
        Pt("ufcs_call", Sq(<<Dot, Df(var_ref, L("do")), Rf("do_block")>>)),
        Pt("ufcs", Sq(<<Dot, called_function_name>>)),
        Pt("call", Sq(<<SpaceAhead, No(Kw(L("as"))), Ls(Df(typed, L("do")), comma), Rf("do_block")>>)),
        Pt("index", Sq(<<L("["), Op(Eol), typed, Op(Eol), L("]")>>)),
        Pt("call", Sq(<<L("("), Op(Eol), Op(Ls(typed, comma)), trailing_comma, L(")"), Op(Rf("do_block"))>>))>>))

unary_operator == Tx(Cls({"+", "-", "~", "!"}))
unary_expr == Al(<<Nd("unary", Sq(<<unary_operator, Rf("unary_expr")>>)), postfix_expr>>)
cast_expr ==
    Fl(Rf("unary_expr"), Pt("cast", Ex(<<Sq(<<Op(Eol), Kw(L("as"))>>), Op(Eol), type>>)))

(* One level of binary operators: the operators, in the order they are     *)
(* tried, and the level of the operands.                                   *)
Level(ops, operand) ==
    Fl(operand, Pt("binary", Sq(<<Op(Eol), Tx(OneOf(ops)), Op(Eol), operand>>)))
mult_expr == Level(<< <<"*">>, <<"/">>, <<"%">> >>, cast_expr)
(* No line end before + and -. *)
additive_expr == Fl(mult_expr, Pt("binary", Sq(<<Tx(Cls({"+", "-"})), Op(Eol), mult_expr>>)))
shift_expr == Level(<< <<"<", "<">>, <<">", ">">> >>, additive_expr)
relational_short_first ==    \* mutant: "<" is tried before "<="
    Level(<< <<"<">>, <<">">>, <<"<", "=">>, <<">", "=">> >>, shift_expr)
relational_expr == Level(<< <<"<", "=">>, <<">", "=">>, <<"<">>, <<">">> >>, shift_expr)
equality_expr == Level(<< <<"=", "=">>, <<"!", "=">> >>, relational_expr)
and_expr == Level(<< <<"&">> >>, equality_expr)
xor_expr == Level(<< <<"^">> >>, and_expr)
or_expr == Level(<< <<"|">> >>, xor_expr)
logical_and_expr == Level(<< <<"&", "&">> >>, or_expr)
logical_or_expr == Level(<< <<"|", "|">> >>, logical_and_expr)
range_expr ==
    Fl1(logical_or_expr, Found("std.range", Pt("range", Sq(<<Op(Eol),
        Tx(OneOf(<< <<".", ".", ".">>, <<".", ".">> >>)), Op(Eol), logical_or_expr>>))))

(* ---- if, case and switch expressions ---- *)
Condition == Df(typed, Kw(then_))
if_then_block_expr ==
    Nd("block_expr", Sq(<<St(Sq(<<Df(stmt, Sq(<<typed, Op(sep), Kw(Al(<<elseif, else_>>))>>)), sep>>)),
                          Df(typed, Al(<<Kw(elseif), Kw(else_)>>))>>))
ElseExpr == Sq(<<Kw(else_), Op(sep), block_expr_before_end, Op(sep), end_>>)
if_expr ==
    Nd("if_expr", Sq(<<Kw(if_kind), Condition, ThenOrSep, if_then_block_expr, Op(sep),
        St(Sq(<<Kw(elseif), Condition, ThenOrSep, if_then_block_expr, Op(sep)>>)), ElseExpr>>))
case_when_block_expr ==
    Nd("block_expr", Sq(<<St(Sq(<<Df(stmt, Sq(<<typed, Op(sep), Kw(Al(<<L("when"), else_>>))>>)), sep>>)),
                          Df(typed, Al(<<Kw(L("when")), Kw(else_)>>))>>))
case_expr ==
    Nd("if_expr", Sq(<<Tx(L("case")), sep,
        Pl(Sq(<<Kw(L("when")), Condition, ThenOrSep, case_when_block_expr, Op(sep)>>)), ElseExpr>>))
switch_expr ==
    Nd("switch_expr", Sq(<<L("case"), typed, sep,
        Pl(Sq(<<Nd("values", Sq(<<Kw(L("when")), Ls(Condition, comma)>>)), ThenOrSep, case_when_block_expr, Op(sep)>>)),
        ElseExpr>>))
typed_expr ==
    Fl1(Al(<<if_expr, case_expr, switch_expr, range_expr>>), Pt("typed", Sq(<<L(":"), Op(Eol), type>>)))

(* ---- types ---- *)
InParens(e) == Ex(<<L("("), Op(Eol), e, Op(Eol), L(")")>>)
NamedModules == <<"array">> :> "std.array" @@ <<"string">> :> "std.string"
primary_type ==
    Al(<<Nd("array_type", Ex(<<L("static_array"), Op(InParens(type))>>)),
         Nd("pointer_type", Ex(<<L("pointer"), Op(InParens(type))>>)),
         FoundIn(NamedModules, Nd("primary_type", Sq(<<type_name, Op(Sq(<<L("("), Op(Eol), Ls(type, comma), Op(Eol), L(")")>>))>>)))>>)
nested_type == Al(<<Sq(<<L("("), Op(Eol), type, Op(Eol), L(")")>>), primary_type>>)
array_type_ == Found("std.array", Nd("array_of", Sq(<<L("["), Op(Eol), type, Op(Eol), L("]")>>)))
dict_type ==
    Nd("dict_type", Sq(<<L("{"), Op(Eol), type, Op(Eol), Lit(<<"=", ">">>), Op(Eol), type, Op(Eol), L("}")>>))
tuple_type ==
    Nd("tuple_type", Sq(<<L("("), Op(Sq(<<Op(Eol), type, Pl(Sq(<<comma, type>>)), trailing_comma>>)), L(")")>>))
FuncArgs == Sq(<<L("("), Op(Sq(<<Op(Eol), Ls(type, comma), trailing_comma>>)), L(")")>>)
func_type ==
    Al(<<Nd("func_type", Sq(<<L("func"), FuncArgs, Op(Nd("returns", Sq(<<Op(Eol), L(":"), Op(Eol), type>>)))>>)),
         Nd("func_type", Sq(<<L("proc"), FuncArgs>>)),
         Nd("any_func_type", Kw(L("func")))>>)
typeof_type == Nd("typeof_type", Ex(<<Sq(<<L("typeof"), L("(")>>), typed, L(")")>>))
compound_type == Al(<<func_type, array_type_, dict_type, tuple_type, typeof_type, nested_type>>)
qualified_type == Fl1(compound_type, Pt("maybe_type", L("?")))

(* ---- statements ---- *)
assign_operator ==
    Tx(OneOf(<< <<"=">>, <<"*", "=">>, <<"/", "=">>, <<"%", "=">>, <<"+", "=">>, <<"-", "=">>, <<"<", "<", "=">>,
        <<">", ">", "=">>, <<"&", "=">>, <<"^", "=">>, <<"|", "=">>, <<"&", "&", "=">>, <<"|", "|", "=">> >>))
assignment_stmt ==
    Nd("assign", Sq(<<Nd("lhs", Ls(typed, comma)), assign_operator, Op(Eol), Nd("rhs", Ls(typed, comma))>>))
if_then_stmt_block ==
    Nd("block", Op(Ls(Df(stmt, Al(<<Kw(end_), Kw(elseif), Kw(else_), Kw(then_)>>)), sep)))
ElseStmts == Sq(<<Kw(else_), Op(sep), stmt_block_before_end, Op(sep)>>)
if_stmt ==
    Nd("if_stmt", Sq(<<Kw(if_kind), Condition, ThenOrSep, if_then_stmt_block, Op(sep),
        St(Sq(<<Kw(elseif), Condition, ThenOrSep, if_then_stmt_block, Op(sep)>>)), Op(ElseStmts), end_>>))
return_stmt == Nd("return", Sq(<<Kw(L("ret")), Op(Ls(typed, comma))>>))
case_when_stmt_block ==
    Nd("block", St(Sq(<<Df(stmt, Al(<<Kw(end_), Kw(else_), Kw(L("when"))>>)), sep>>)))
case_stmt ==
    Nd("if_stmt", Sq(<<Tx(L("case")), sep,
        Pl(Sq(<<Kw(L("when")), Condition, ThenOrSep, case_when_stmt_block>>)), Op(ElseStmts), end_>>))
switch_stmt ==
    Nd("switch_stmt", Sq(<<Kw(L("case")), typed, sep,
        Pl(Sq(<<Nd("values", Sq(<<Kw(L("when")), Ls(Condition, comma)>>)), ThenOrSep, case_when_stmt_block>>)),
        Op(ElseStmts), end_>>))
for_stmt ==
    Nd("for", Sq(<<Kw(L("for")), Ls(Df(parameter, Kw(L("in"))), comma), Kw(L("in")), typed, sep,
                   stmt_block_before_end, Op(sep), end_>>))
while_stmt ==
    Nd("while", Sq(<<Kw(L("for")), typed, SqOr(Kw(L("do")), sep), stmt_block_before_end, Op(sep), end_>>))
postfix_if_return_stmt == Nd("return", Sq(<<Kw(L("ret")), Op(Ls(Df(typed, Kw(if_kind)), comma))>>))
postfix_if_stmt ==
    Nd("postfix_if", Sq(<<Al(<<postfix_if_return_stmt, assignment_stmt, Df(typed, Kw(if_kind))>>),
                          Kw(if_kind), typed, No(Kw(then_))>>))
begin_stmt == Sq(<<Kw(L("begin")), Op(Eol), stmt_block_before_end, Op(sep), Kw(end_)>>)
compound_stmt ==
    Al(<<if_stmt, case_stmt, switch_stmt, for_stmt, while_stmt, begin_stmt, initialize_stmt,
         postfix_if_stmt, return_stmt, assignment_stmt, typed>>)

(* ---- definitions ---- *)
function_param_decls ==
    Op(Ex(<<Sq(<<L("("), Op(Sq(<<Op(Eol), Ls(parameter, comma), trailing_comma>>))>>), L(")")>>))
func_body_stmt_block == Nd("block", Op(Ls(Df(stmt, Al(<<Kw(L("ensure")), Kw(end_)>>)), sep)))
ReturnType == Nd("returns", Ex(<<Sq(<<L(":"), Op(Eol)>>), type>>))
binary_operator ==
    OneOf(<< <<">", ">">>, <<"<", "<">>, <<"<", "=">>, <<">", "=">>, <<"=", "=">>, <<"!", "=">>, <<"&", "&">>, <<"|", "|">>,
        <<"*">>, <<"/">>, <<"%">>, <<"+">>, <<"-">>, <<"<">>, <<">">>, <<"&">>, <<"^">>, <<"|">>, <<"[", "]">> >>)
ternary_operator == Lit(<<"[", "]", "=">>)
func_def_name == Al(<<Tx(ternary_operator), Tx(binary_operator), unary_operator, function_name>>)
function_definition ==
    Nd("function", Ex(<<Kw(Nd("kind", Tx(Al(<<L("func"), L("proc")>>)))), func_def_name, function_param_decls,
        Op(ReturnType), sep, func_body_stmt_block, Op(sep),
        Op(Ex(<<L("ensure"), sep, stmt_block_before_end, Op(sep)>>)), end_>>))
constant_decl == Nd("var_decl", Sq(<<variable_name, Op(Sq(<<L(":"), Op(Eol), type>>))>>))
constant_definition ==
    Nd("init", Sq(<<Ls(constant_decl, comma), trailing_comma, Lit(<<":", "=">>), Op(Eol), Nd("rhs", Ls(typed, comma))>>))
access_specifier == Tx(Op(Cls({"+", "-"})))
instance_variable_decl ==
    Nd("var_decl", Sq(<<Nd("mut", Sq(<<>>)), variable_name,
                        Op(Ex(<<Sq(<<Op(Eol), L(":")>>), Op(Eol), type>>))>>))
instance_variable_decls ==
    Nd("access", Sq(<<access_specifier, Ls(instance_variable_decl, Sq(<<Op(Eol), L(",")>>))>>))
method_definition == Nd("access", Sq(<<access_specifier, function_definition>>))
constructor ==
    Nd("ctor", Ex(<<Kw(Lit(<<"in", "it">>)), function_param_decls, sep, stmt_block_before_end, Op(sep), end_>>))
copier == Nd("copier", Ex(<<Kw(L("copy")), sep, func_body_stmt_block, Op(sep), end_>>))
converter ==
    Nd("converter", Ex(<<Kw(L("cast")), function_param_decls, Nd("returns", Ex(<<Sq(<<L(":"), Op(Eol)>>), type>>)), sep,
                         func_body_stmt_block, Op(sep), end_>>))
class_definition_ ==
    Nd("class", Ex(<<Kw(L("class")), class_name,
        St(Sq(<<sep, Al(<<method_definition, constructor, copier, converter,
                          Df(instance_variable_decls, end_)>>)>>)), sep, end_>>))
import ==
    Nd("import", Ex(<<Kw(L("import")), Tx(Ls(Pl(Cls(Alnum)), L(".")))>>))
inu_ ==
    Nd("inu", Ex(<<Op(sep),
        Op(Ls(Al(<<converter, function_definition, constant_definition, class_definition_, import>>), sep)),
        Op(sep), Al(<<Eol, Eoi>>)>>))

Rules == [qualified_type |-> qualified_type, do_block |-> do_block, unary_expr |-> unary_expr,
          typed_expr |-> typed_expr, compound_stmt |-> compound_stmt]
Order == <<"qualified_type", "do_block", "unary_expr", "typed_expr", "compound_stmt">>

(* phrase_parse: the program, or a parse error.  A match that leaves text   *)
(* behind is an error too.                                                  *)
phrase_parse ==
    LET r == Ev(inu_, 1, TRUE, Outcomes(Rules, Order))
    IN  IF r.s = "ok" /\ Skip(r.i) <= N THEN [r EXCEPT !.s = "err"] ELSE r
=============================================================================
