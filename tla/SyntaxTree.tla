----------------------------- MODULE SyntaxTree -----------------------------
(***************************************************************************)
(* The nodes of src/dachs/ast/ast.hpp that the parser builds, and what the *)
(* constructors of those nodes do with the parts the semantic actions of   *)
(* the grammar hand them.  A node is its kind, its text (a name or an      *)
(* operator, as a sequence of atoms) and its children.                     *)
(***************************************************************************)
EXTENDS Naturals, Sequences, SequencesExt

Node(k, v, c) == [k |-> k, v |-> v, c |-> c]
Leaf(v) == Node("text", v, <<>>)

ExprKinds == {"var_ref", "int", "uint", "float", "bool", "char", "string", "symbol", "array", "tuple", "dict",
              "lambda", "call", "new", "index", "ufcs", "unary", "cast", "binary", "block_expr", "if_expr",
              "switch_expr", "typed"}

IsText(n) == n.k = "text"
NotText(n) == n.k # "text"
OfKind(ks, ns) == SelectSeq(ns, LAMBDA n : n.k \in ks)

(* The text of a node is the text of the leaves among its parts.            *)
TextOf(parts) == FoldLeft(LAMBDA s, n : IF IsText(n) THEN s \o n.v ELSE s, <<>>, parts)
Plain(k, parts) == Node(k, TextOf(parts), SelectSeq(parts, NotText))

(* A do-end block is a function_definition that set_do_block wraps in a     *)
(* lambda_expr and appends to the arguments.                                *)
lambda_expr(def) == Node("lambda", <<>>, <<def>>)
set_do_block(args) ==
    [i \in DOMAIN args |-> IF args[i].k = "function" THEN lambda_expr(args[i]) ELSE args[i]]

(* func_invocation: (callee, args) and, for UFCS, (callee, head, tail): the *)
(* receiver, parsed first, becomes the first argument.                      *)
func_invocation(parts) == Node("call", <<>>, <<parts[1]>> \o set_do_block(Tail(parts)))
func_invocation_receiver_last(parts) ==    \* mutant: the receiver is appended
    Node("call", <<"ufcs">>, <<parts[2]>> \o set_do_block(SubSeq(parts, 3, Len(parts))) \o <<parts[1]>>)
func_invocation_ufcs(parts) ==
    Node("call", <<"ufcs">>, <<parts[2], parts[1]>> \o set_do_block(SubSeq(parts, 3, Len(parts))))

(* object_construct: the type and the arguments.  The action of the rule    *)
(* moves the arguments of new array(static_array(t)) to a construction of   *)
(* the static array, which becomes the only argument.                       *)
object_construct(parts) ==
    LET type == parts[1]
        args == set_do_block(Tail(parts))
    IN  IF type.k = "primary_type" /\ type.v = <<"array">>
           /\ type.c # <<>> /\ type.c[1].k = "array_type"
        THEN Node("new", <<>>, <<Node("primary_type", <<"array">>, <<>>),
                                 Node("new", <<>>, <<type.c[1]>> \o args)>>)
        ELSE Node("new", <<>>, <<type>> \o args)

(* a..b and a...b construct a range; the third argument says whether the    *)
(* upper bound is excluded.                                                 *)
object_construct_range(parts) ==
    Node("new", <<>>, <<Node("primary_type", <<"range">>, <<>>), parts[1], parts[3],
                        Node("bool", <<IF Len(parts[2].v) = 3 THEN "true" ELSE "false">>, <<>>)>>)

(* [t] is array(pointer(t)). *)
array_type(parts) == Node("primary_type", <<"array">>, <<Node("pointer_type", <<>>, parts)>>)

(* The body of a one-line lambda and the last expression of a {...} block   *)
(* are returned.                                                            *)
return_last(parts) ==
    Node("block", <<>>, Append(Front(parts), Node("return", <<>>, <<Last(parts)>>)))

(* inu keeps functions, constants, classes and imports apart. *)
inu(parts) ==
    Node("inu", <<>>, OfKind({"function"}, parts) \o OfKind({"init"}, parts)
                      \o OfKind({"class"}, parts) \o OfKind({"import"}, parts))

(* class_definition keeps variables and member functions apart. *)
class_definition(parts) ==
    Node("class", TextOf(parts), OfKind({"var_decl"}, parts) \o OfKind({"function"}, parts))

(* An access specifier, public unless written otherwise, goes to every      *)
(* variable of the declaration and to the method behind it.                 *)
with_access(parts) ==
    LET private == parts[1].v = <<"-">>
    IN  [i \in 1..Len(parts) - 1 |->
            [parts[i + 1] EXCEPT !.c = @ \o <<Node(IF private THEN "private" ELSE "public", <<>>, <<>>)>>]]

(* constructor, copier and converter are functions with reserved names.     *)
special(name, parts) == Node("function", <<name>>, parts)

(* What the action of a rule makes of the parts of a match.                 *)
Make(k, parts) ==
    CASE k = "call"      -> <<func_invocation(parts)>>
      [] k = "ufcs_call" -> <<func_invocation_ufcs(parts)>>
      [] k = "new"       -> <<object_construct(parts)>>
      [] k = "range"     -> <<object_construct_range(parts)>>
      [] k = "array_of"  -> <<array_type(parts)>>
      [] k = "returning" -> <<return_last(parts)>>
      [] k = "inu"       -> <<inu(parts)>>
      [] k = "class"     -> <<class_definition(parts)>>
      [] k = "access"    -> with_access(parts)
      [] k = "ctor"      -> <<special("dachs.init", parts)>>
      [] k = "copier"    -> <<special("dachs.copy", parts)>>
      [] k = "converter" -> <<special("dachs.conv", parts)>>
      [] OTHER           -> <<Plain(k, parts)>>
=============================================================================
