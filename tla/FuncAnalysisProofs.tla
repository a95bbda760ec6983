------------------------- MODULE FuncAnalysisProofs -------------------------
(***************************************************************************)
(* For tables of functions and argument types of every size: a call        *)
(* selects the functions that accept its arguments and that no more        *)
(* specific one does (CallSelectsMostSpecific).                            *)
(*                                                                         *)
(* For programs of every size: the walk never re-enters a function         *)
(* (WalkNeverReenters), a return type that is known stays                  *)
(* (ReturnTypesStay), the tables keep their shape                          *)
(* (FuncAnalysisTypeCorrect), and what an accepted program's calls and     *)
(* functions are typed with is what their callees return                   *)
(* (AcceptedTypesSound), and every call selects the most specific callee,  *)
(* of which there is one instance per types of arguments                   *)
(* (EveryCallSelects).                                                     *)
(*                                                                         *)
(* For the first two only the shape of the tables matters, and that no two *)
(* frames are of one function: a step keeps the functions of the frames,   *)
(* pops one, or pushes one that was not visited.  For the others ShapeInv  *)
(* says what holds whether the analysis has failed or not, and SoundInv    *)
(* what holds as long as it has not: of functions not walked yet (Fresh),  *)
(* being walked (Walking), and left (Left).  InstantiatedOnce is inductive *)
(* because an earlier instance, which takes the arguments themselves,      *)
(* would have been selected before its template.                           *)
(***************************************************************************)
EXTENDS FuncAnalysis, ProofLemmas, FiniteSetTheorems, TLAPS

-----------------------------------------------------------------------------
(* Overload resolution.  Parameter by parameter, a more specific function   *)
(* scores higher, or the same with a greater depth (ParamOrder); so do the  *)
(* product of the scores and the sums (TotalsOrder), since no factor of a   *)
(* function that accepts the arguments is zero.  The loops over parameters  *)
(* are a recursive function, and what holds of it for every number of       *)
(* parameters is shown by the induction over sets of ProofLemmas.           *)

TypeOver(B) == [base : B, ptr : Nat]

(* What one parameter scores for an argument, which is never a template.    *)
LEMMA ParamScore ==
    ASSUME NEW B, NEW p \in TypeOver(B), NEW arg \in TypeOver(B), ~ is_template(arg),
           NEW s, s = get_parameter_score(arg, p)
    PROVE  /\ s.score \in 0..3 /\ s.perfect \in 0..1 /\ s.depth \in Nat
           /\ s.score # 0 <=> Takes(p, arg)
           /\ p = arg => s = [score |-> 3, perfect |-> 1, depth |-> 0]
           /\ Takes(p, arg) /\ p # arg =>
                /\ is_template(p)
                /\ s = IF p.ptr = 0 THEN [score |-> 1, perfect |-> 0, depth |-> 0]
                       ELSE [score |-> 2, perfect |-> 0, depth |-> p.ptr + 1]
<1>1. p.ptr \in Nat /\ arg.ptr \in Nat
  BY DEF TypeOver
<1>2. CASE is_template_type(p)
  <2>1. is_template(p) /\ p.ptr = 0 /\ p # arg /\ ~ is_instantiated_from(arg, p)
    BY <1>2 DEF is_template_type, is_instantiated_from
  <2>2. s = [score |-> 1, perfect |-> 0, depth |-> 0]
    BY <1>2, <2>1 DEF get_parameter_score
  <2>3. Takes(p, arg)
    BY <1>1, <2>1 DEF Takes
  <2> QED BY <2>1, <2>2, <2>3
<1>3. CASE is_instantiated_from(arg, p)
  <2>1. is_template(p) /\ p.ptr > 0 /\ p # arg /\ ~ is_template_type(p) /\ arg.ptr >= p.ptr
    BY <1>1, <1>3 DEF is_template_type, is_instantiated_from
  <2>2. s = [score |-> 2, perfect |-> 0, depth |-> p.ptr + 1]
    BY <1>3, <2>1 DEF get_parameter_score, template_depth
  <2>3. Takes(p, arg)
    BY <1>1, <2>1 DEF Takes
  <2> QED BY <1>1, <2>1, <2>2, <2>3
<1>4. CASE p = arg
  <2>1. ~ is_template_type(p) /\ ~ is_instantiated_from(arg, p)
    BY <1>4 DEF is_template_type, is_instantiated_from
  <2>2. s = [score |-> 3, perfect |-> 1, depth |-> 0]
    BY <1>4, <2>1 DEF get_parameter_score
  <2> QED BY <1>4, <2>2 DEF Takes
<1>5. CASE ~ is_template_type(p) /\ ~ is_instantiated_from(arg, p) /\ p # arg
  <2>1. s = [score |-> 0, perfect |-> 0, depth |-> 0]
    BY <1>5 DEF get_parameter_score
  <2>2. ~ Takes(p, arg)
    BY <1>1, <1>5 DEF Takes, is_template_type, is_instantiated_from
  <2> QED BY <1>5, <2>1, <2>2
<1> QED
  BY <1>2, <1>3, <1>4, <1>5

(* Of two parameters that take an argument the more specific one scores     *)
(* higher, or the same with a greater depth.                                *)
LEMMA ParamOrder ==
    ASSUME NEW B, NEW p \in TypeOver(B), NEW q \in TypeOver(B), NEW arg \in TypeOver(B), ~ is_template(arg),
           Takes(p, arg), Takes(q, arg), p = q \/ ParamBelow(p, q),
           NEW s, s = get_parameter_score(arg, p), NEW t, t = get_parameter_score(arg, q)
    PROVE  /\ s.score >= t.score
           /\ s.score = t.score => /\ s.perfect = t.perfect
                                   /\ s.depth >= t.depth
                                   /\ p # q => s.depth > t.depth
<1>1. p.ptr \in Nat /\ q.ptr \in Nat
  BY DEF TypeOver
<1>2. /\ s.score \in 0..3 /\ s.perfect \in 0..1 /\ s.depth \in Nat
      /\ p = arg => s = [score |-> 3, perfect |-> 1, depth |-> 0]
      /\ p # arg =>
           /\ is_template(p)
           /\ s = IF p.ptr = 0 THEN [score |-> 1, perfect |-> 0, depth |-> 0]
                  ELSE [score |-> 2, perfect |-> 0, depth |-> p.ptr + 1]
  BY ParamScore
<1>3. /\ t.score \in 0..3 /\ t.perfect \in 0..1 /\ t.depth \in Nat
      /\ q = arg => t = [score |-> 3, perfect |-> 1, depth |-> 0]
      /\ q # arg =>
           /\ is_template(q)
           /\ t = IF q.ptr = 0 THEN [score |-> 1, perfect |-> 0, depth |-> 0]
                  ELSE [score |-> 2, perfect |-> 0, depth |-> q.ptr + 1]
  BY ParamScore
<1>4. CASE p = q
  BY <1>2, <1>4
<1>5. CASE p # q
  <2>1. is_template(q) /\ p.ptr >= q.ptr /\ q # arg
    BY <1>5 DEF ParamBelow
  <2>2. CASE p = arg
    BY <1>2, <1>3, <2>1, <2>2
  <2>3. CASE p # arg
    <3>1. p.ptr # q.ptr
      BY <1>2, <1>5, <2>1, <2>3 DEF TypeOver, is_template
    <3>2. p.ptr > q.ptr /\ s = [score |-> 2, perfect |-> 0, depth |-> p.ptr + 1]
      BY <1>1, <1>2, <2>1, <2>3, <3>1
    <3> QED BY <1>1, <1>3, <2>1, <3>2
  <2> QED BY <2>2, <2>3
<1> QED
  BY <1>4, <1>5

-----------------------------------------------------------------------------
(* The totals of a function: the loop over its parameters.                  *)
Start == [score |-> 1, perfect |-> 0, depth |-> 0]
Sum2(before, p) == [score   |-> before.score * p.score,
                    perfect |-> before.perfect + p.perfect,
                    depth   |-> before.depth + p.depth]
ParamScoreOf(func, args, n) == get_parameter_score(args[n], func.params[n])
IsTotal(func, args, m, g) ==
    g = [n \in 0..m |-> IF n = 0 THEN Start ELSE Sum2(g[n - 1], ParamScoreOf(func, args, n))]

(* The recursive function behind a total exists.                            *)
LEMMA TotalExists ==
    ASSUME NEW func, NEW args, NEW m \in Nat
    PROVE  \E g : IsTotal(func, args, m, g)
<1> DEFINE S == {i \in Nat : \E g : IsTotal(func, args, i, g)}
<1>1. 0 \in S
  <2>1. IsTotal(func, args, 0, [n \in 0..0 |-> Start])
    BY DEF IsTotal
  <2> QED BY <2>1
<1>2. ASSUME NEW i \in Nat, i \in S PROVE i + 1 \in S
  <2>1. PICK g : IsTotal(func, args, i, g)
    BY <1>2
  <2> DEFINE h == [n \in 0..(i + 1) |-> IF n <= i THEN g[n] ELSE Sum2(g[i], ParamScoreOf(func, args, i + 1))]
  <2>2. ASSUME NEW n \in 0..(i + 1)
        PROVE  h[n] = IF n = 0 THEN Start ELSE Sum2(h[n - 1], ParamScoreOf(func, args, n))
    <3>1. CASE n = 0
      BY <2>1, <3>1 DEF IsTotal
    <3>2. CASE n # 0 /\ n <= i
      <4>1. n - 1 \in 0..(i + 1) /\ n - 1 <= i /\ n \in 0..i
        BY <3>2
      <4>2. h[n - 1] = g[n - 1] /\ h[n] = g[n]
        BY <3>2, <4>1
      <4>3. g[n] = Sum2(g[n - 1], ParamScoreOf(func, args, n))
        BY <2>1, <3>2, <4>1 DEF IsTotal
      <4> QED BY <3>2, <4>2, <4>3
    <3>3. CASE n = i + 1
      <4>1. h[n] = Sum2(g[i], ParamScoreOf(func, args, i + 1)) /\ n # 0 /\ n - 1 = i
        BY <3>3
      <4>2. h[i] = g[i]
        OBVIOUS
      <4> QED BY <3>3, <4>1, <4>2
    <3> QED BY <3>1, <3>2, <3>3
  <2>3. IsTotal(func, args, i + 1, h)
    <3>1. h = [n \in 0..(i + 1) |-> h[n]]
      OBVIOUS
    <3> HIDE DEF h
    <3> QED BY <2>2, <3>1 DEF IsTotal
  <2> QED BY <2>3
<1> HIDE DEF S
<1>3. m \in S
  BY <1>1, <1>2, SetInduction
<1> QED
  BY <1>3 DEF S

(* g[n] is what the first n parameters add up to.                           *)
Totals(func, args, g) ==
    /\ g[0] = Start
    /\ \A n \in 1..Len(args) : g[n] = Sum2(g[n - 1], ParamScoreOf(func, args, n))

(* The score of a function is its total after the last parameter.           *)
LEMMA TotalIs ==
    ASSUME NEW func, NEW args, Len(args) \in Nat
    PROVE  \E g : Totals(func, args, g) /\ get_overloaded_function_score(func, args) = g[Len(args)]
<1> DEFINE Is(g) == IsTotal(func, args, Len(args), g)
<1>1. \E g : Is(g)
  BY TotalExists
<1>2. get_overloaded_function_score(func, args) = (CHOOSE g : Is(g))[Len(args)]
  BY DEF get_overloaded_function_score, IsTotal, Start, Sum2, ParamScoreOf
<1> HIDE DEF Is
<1>3. PICK g : g = CHOOSE h : Is(h)
  OBVIOUS
<1>4. Is(g)
  BY <1>1, <1>3
<1>5. g[0] = Start
  BY <1>4 DEF Is, IsTotal
<1>6. ASSUME NEW n \in 1..Len(args) PROVE g[n] = Sum2(g[n - 1], ParamScoreOf(func, args, n))
  BY <1>4, <1>6 DEF Is, IsTotal
<1>7. Totals(func, args, g)
  BY <1>5, <1>6 DEF Totals
<1> QED
  BY <1>2, <1>3, <1>7

(* The arguments of a call, and a function that has as many parameters.     *)
Fits(B, func, args) ==
    /\ args \in Seq(TypeOver(B)) /\ \A n \in 1..Len(args) : ~ is_template(args[n])
    /\ func.params \in Seq(TypeOver(B)) /\ Len(func.params) = Len(args)

(* The parameters and arguments of a function that fits.                    *)
LEMMA FitsParts ==
    ASSUME NEW B, NEW func, NEW args, Fits(B, func, args)
    PROVE  /\ Len(args) \in Nat
           /\ \A n \in 1..Len(args) : /\ args[n] \in TypeOver(B) /\ ~ is_template(args[n])
                                      /\ func.params[n] \in TypeOver(B)
<1>1. PICK T : T = TypeOver(B)
  OBVIOUS
<1>2. args \in Seq(T) /\ func.params \in Seq(T) /\ Len(func.params) = Len(args)
  BY <1>1 DEF Fits
<1>3. Len(args) \in Nat /\ \A n \in 1..Len(args) : args[n] \in T /\ func.params[n] \in T
  BY <1>2
<1> QED
  BY <1>1, <1>3 DEF Fits

(* The score is zero exactly if some parameter does not take its argument.  *)
LEMMA TotalsAccept ==
    ASSUME NEW B, NEW func, NEW args, Fits(B, func, args), NEW g, Totals(func, args, g)
    PROVE  \A n \in 0..Len(args) :
              /\ g[n].score \in Nat /\ g[n].perfect \in Nat /\ g[n].depth \in Nat
              /\ g[n].score # 0 <=> \A k \in 1..n : Takes(func.params[k], args[k])
<1> DEFINE Is(n) == /\ g[n].score \in Nat /\ g[n].perfect \in Nat /\ g[n].depth \in Nat
                    /\ g[n].score # 0 <=> \A k \in 1..n : Takes(func.params[k], args[k])
           S == {n \in Nat : n <= Len(args) => Is(n)}
<1>1. 0 \in S
  <2>1. g[0].score = 1 /\ g[0].perfect = 0 /\ g[0].depth = 0
    BY DEF Totals, Start
  <2> QED BY <2>1
<1>2. ASSUME NEW i \in Nat, i \in S, i + 1 <= Len(args) PROVE Is(i + 1)
  <2>1. Is(i) /\ i + 1 \in 1..Len(args) /\ Len(args) \in Nat
    BY <1>2, FitsParts
  <2>2. PICK s : s = get_parameter_score(args[i + 1], func.params[i + 1])
    OBVIOUS
  <2>3. /\ s.score \in 0..3 /\ s.perfect \in 0..1 /\ s.depth \in Nat
        /\ s.score # 0 <=> Takes(func.params[i + 1], args[i + 1])
    <3>1. PICK p \in TypeOver(B), arg \in TypeOver(B) :
             p = func.params[i + 1] /\ arg = args[i + 1] /\ ~ is_template(arg)
      BY <2>1, FitsParts
    <3> QED BY <2>2, <3>1, ParamScore
  <2>4. g[i + 1] = Sum2(g[i], s)
    BY <2>1, <2>2 DEF Totals, ParamScoreOf
  <2>5. PICK a \in Nat, b \in Nat, c \in Nat : a = g[i].score /\ b = g[i].perfect /\ c = g[i].depth
    BY <2>1
  <2>6. g[i + 1].score = a * s.score /\ g[i + 1].perfect = b + s.perfect /\ g[i + 1].depth = c + s.depth
    BY <2>4, <2>5 DEF Sum2
  <2>7. a * s.score \in Nat /\ (a * s.score # 0 <=> a # 0 /\ s.score # 0)
    <3>1. s.score = 0 \/ s.score = 1 \/ s.score = 2 \/ s.score = 3
      BY <2>3
    <3> QED BY <3>1
  <2>8. b + s.perfect \in Nat /\ c + s.depth \in Nat
    BY <2>3
  <2>9. (\A k \in 1..(i + 1) : Takes(func.params[k], args[k]))
           <=> /\ \A k \in 1..i : Takes(func.params[k], args[k])
               /\ Takes(func.params[i + 1], args[i + 1])
    <3>1. \A k \in 1..(i + 1) : k \in 1..i \/ k = i + 1
      OBVIOUS
    <3>2. \A k \in 1..i : k \in 1..(i + 1)
      OBVIOUS
    <3>3. i + 1 \in 1..(i + 1)
      OBVIOUS
    <3> QED BY <3>1, <3>2, <3>3
  <2> QED BY <2>1, <2>3, <2>5, <2>6, <2>7, <2>8, <2>9
<1> HIDE DEF Is
<1>3. \A i \in Nat : i \in S => i + 1 \in S
  BY <1>2
<1> HIDE DEF S
<1>4. Nat \subseteq S
  BY <1>1, <1>3, SetInduction
<1>5. \A n \in 0..Len(args) : Is(n)
  BY <1>4, FitsParts DEF S
<1> QED
  BY <1>5 DEF Is

(* The same order as ParamOrder, over all parameters.                       *)
LEMMA TotalsOrder ==
    ASSUME NEW B, NEW args, NEW f, NEW h, Fits(B, f, args), Fits(B, h, args),
           \A k \in 1..Len(args) : Takes(f.params[k], args[k]) /\ Takes(h.params[k], args[k]),
           \A k \in 1..Len(args) : f.params[k] = h.params[k] \/ ParamBelow(f.params[k], h.params[k]),
           NEW s, Totals(f, args, s), NEW t, Totals(h, args, t)
    PROVE  \A n \in 0..Len(args) :
              /\ s[n].score >= t[n].score
              /\ s[n].score = t[n].score =>
                    /\ s[n].perfect = t[n].perfect /\ s[n].depth >= t[n].depth
                    /\ (\E k \in 1..n : f.params[k] # h.params[k]) => s[n].depth > t[n].depth
<1>0. \A n \in 0..Len(args) :
         /\ s[n].score \in Nat \ {0} /\ s[n].perfect \in Nat /\ s[n].depth \in Nat
         /\ t[n].score \in Nat \ {0} /\ t[n].perfect \in Nat /\ t[n].depth \in Nat
  <2> SUFFICES ASSUME NEW n \in 0..Len(args)
               PROVE  /\ s[n].score \in Nat \ {0} /\ s[n].perfect \in Nat /\ s[n].depth \in Nat
                      /\ t[n].score \in Nat \ {0} /\ t[n].perfect \in Nat /\ t[n].depth \in Nat
    OBVIOUS
  <2>1. \A k \in 1..n : k \in 1..Len(args)
    BY FitsParts
  <2>2. /\ s[n].score \in Nat /\ s[n].perfect \in Nat /\ s[n].depth \in Nat
        /\ s[n].score # 0
    BY <2>1, TotalsAccept
  <2>3. /\ t[n].score \in Nat /\ t[n].perfect \in Nat /\ t[n].depth \in Nat
        /\ t[n].score # 0
    BY <2>1, TotalsAccept
  <2> QED BY <2>2, <2>3
<1> DEFINE Is(n) == /\ s[n].score >= t[n].score
                    /\ s[n].score = t[n].score =>
                          /\ s[n].perfect = t[n].perfect /\ s[n].depth >= t[n].depth
                          /\ (\E k \in 1..n : f.params[k] # h.params[k]) => s[n].depth > t[n].depth
           S == {n \in Nat : n <= Len(args) => Is(n)}
<1>1. 0 \in S
  BY DEF Totals, Start
<1>2. ASSUME NEW i \in Nat, i \in S, i + 1 <= Len(args) PROVE Is(i + 1)
  <2>1. Is(i) /\ i + 1 \in 1..Len(args) /\ i \in 0..Len(args) /\ Len(args) \in Nat
    BY <1>2, FitsParts
  <2>2. PICK p \in TypeOver(B), q \in TypeOver(B), arg \in TypeOver(B) :
           /\ p = f.params[i + 1] /\ q = h.params[i + 1] /\ arg = args[i + 1]
           /\ ~ is_template(arg) /\ Takes(p, arg) /\ Takes(q, arg) /\ (p = q \/ ParamBelow(p, q))
    BY <2>1, FitsParts
  <2>3. PICK u, v : u = get_parameter_score(arg, p) /\ v = get_parameter_score(arg, q)
    OBVIOUS
  <2>4. /\ u.score \in 1..3 /\ u.perfect \in 0..1 /\ u.depth \in Nat
        /\ v.score \in 1..3 /\ v.perfect \in 0..1 /\ v.depth \in Nat
    <3>1. /\ u.score \in 0..3 /\ u.perfect \in 0..1 /\ u.depth \in Nat
          /\ u.score # 0
      BY <2>2, <2>3, ParamScore
    <3>2. /\ v.score \in 0..3 /\ v.perfect \in 0..1 /\ v.depth \in Nat
          /\ v.score # 0
      BY <2>2, <2>3, ParamScore
    <3> QED BY <3>1, <3>2
  <2>5. /\ u.score >= v.score
        /\ u.score = v.score => /\ u.perfect = v.perfect /\ u.depth >= v.depth
                                /\ p # q => u.depth > v.depth
    BY <2>2, <2>3, ParamOrder
  <2>6. s[i + 1] = Sum2(s[i], u) /\ t[i + 1] = Sum2(t[i], v)
    BY <2>1, <2>2, <2>3 DEF Totals, ParamScoreOf
  <2>7. PICK a \in Nat \ {0}, b \in Nat, c \in Nat : a = s[i].score /\ b = s[i].perfect /\ c = s[i].depth
    BY <1>0, <2>1
  <2>8. PICK x \in Nat \ {0}, y \in Nat, z \in Nat : x = t[i].score /\ y = t[i].perfect /\ z = t[i].depth
    BY <1>0, <2>1
  <2>9. s[i + 1].score = a * u.score /\ s[i + 1].perfect = b + u.perfect /\ s[i + 1].depth = c + u.depth
    BY <2>6, <2>7 DEF Sum2
  <2>10. t[i + 1].score = x * v.score /\ t[i + 1].perfect = y + v.perfect /\ t[i + 1].depth = z + v.depth
    BY <2>6, <2>8 DEF Sum2
  <2>11. a >= x
    BY <2>1, <2>7, <2>8
  <2>12. a * u.score >= x * v.score /\ (a * u.score = x * v.score => a = x /\ u.score = v.score)
    <3>1. u.score = 1 \/ u.score = 2 \/ u.score = 3
      BY <2>4
    <3>2. v.score = 1 \/ v.score = 2 \/ v.score = 3
      BY <2>4
    <3> QED BY <2>5, <2>11, <3>1, <3>2
  <2>13. ASSUME a = x, u.score = v.score
         PROVE  /\ b + u.perfect = y + v.perfect /\ c + u.depth >= z + v.depth
                /\ (\E k \in 1..(i + 1) : f.params[k] # h.params[k]) => c + u.depth > z + v.depth
    <3>1. /\ b = y /\ c >= z
          /\ (\E k \in 1..i : f.params[k] # h.params[k]) => c > z
      BY <2>1, <2>7, <2>8, <2>13
    <3>2. \A k \in 1..(i + 1) : k \in 1..i \/ k = i + 1
      OBVIOUS
    <3>3. (\E k \in 1..(i + 1) : f.params[k] # h.params[k])
             => (\E k \in 1..i : f.params[k] # h.params[k]) \/ p # q
      BY <2>2, <3>2
    <3> QED BY <2>4, <2>5, <2>13, <3>1, <3>3
  <2> QED BY <2>9, <2>10, <2>12, <2>13
<1> HIDE DEF Is
<1>3. \A i \in Nat : i \in S => i + 1 \in S
  BY <1>2
<1> HIDE DEF S
<1>4. Nat \subseteq S
  BY <1>1, <1>3, SetInduction
<1>5. \A n \in 0..Len(args) : Is(n)
  BY <1>4, FitsParts DEF S
<1> QED
  BY <1>5 DEF Is

-----------------------------------------------------------------------------
(* A number is greatest in every nonempty part of a table of numbers.       *)
LEMMA GreatestExists ==
    ASSUME NEW m \in Nat, NEW h \in [1..m -> Nat], NEW T \in SUBSET (1..m), T # {}
    PROVE  \E x \in T : \A y \in T : h[x] >= h[y]
<1> DEFINE Is(n) == \A U \in SUBSET (1..n) : U # {} => \E x \in U : \A y \in U : h[x] >= h[y]
           S == {n \in Nat : n <= m => Is(n)}
<1>1. 0 \in S
  <2>1. 1..0 = {}
    OBVIOUS
  <2>2. Is(0)
    BY <2>1
  <2> HIDE DEF Is
  <2> QED BY <2>2
<1>2. ASSUME NEW n \in Nat, n \in S, n + 1 <= m PROVE Is(n + 1)
  <2> SUFFICES ASSUME NEW U \in SUBSET (1..(n + 1)), U # {}
               PROVE  \E x \in U : \A y \in U : h[x] >= h[y]
    OBVIOUS
  <2>1. \A y \in U : y \in 1..m /\ h[y] \in Nat
    BY <1>2
  <2>2. CASE U \subseteq 1..n
    BY <1>2, <2>2
  <2>3. CASE U = {n + 1}
    <3>1. n + 1 \in U /\ h[n + 1] \in Nat
      BY <2>1, <2>3
    <3> QED BY <2>3, <3>1
  <2>4. CASE n + 1 \in U /\ U # {n + 1}
    <3>1. U \ {n + 1} \in SUBSET (1..n) /\ U \ {n + 1} # {}
      <4>1. \A y \in U : y # n + 1 => y \in 1..n
        OBVIOUS
      <4> QED BY <2>4, <4>1
    <3>2. PICK x \in U \ {n + 1} : \A y \in U \ {n + 1} : h[x] >= h[y]
      <4>1. PICK V : V = U \ {n + 1}
        OBVIOUS
      <4>2. V \in SUBSET (1..n) /\ V # {}
        BY <3>1, <4>1
      <4>3. Is(n)
        BY <1>2
      <4>4. \E x \in V : \A y \in V : h[x] >= h[y]
        BY <4>2, <4>3
      <4> QED BY <4>1, <4>4
    <3>3. CASE h[x] >= h[n + 1]
      BY <3>2, <3>3
    <3>4. CASE ~ (h[x] >= h[n + 1])
      <4>1. h[n + 1] > h[x] /\ h[n + 1] \in Nat /\ h[x] \in Nat
        BY <2>1, <2>4, <3>2, <3>4
      <4>2. \A y \in U : h[n + 1] >= h[y]
        <5> SUFFICES ASSUME NEW y \in U PROVE h[n + 1] >= h[y]
          OBVIOUS
        <5>1. CASE y = n + 1
          BY <4>1, <5>1
        <5>2. CASE y # n + 1
          BY <2>1, <3>2, <4>1, <5>2
        <5> QED BY <5>1, <5>2
      <4> QED BY <2>4, <4>2
    <3> QED BY <3>3, <3>4
  <2>5. n + 1 \notin U => U \subseteq 1..n
    OBVIOUS
  <2> QED BY <2>2, <2>3, <2>4, <2>5
<1> HIDE DEF Is
<1>3. \A n \in Nat : n \in S => n + 1 \in S
  BY <1>2
<1> HIDE DEF S
<1>4. Nat \subseteq S
  BY <1>1, <1>3, SetInduction
<1>5. Is(m)
  BY <1>4 DEF S
<1> QED
  BY <1>5 DEF Is

(* The three rounds, over the numbers of the functions.                     *)
TotalOf(table, args, i) == get_overloaded_function_score(table[i], args)
Sized(table, name, args) ==
    {i \in 1..Len(table) : table[i].name = name /\ Len(table[i].params) = Len(args)}
First(table, name, args) ==
    {i \in Sized(table, name, args) :
        /\ TotalOf(table, args, i).score # 0
        /\ \A j \in Sized(table, name, args) :
              TotalOf(table, args, i).score >= TotalOf(table, args, j).score}
Second(table, name, args) ==
    {i \in First(table, name, args) :
        \A j \in First(table, name, args) :
           TotalOf(table, args, i).perfect >= TotalOf(table, args, j).perfect}
Third(table, name, args) ==
    {i \in Second(table, name, args) :
        \A j \in Second(table, name, args) :
           TotalOf(table, args, i).depth >= TotalOf(table, args, j).depth}

(* Resolution is narrowing twice.                                           *)
LEMMA ResolvedIs ==
    ASSUME NEW table, NEW name, NEW args
    PROVE  resolve_func(table, name, args) = Third(table, name, args)
<1> DEFINE Tot(i) == TotalOf(table, args, i)
           Cand(i) == [func |-> i, total |-> Tot(i)]
           sized == Sized(table, name, args)
           first == First(table, name, args)
           second == Second(table, name, args)
           scores == {Cand(i) : i \in sized}
<1>1. generate_first_overload_set(table, name, args)
        = {c \in scores : c.total.score # 0 /\ \A d \in scores : c.total.score >= d.total.score}
  BY DEF generate_first_overload_set, Sized, TotalOf
<1>2. \A i : Cand(i).func = i /\ Cand(i).total = Tot(i)
  OBVIOUS
<1> HIDE DEF Tot
<1>3. {c \in scores : c.total.score # 0 /\ \A d \in scores : c.total.score >= d.total.score}
        = {Cand(i) : i \in first}
  <2>1. first = {i \in sized : Tot(i).score # 0 /\ \A j \in sized : Tot(i).score >= Tot(j).score}
    BY DEF First, Tot
  <2> HIDE DEF Cand, sized, first
  <2> QED BY <1>2, <2>1
<1>4. narrow_down_by_perfect({Cand(i) : i \in first}) = {Cand(i) : i \in second}
  <2>1. second = {i \in first : \A j \in first : Tot(i).perfect >= Tot(j).perfect}
    BY DEF Second, Tot
  <2> HIDE DEF Cand, first, second
  <2> QED BY <1>2, <2>1 DEF narrow_down_by_perfect
<1>5. narrow_down_by_depth({Cand(i) : i \in second}) = {Cand(i) : i \in Third(table, name, args)}
  <2>1. Third(table, name, args) = {i \in second : \A j \in second : Tot(i).depth >= Tot(j).depth}
    BY DEF Third, Tot
  <2> HIDE DEF Cand, second
  <2> QED BY <1>2, <2>1 DEF narrow_down_by_depth
<1>6. generate_overload_set(table, name, args) = {c.func : c \in {Cand(i) : i \in Third(table, name, args)}}
  <2> HIDE DEF Cand, scores, first, second
  <2> QED BY <1>1, <1>3, <1>4, <1>5 DEF generate_overload_set
<1>7. {c.func : c \in {Cand(i) : i \in Third(table, name, args)}} = Third(table, name, args)
  <2> HIDE DEF Cand
  <2> QED BY <1>2
<1> QED
  BY <1>6, <1>7 DEF resolve_func

(* A function with as many parameters has a score that is not zero exactly  *)
(* if it accepts the arguments.                                             *)
LEMMA SizedParts ==
    ASSUME NEW B, NEW table, NEW name, NEW args, NEW i \in Sized(table, name, args),
           Fits(B, table[i], args)
    PROVE  /\ TotalOf(table, args, i).score \in Nat
           /\ TotalOf(table, args, i).perfect \in Nat
           /\ TotalOf(table, args, i).depth \in Nat
           /\ TotalOf(table, args, i).score # 0 <=> Accepts(table[i], name, args)
<1>1. Len(args) \in Nat
  BY FitsParts
<1>2. PICK g : Totals(table[i], args, g) /\ TotalOf(table, args, i) = g[Len(args)]
  BY <1>1, TotalIs DEF TotalOf
<1>3. PICK n \in 0..Len(args) : n = Len(args)
  BY <1>1
<1>4. /\ g[n].score \in Nat /\ g[n].perfect \in Nat /\ g[n].depth \in Nat
      /\ g[n].score # 0 <=> \A k \in 1..n : Takes(table[i].params[k], args[k])
  BY <1>2, TotalsAccept
<1>5. table[i].name = name /\ Len(table[i].params) = Len(args)
  BY DEF Sized
<1> QED
  BY <1>2, <1>3, <1>4, <1>5 DEF Accepts

(* A more specific function that accepts the arguments scores higher, or    *)
(* the same with a greater depth.                                           *)
LEMMA SpecificWins ==
    ASSUME NEW B, NEW table, NEW name, NEW args,
           NEW i \in Sized(table, name, args), NEW j \in Sized(table, name, args),
           Fits(B, table[i], args), Fits(B, table[j], args),
           Accepts(table[i], name, args), Accepts(table[j], name, args),
           MoreSpecific(table[j], table[i])
    PROVE  /\ TotalOf(table, args, j).score >= TotalOf(table, args, i).score
           /\ TotalOf(table, args, j).score = TotalOf(table, args, i).score =>
                /\ TotalOf(table, args, j).perfect = TotalOf(table, args, i).perfect
                /\ TotalOf(table, args, j).depth > TotalOf(table, args, i).depth
<1>1. Len(args) \in Nat
  BY FitsParts
<1>2. PICK f, h : f = table[j] /\ h = table[i]
  OBVIOUS
<1>3. PICK s : Totals(f, args, s) /\ TotalOf(table, args, j) = s[Len(args)]
  BY <1>1, <1>2, TotalIs DEF TotalOf
<1>4. PICK t : Totals(h, args, t) /\ TotalOf(table, args, i) = t[Len(args)]
  BY <1>1, <1>2, TotalIs DEF TotalOf
<1>5. /\ Fits(B, f, args) /\ Fits(B, h, args)
      /\ \A k \in 1..Len(args) : Takes(f.params[k], args[k]) /\ Takes(h.params[k], args[k])
      /\ \A k \in 1..Len(args) : f.params[k] = h.params[k] \/ ParamBelow(f.params[k], h.params[k])
      /\ f.params # h.params
  BY <1>2 DEF Accepts, MoreSpecific
<1>6. PICK n \in 0..Len(args) : n = Len(args)
  BY <1>1
<1>7. \E k \in 1..n : f.params[k] # h.params[k]
  <2>1. PICK T : T = TypeOver(B)
    OBVIOUS
  <2>2. f.params \in Seq(T) /\ h.params \in Seq(T) /\ Len(f.params) = n /\ Len(h.params) = n
    BY <1>5, <1>6, <2>1 DEF Fits
  <2> SUFFICES ASSUME \A k \in 1..n : f.params[k] = h.params[k] PROVE FALSE
    OBVIOUS
  <2>3. f.params = h.params
    BY <2>2, SeqEqual
  <2> QED BY <1>5, <2>3
<1>8. /\ s[n].score >= t[n].score
      /\ s[n].score = t[n].score =>
            /\ s[n].perfect = t[n].perfect /\ s[n].depth >= t[n].depth
            /\ (\E k \in 1..n : f.params[k] # h.params[k]) => s[n].depth > t[n].depth
  BY <1>3, <1>4, <1>5, TotalsOrder
<1> QED
  BY <1>3, <1>4, <1>6, <1>7, <1>8

(* For every table of functions, whatever its order: a call finds a         *)
(* function exactly when one accepts its arguments, only functions that do, *)
(* and none of them if a more specific one does too (scope.cpp:187).        *)
THEOREM CallSelectsMostSpecific ==
    ASSUME NEW B, NEW table, Len(table) \in Nat, NEW name, NEW args \in Seq(TypeOver(B)),
           \A n \in 1..Len(args) : ~ is_template(args[n]),
           \A i \in 1..Len(table) : table[i].params \in Seq(TypeOver(B))
    PROVE  Selects(table, name, args)
<1> DEFINE sized == Sized(table, name, args)
           first == First(table, name, args)
           second == Second(table, name, args)
           third == Third(table, name, args)
           Tot(i) == TotalOf(table, args, i)
           OK(i) == Accepts(table[i], name, args)
<1>1. \A i \in sized : i \in 1..Len(table) /\ Fits(B, table[i], args)
  BY DEF Sized, Fits
<1>2. \A i \in sized : /\ Tot(i).score \in Nat /\ Tot(i).perfect \in Nat /\ Tot(i).depth \in Nat
                       /\ Tot(i).score # 0 <=> OK(i)
  BY <1>1, SizedParts
<1>3. \A i \in 1..Len(table) : OK(i) => i \in sized
  BY DEF Accepts, Sized
<1>4. ASSUME NEW i \in sized, NEW j \in sized, OK(i), OK(j), MoreSpecific(table[j], table[i])
      PROVE  /\ Tot(j).score >= Tot(i).score
             /\ Tot(j).score = Tot(i).score => Tot(j).perfect = Tot(i).perfect /\ Tot(j).depth > Tot(i).depth
  BY <1>1, <1>4, SpecificWins
<1>5. first = {i \in sized : Tot(i).score # 0 /\ \A j \in sized : Tot(i).score >= Tot(j).score}
  BY DEF First
<1>6. second = {i \in first : \A j \in first : Tot(i).perfect >= Tot(j).perfect}
  BY DEF Second
<1>7. third = {i \in second : \A j \in second : Tot(i).depth >= Tot(j).depth}
  BY DEF Third
<1> HIDE DEF sized, first, second, third, Tot, OK
<1>8. third \subseteq {i \in 1..Len(table) : OK(i)}
  BY <1>1, <1>2, <1>5, <1>6, <1>7
<1>9. ASSUME NEW a \in 1..Len(table), OK(a) PROVE third # {}
  <2> DEFINE S(i) == IF i \in sized THEN Tot(i).score ELSE 0
             P(i) == IF i \in sized THEN Tot(i).perfect ELSE 0
             D(i) == IF i \in sized THEN Tot(i).depth ELSE 0
             s == [i \in 1..Len(table) |-> S(i)]
             p == [i \in 1..Len(table) |-> P(i)]
             d == [i \in 1..Len(table) |-> D(i)]
  <2>1. \A i \in sized : s[i] = Tot(i).score /\ p[i] = Tot(i).perfect /\ d[i] = Tot(i).depth
    BY <1>1
  <2>2. /\ s \in [1..Len(table) -> Nat] /\ p \in [1..Len(table) -> Nat]
        /\ d \in [1..Len(table) -> Nat]
    BY <1>2
  <2> HIDE DEF s, p, d
  <2>3. a \in sized /\ sized \in SUBSET (1..Len(table))
    BY <1>1, <1>3, <1>9
  <2>4. PICK x \in sized : \A y \in sized : s[x] >= s[y]
    BY <2>2, <2>3, GreatestExists
  <2>5. x \in first
    BY <1>2, <1>5, <1>9, <2>1, <2>3, <2>4
  <2>6. first \in SUBSET (1..Len(table)) /\ first \subseteq sized /\ first # {}
    BY <1>5, <2>3, <2>5
  <2>7. PICK y \in first : \A z \in first : p[y] >= p[z]
    BY <2>2, <2>6, GreatestExists
  <2>8. y \in second
    BY <1>6, <2>1, <2>6, <2>7
  <2>9. second \in SUBSET (1..Len(table)) /\ second \subseteq sized /\ second # {}
    BY <1>6, <2>6, <2>8
  <2>10. PICK z \in second : \A w \in second : d[z] >= d[w]
    BY <2>2, <2>9, GreatestExists
  <2> QED BY <1>7, <2>1, <2>9, <2>10
<1>10. ASSUME NEW i \in third, NEW j \in 1..Len(table), OK(j), MoreSpecific(table[j], table[i])
       PROVE  FALSE
  <2>1. i \in first /\ i \in second /\ i \in sized /\ j \in sized /\ OK(i)
    BY <1>2, <1>3, <1>5, <1>6, <1>7, <1>10
  <2>2. /\ Tot(j).score >= Tot(i).score
        /\ Tot(j).score = Tot(i).score => Tot(j).perfect = Tot(i).perfect /\ Tot(j).depth > Tot(i).depth
    BY <1>4, <1>10, <2>1
  <2>3. Tot(i).score >= Tot(j).score /\ Tot(i).score \in Nat /\ Tot(j).score \in Nat
    BY <1>2, <1>5, <2>1
  <2>4. Tot(j).score = Tot(i).score
    BY <2>2, <2>3
  <2>5. j \in first
    BY <1>5, <2>1, <2>4
  <2>6. j \in second
    BY <1>6, <2>1, <2>2, <2>4, <2>5
  <2>7. Tot(i).depth >= Tot(j).depth /\ Tot(i).depth \in Nat /\ Tot(j).depth \in Nat
    BY <1>2, <1>7, <2>1, <2>6
  <2> QED BY <2>2, <2>4, <2>7
<1>11. resolve_func(table, name, args) = third
  BY ResolvedIs DEF third
<1> QED
  BY <1>8, <1>9, <1>10, <1>11 DEF Selects, OK

-----------------------------------------------------------------------------
(* The analysis. *)

Distinct(fs, seen) ==
    /\ \A n \in 1..Len(fs) : fs[n].func \in seen
    /\ \A m, n \in 1..Len(fs) : fs[m].func = fs[n].func => m = n

StackInv ==
    /\ \E S : functions \in Seq(S)
    /\ walked \in Nat /\ failed \in Nat
    /\ frames \in Seq(FrameSet)
    /\ Distinct(frames, visited)

TableInv ==
    /\ \E S : functions \in Seq(S)
    /\ \E S : ret_type \in Seq(S)
    /\ Len(ret_type) = Len(functions)

(* Appending to a sequence of anything.                                     *)
LEMMA AppendSeq ==
    ASSUME NEW S, NEW s \in Seq(S), NEW x
    PROVE  /\ Append(s, x) \in Seq(S \cup {x})
           /\ Len(Append(s, x)) = Len(s) + 1
           /\ \A i \in 1..Len(s) : Append(s, x)[i] = s[i]
<1>1. s \in Seq(S \cup {x})
  OBVIOUS
<1>2. QED
  BY <1>1

(* What overload resolution returns are indices into the table.             *)
LEMMA ResolvedInTable ==
    ASSUME NEW fs, NEW name, NEW args
    PROVE  resolve_func(fs, name, args) \subseteq 1..Len(fs)
<1> SUFFICES ASSUME NEW i \in resolve_func(fs, name, args) PROVE i \in 1..Len(fs)
  OBVIOUS
<1> DEFINE first == generate_first_overload_set(fs, name, args)
<1>1. PICK c \in first : i = c.func
  BY DEF resolve_func, generate_overload_set, narrow_down_by_perfect, narrow_down_by_depth
<1>2. PICK j \in 1..Len(fs) : c = [func |-> j, total |-> get_overloaded_function_score(fs[j], args)]
  BY <1>1 DEF generate_first_overload_set
<1>3. QED
  BY <1>1, <1>2

(* The frames a step leaves below a push: the same functions, in the same   *)
(* order.                                                                   *)
LEMMA ReplaceTop ==
    ASSUME frames \in Seq(FrameSet), frames # <<>>,
           NEW frame \in FrameSet, frame.func = Top.func
    PROVE  /\ Replaced(frame) \in Seq(FrameSet)
           /\ Len(Replaced(frame)) = Len(frames)
           /\ \A n \in 1..Len(frames) : Replaced(frame)[n].func = frames[n].func
<1> HIDE DEF FrameSet
<1>1. PICK k \in Nat : k = Len(frames) /\ k > 0
  OBVIOUS
<1>2. /\ Front(frames) \in Seq(FrameSet) /\ Len(Front(frames)) = k - 1
      /\ \A n \in 1..(k - 1) : Front(frames)[n] = frames[n]
  BY <1>1 DEF Front
<1>3. QED
  BY <1>1, <1>2 DEF Replaced, Top, Last

(* The top of the stack is a frame, and is one after it changes its stage.  *)
LEMMA TopIsFrame ==
    ASSUME frames \in Seq(FrameSet), frames # <<>>, NEW stage \in Stages
    PROVE  /\ Top \in FrameSet
           /\ To(stage) \in FrameSet /\ To(stage).func = Top.func
<1>1. Top \in FrameSet
  <2> HIDE DEF FrameSet
  <2> QED BY DEF Top, Last
<1>2. QED
  BY <1>1 DEF FrameSet, To

(* The step from one statement to the next.                                 *)
LEMMA AdvanceKeeps ==
    ASSUME frames \in Seq(FrameSet), frames # <<>>, NEW seen, Distinct(frames, seen)
    PROVE  Advanced \in Seq(FrameSet) /\ Distinct(Advanced, seen)
<1>1. Top \in FrameSet /\ To("stmt") \in FrameSet /\ To("stmt").func = Top.func
  BY TopIsFrame DEF Stages
<1> DEFINE frame == [To("stmt") EXCEPT !.pc = Top.pc + 1]
<1>2. frame \in FrameSet /\ frame.func = Top.func
  <2>1. PICK n \in Nat : n = Top.pc + 1
    BY <1>1 DEF FrameSet
  <2>2. frame = [To("stmt") EXCEPT !.pc = n]
    BY <2>1
  <2> HIDE DEF frame
  <2>3. QED
    BY <1>1, <2>2 DEF FrameSet
<1> HIDE DEF frame
<1>3. /\ Replaced(frame) \in Seq(FrameSet) /\ Len(Replaced(frame)) = Len(frames)
      /\ \A n \in 1..Len(frames) : Replaced(frame)[n].func = frames[n].func
  BY <1>2, ReplaceTop
<1>4. Distinct(Replaced(frame), seen)
  BY <1>3 DEF Distinct
<1>5. QED
  BY <1>3, <1>4 DEF Advanced, frame

(* visit(function_definition) on frames that are distinct keeps them so.    *)
LEMMA VisitDistinct ==
    ASSUME StackInv, NEW f \in Nat, NEW fs \in Seq(FrameSet), Distinct(fs, visited), Visit(f, fs)
    PROVE  /\ frames' \in Seq(FrameSet) /\ failed' \in Nat
           /\ Distinct(frames', visited')
<1>1. CASE VisitBody(f, fs)
  <2>1. Frame(f) \in FrameSet /\ Frame(f).func = f
    BY DEF Frame, FrameSet, Stages
  <2>2. f \notin visited /\ visited' = visited \cup {f} /\ frames' = Append(fs, Frame(f)) /\ failed' = failed
    BY <1>1 DEF VisitBody
  <2>3. PICK k \in Nat : k = Len(fs)
    OBVIOUS
  <2>4. /\ frames' \in Seq(FrameSet) /\ Len(frames') = k + 1
        /\ \A n \in 1..k : frames'[n] = fs[n]
        /\ frames'[k + 1] = Frame(f)
    <3> HIDE DEF FrameSet
    <3> QED BY <2>1, <2>2, <2>3
  <2>5. Distinct(frames', visited')
    BY <2>1, <2>2, <2>3, <2>4 DEF Distinct
  <2>6. QED
    BY <2>2, <2>4, <2>5 DEF StackInv
<1>2. CASE VisitNothing(f, fs) \/ VisitQueryProc(f, fs)
  <2>1. frames' = fs /\ visited' = visited \cup {f} /\ (failed' = failed \/ failed' = failed + 1)
    BY <1>2 DEF VisitNothing, VisitQueryProc
  <2>2. QED
    BY <2>1 DEF Distinct, StackInv
<1>3. CASE VisitAgain(f, fs)
  <2>1. frames' = fs /\ visited' = visited /\ (failed' = failed \/ failed' = failed + 1)
    BY <1>3 DEF VisitAgain
  <2>2. QED
    BY <2>1 DEF Distinct, StackInv
<1>4. QED
  BY <1>1, <1>2, <1>3 DEF Visit

(* The frames a call leaves its caller in.                                  *)
LEMMA StageKeeps ==
    ASSUME frames \in Seq(FrameSet), frames # <<>>, Distinct(frames, visited),
           NEW stage \in Stages, NEW target \in Nat, NEW saved \in Nat
    PROVE  /\ Replaced(To(stage)) \in Seq(FrameSet) /\ Distinct(Replaced(To(stage)), visited)
           /\ LET t == Replaced([To(stage) EXCEPT !.target = target])
              IN  t \in Seq(FrameSet) /\ Distinct(t, visited)
           /\ LET t == Replaced([To(stage) EXCEPT !.saved = saved])
              IN  t \in Seq(FrameSet) /\ Distinct(t, visited)
<1>1. To(stage) \in FrameSet /\ To(stage).func = Top.func
  BY TopIsFrame
<1>2. ASSUME NEW frame \in FrameSet, frame.func = Top.func
      PROVE  Replaced(frame) \in Seq(FrameSet) /\ Distinct(Replaced(frame), visited)
  <2>1. /\ Replaced(frame) \in Seq(FrameSet) /\ Len(Replaced(frame)) = Len(frames)
        /\ \A n \in 1..Len(frames) : Replaced(frame)[n].func = frames[n].func
    BY <1>2, ReplaceTop
  <2>2. QED
    BY <2>1 DEF Distinct
<1>3. /\ [To(stage) EXCEPT !.target = target] \in FrameSet
      /\ [To(stage) EXCEPT !.target = target].func = Top.func
  BY <1>1 DEF FrameSet
<1>4. /\ [To(stage) EXCEPT !.saved = saved] \in FrameSet
      /\ [To(stage) EXCEPT !.saved = saved].func = Top.func
  BY <1>1 DEF FrameSet
<1>5. QED
  BY <1>1, <1>2, <1>3, <1>4

(* StackInv is an invariant.                                                *)
LEMMA InitStack == Init => StackInv
<1> SUFFICES ASSUME Init PROVE StackInv
  OBVIOUS
<1>1. functions \in Seq(FuncDef)
  BY ProgramsAssumption, Zenon DEF Init
<1>2. frames = <<>> /\ walked = 0 /\ failed = 0
  BY DEF Init
<1>3. frames \in Seq(FrameSet) /\ Len(frames) = 0
  <2> HIDE DEF FrameSet
  <2> QED BY <1>2
<1>4. QED
  BY <1>1, <1>2, <1>3 DEF StackInv, Distinct

(* A step keeps the frames of different functions.                          *)
LEMMA StepStack == StackInv /\ [Next]_vars => StackInv'
<1> SUFFICES ASSUME StackInv, [Next]_vars PROVE StackInv'
  OBVIOUS
<1>a. /\ frames \in Seq(FrameSet) /\ Distinct(frames, visited)
      /\ walked \in Nat /\ failed \in Nat
  BY DEF StackInv
<1>b. PICK S : functions \in Seq(S)
  BY DEF StackInv
<1>c. Found \subseteq Nat
  BY <1>b, ResolvedInTable DEF Found
<1>d. frames # <<>> => Top.target \in Nat
  BY <1>a, TopIsFrame DEF FrameSet, Stages
<1>1. CASE WalkNext
  <2>1. Distinct(<<>>, visited) /\ <<>> \in Seq(FrameSet) /\ walked + 1 \in Nat
    <3> HIDE DEF FrameSet
    <3> QED BY <1>a DEF Distinct
  <2>2. walked' \in Nat /\ functions' = functions /\ Visit(walked + 1, <<>>)
    BY <1>1, <1>a DEF WalkNext
  <2>3. frames' \in Seq(FrameSet) /\ failed' \in Nat /\ Distinct(frames', visited')
    BY <2>1, <2>2, VisitDistinct
  <2>4. QED
    BY <1>b, <2>2, <2>3 DEF StackInv
<1>2. CASE Value \/ CallUnresolved \/ CallFails \/ CallReturns
  <2>1. /\ frames # <<>> /\ frames' = Advanced /\ visited' = visited /\ walked' = walked
        /\ functions' = functions /\ (failed' = failed \/ failed' = failed + 1)
    BY <1>2 DEF Value, CallUnresolved, CallFails, CallReturns, At
  <2>2. frames' \in Seq(FrameSet) /\ Distinct(frames', visited')
    BY <1>a, <2>1, AdvanceKeeps
  <2>3. QED
    BY <1>a, <1>b, <2>1, <2>2 DEF StackInv
<1>3. CASE CallResolved
  <2>1. PICK f \in Found : frames' = Replaced([To("resolved") EXCEPT !.target = f])
    BY <1>3 DEF CallResolved
  <2>2. /\ frames # <<>> /\ visited' = visited /\ walked' = walked
        /\ functions' = functions /\ failed' = failed
    BY <1>3 DEF CallResolved, At
  <2>3. frames' \in Seq(FrameSet) /\ Distinct(frames', visited')
    BY <1>a, <1>c, <2>1, <2>2, StageKeeps DEF Stages
  <2>4. QED
    BY <1>a, <1>b, <2>2, <2>3 DEF StackInv
<1>4. CASE Instantiate
  <2>1. PICK f \in Found :
            /\ functions' = Append(functions, [functions[f] EXCEPT !.params = ArgTypes])
            /\ frames' = Replaced([To("instance") EXCEPT !.target = Len(functions) + 1])
    BY <1>4 DEF Instantiate
  <2>2. frames # <<>> /\ visited' = visited /\ walked' = walked /\ failed' = failed
    BY <1>4 DEF Instantiate, At
  <2>3. Len(functions) + 1 \in Nat
    BY <1>b
  <2>4. frames' \in Seq(FrameSet) /\ Distinct(frames', visited')
    BY <1>a, <2>1, <2>2, <2>3, StageKeeps DEF Stages
  <2>5. \E U : functions' \in Seq(U)
    BY <1>b, <2>1, AppendSeq
  <2>6. QED
    BY <1>a, <2>2, <2>4, <2>5 DEF StackInv
<1>5. CASE WalkInstance
  <2>1. /\ frames # <<>> /\ walked' = walked /\ functions' = functions
        /\ Visit(Top.target, Replaced(To("resolved")))
    BY <1>5 DEF WalkInstance, At
  <2>2. Replaced(To("resolved")) \in Seq(FrameSet) /\ Distinct(Replaced(To("resolved")), visited)
    BY <1>a, <2>1, StageKeeps DEF Stages
  <2>3. frames' \in Seq(FrameSet) /\ failed' \in Nat /\ Distinct(frames', visited')
    BY <1>d, <2>1, <2>2, VisitDistinct
  <2>4. QED
    BY <1>a, <1>b, <2>1, <2>3 DEF StackInv
<1>6. CASE WalkCallee
  <2> DEFINE fs == Replaced([To("walked") EXCEPT !.saved = failed])
  <2>1. /\ frames # <<>> /\ walked' = walked /\ functions' = functions /\ Visit(Top.target, fs)
    BY <1>6 DEF WalkCallee, At
  <2>2. fs \in Seq(FrameSet) /\ Distinct(fs, visited)
    BY <1>a, <2>1, StageKeeps DEF Stages
  <2> HIDE DEF fs
  <2>3. frames' \in Seq(FrameSet) /\ failed' \in Nat /\ Distinct(frames', visited')
    BY <1>d, <2>1, <2>2, VisitDistinct
  <2>4. QED
    BY <1>a, <1>b, <2>1, <2>3 DEF StackInv
<1>7. CASE Leave
  <2>1. /\ frames # <<>> /\ frames' = Front(frames) /\ visited' = visited /\ walked' = walked
        /\ functions' = functions /\ (failed' = failed \/ failed' = failed + 1)
    BY <1>7 DEF Leave
  <2>2. PICK k \in Nat : k = Len(frames) /\ k > 0
    <3> HIDE DEF FrameSet
    <3> QED BY <1>a, <2>1
  <2>3. /\ frames' \in Seq(FrameSet) /\ Len(frames') = k - 1
        /\ \A n \in 1..(k - 1) : frames'[n] = frames[n]
    <3> HIDE DEF FrameSet
    <3> QED BY <1>a, <2>1, <2>2 DEF Front
  <2>4. Distinct(frames', visited')
    BY <1>a, <2>1, <2>2, <2>3 DEF Distinct
  <2>5. QED
    BY <1>a, <1>b, <2>1, <2>3, <2>4 DEF StackInv
<1>8. CASE Finish \/ Done \/ UNCHANGED vars
  <2>1. /\ frames' = frames /\ visited' = visited /\ walked' = walked
        /\ functions' = functions /\ (failed' = failed \/ failed' = failed + 1)
    BY <1>8 DEF Finish, Done, vars
  <2>2. QED
    BY <1>a, <1>b, <2>1 DEF StackInv
<1>9. QED
  BY <1>1, <1>2, <1>3, <1>4, <1>5, <1>6, <1>7, <1>8 DEF Next, Step

(* The walk never enters a function that it is already in, for every        *)
(* program: a body is entered only by the visit that puts the function into *)
(* already_visited_functions.                                               *)
THEOREM WalkNeverReenters == Spec => []NeverReentered
<1>1. StackInv => NeverReentered
  BY DEF StackInv, Distinct, NeverReentered
<1>2. QED
  BY <1>1, InitStack, StepStack, PTL DEF Spec

-----------------------------------------------------------------------------
(* The four things a step does to the return types: nothing, setting one    *)
(* that was not known, narrowing one at the end of its body, or making      *)
(* room for an instance.                                                    *)
Kept == ret_type' = ret_type /\ functions' = functions
Set == \E f, t : /\ ret_type' = [ret_type EXCEPT ![f] = t] /\ functions' = functions
                 /\ \/ ret_type[f] = NoType
                    \/ t = ret_type[f]
                    \/ is_instantiated_from(t, ret_type[f])
Extended == \E t, d : ret_type' = Append(ret_type, t) /\ functions' = Append(functions, d)

(* A visit leaves the table of return types alone or sets one entry.        *)
LEMMA VisitShape ==
    ASSUME NEW f, NEW fs, Visit(f, fs), functions' = functions
    PROVE  Kept \/ Set
<1>1. CASE VisitBody(f, fs) \/ VisitNothing(f, fs) \/ VisitQueryProc(f, fs)
  BY <1>1 DEF VisitBody, VisitNothing, VisitQueryProc, Kept
<1>2. CASE VisitAgain(f, fs)
  <2>1. ret_type[f] = NoType
    BY <1>2 DEF VisitAgain
  <2>2. ret_type' = ret_type \/ \E t : ret_type' = [ret_type EXCEPT ![f] = t]
    BY <1>2 DEF VisitAgain
  <2>3. QED
    BY <2>1, <2>2 DEF Kept, Set
<1>3. QED
  BY <1>1, <1>2 DEF Visit

(* Leave compares what it deduced with what was known before.               *)
LEMMA LeaveShape == Leave => Kept \/ Set
<1> SUFFICES ASSUME Leave PROVE Kept \/ Set
  OBVIOUS
<1>1. functions' = functions
  BY DEF Leave
<1>2. CASE NotDeducible(Top.func)
  BY <1>1, <1>2 DEF Leave, Kept
<1>3. CASE ~ NotDeducible(Top.func)
  <2> DEFINE f == Top.func
             t == Deduced(f)
  <2>1. ret_type' = [ret_type EXCEPT ![f] = t]
    BY <1>3 DEF Leave
  <2>2. ret_type[f] = NoType \/ t = ret_type[f] \/ is_instantiated_from(t, ret_type[f])
    BY <1>3 DEF NotDeducible
  <2>3. QED
    BY <1>1, <2>1, <2>2 DEF Set
<1>4. QED
  BY <1>2, <1>3

(* So does every step, except that an instance adds an entry.               *)
LEMMA StepShape == [Next]_vars => Kept \/ Set \/ Extended
<1> SUFFICES ASSUME [Next]_vars PROVE Kept \/ Set \/ Extended
  OBVIOUS
<1>1. CASE WalkNext \/ WalkInstance \/ WalkCallee
  <2>1. functions' = functions /\ \E f, fs : Visit(f, fs)
    BY <1>1 DEF WalkNext, WalkInstance, WalkCallee
  <2>2. QED
    BY <2>1, VisitShape
<1>2. CASE Instantiate
  BY <1>2 DEF Instantiate, Extended
<1>3. CASE Leave
  BY <1>3, LeaveShape
<1>4. CASE \/ Value \/ CallUnresolved \/ CallResolved \/ CallFails \/ CallReturns
           \/ Finish \/ Done \/ UNCHANGED vars
  BY <1>4 DEF Value, CallUnresolved, CallResolved, CallFails, CallReturns, Finish, Done, vars, Kept
<1>5. QED
  BY <1>1, <1>2, <1>3, <1>4 DEF Next, Step

(* TableInv holds at the start.                                             *)
LEMMA InitTable == Init => TableInv
<1> SUFFICES ASSUME Init PROVE TableInv
  OBVIOUS
<1>1. functions \in Seq(FuncDef)
  BY ProgramsAssumption, Zenon DEF Init
<1>2. PICK n \in Nat : n = Len(functions)
  <2> HIDE DEF FuncDef
  <2> QED BY <1>1
<1>3. ret_type = [i \in 1..n |-> functions[i].declared]
  BY <1>2 DEF Init
<1> DEFINE S == {functions[i].declared : i \in 1..n}
<1>4. ret_type \in [1..n -> S]
  BY <1>3
<1> HIDE DEF S
<1>5. ret_type \in Seq(S) /\ Len(ret_type) = n
  BY <1>4
<1>6. QED
  BY <1>1, <1>2, <1>5 DEF TableInv

(* A step keeps the shape of the tables, and the types that are known.      *)
LEMMA StepTable ==
    ASSUME TableInv, [Next]_vars
    PROVE  /\ TableInv'
           /\ \A i \in 1..Len(functions) :
                 ret_type[i] # NoType =>
                     ret_type'[i] = ret_type[i] \/ is_instantiated_from(ret_type'[i], ret_type[i])
<1>a. PICK F : functions \in Seq(F)
  BY DEF TableInv
<1>b. PICK S : ret_type \in Seq(S)
  BY DEF TableInv
<1>c. Len(ret_type) = Len(functions)
  BY DEF TableInv
<1>1. CASE Kept
  BY <1>1 DEF Kept, TableInv
<1>2. CASE Set
  <2>1. PICK f, t : /\ ret_type' = [ret_type EXCEPT ![f] = t] /\ functions' = functions
                    /\ \/ ret_type[f] = NoType
                       \/ t = ret_type[f]
                       \/ is_instantiated_from(t, ret_type[f])
    BY <1>2 DEF Set
  <2>2. PICK n \in Nat : n = Len(ret_type) /\ ret_type \in [1..n -> S]
    BY <1>b
  <2>3. ret_type' \in [1..n -> S \cup {t}]
    BY <2>1, <2>2
  <2>4. ret_type' \in Seq(S \cup {t}) /\ Len(ret_type') = n
    BY <2>3
  <2>5. \A i \in 1..n : ret_type'[i] = IF i = f THEN t ELSE ret_type[i]
    BY <2>1, <2>2
  <2>6. QED
    BY <1>a, <1>c, <2>1, <2>2, <2>4, <2>5 DEF TableInv
<1>3. CASE Extended
  <2>1. PICK t, d : ret_type' = Append(ret_type, t) /\ functions' = Append(functions, d)
    BY <1>3 DEF Extended
  <2>2. /\ ret_type' \in Seq(S \cup {t}) /\ Len(ret_type') = Len(ret_type) + 1
        /\ \A i \in 1..Len(ret_type) : ret_type'[i] = ret_type[i]
    BY <1>b, <2>1, AppendSeq
  <2>3. functions' \in Seq(F \cup {d}) /\ Len(functions') = Len(functions) + 1
    BY <1>a, <2>1, AppendSeq
  <2>4. QED
    BY <1>c, <2>2, <2>3 DEF TableInv
<1>4. QED
  BY <1>1, <1>2, <1>3, StepShape

(* A return type that is known never changes, except from a declared        *)
(* template to an instance of it, for every program.                        *)
THEOREM ReturnTypesStay == Spec => ReturnTypeStable
<1>1. TableInv /\ [Next]_vars =>
        [\A i \in 1..Len(functions) :
            ret_type[i] # NoType =>
                \/ ret_type'[i] = ret_type[i]
                \/ is_instantiated_from(ret_type'[i], ret_type[i])]_vars
  BY StepTable
<1>2. TableInv /\ [Next]_vars => TableInv'
  BY StepTable
<1>3. QED
  BY <1>1, <1>2, InitTable, PTL DEF Spec, ReturnTypeStable

-----------------------------------------------------------------------------
(* What holds whether the analysis has failed or not.  TablesOK: the tables *)
(* have an entry for every function and statement.  ReachedOK: what is      *)
(* visited so far; an instance is, unless its caller is just about to.      *)
(* FramesOK: only functions without templates are walked, and a call in     *)
(* progress has a callee that is walked too, now or later.                  *)
TablesOK ==
    /\ functions \in Seq(FuncDef)
    /\ \A i \in 1..Len(functions) : IsFunction(functions[i])
    /\ ret_type \in Seq(Type) /\ Len(ret_type) = Len(functions)
    /\ typed \in Seq(Seq(Type)) /\ Len(typed) = Len(functions)
    /\ callee \in Seq(Seq(Nat)) /\ Len(callee) = Len(functions)
    /\ \A i \in 1..Len(functions) :
         /\ Len(typed[i]) = Len(functions[i].body) /\ Len(callee[i]) = Len(functions[i].body)
         /\ \A k \in 1..Len(functions[i].body) : callee[i][k] <= Len(functions)

ReachedOK ==
    /\ toplevel \in 0..Len(functions) /\ walked \in 0..toplevel
    /\ visited \subseteq 1..Len(functions)
    /\ \A i \in 1..walked : i \in visited
    /\ \A i \in (toplevel + 1)..Len(functions) :
          \/ i \in visited
          \/ frames # <<>> /\ Top.stage = "instance" /\ Top.target = i

(* A function without templates that has been or will be walked.            *)
Callable(g) == /\ g \in 1..Len(functions) /\ ~ IsTemplateFunc(functions[g])
               /\ g \in visited \/ g <= toplevel

FrameOK(fr) ==
    LET f == functions[fr.func]
    IN  /\ fr.func \in visited /\ ~ IsTemplateFunc(f)
        /\ fr.pc \in 1..(Len(f.body) + 1)
        /\ fr.target <= Len(functions) /\ fr.saved <= failed
        /\ fr.stage # "stmt" => fr.pc <= Len(f.body) /\ IsCall(f.body[fr.pc])
        /\ fr.stage = "instance" => /\ fr.target \in 1..Len(functions)
                                    /\ ~ IsTemplateFunc(functions[fr.target])
        /\ fr.stage \in {"resolved", "walked"} => Callable(fr.target)
FramesOK == /\ frames \in Seq(FrameSet) /\ failed \in Nat
            /\ \A n \in 1..Len(frames) : FrameOK(frames[n])

ShapeInv == TablesOK /\ ReachedOK /\ FramesOK

(* The parts of a function and of its statements.                           *)
LEMMA FunctionParts ==
    ASSUME functions \in Seq(FuncDef), NEW i \in 1..Len(functions)
    PROVE  /\ functions[i] \in FuncDef /\ Len(functions) \in Nat
           /\ functions[i].params \in Seq(Type) /\ functions[i].declared \in Type
           /\ functions[i].body \in Seq(Statement) /\ Len(functions[i].body) \in Nat
           /\ \A k \in 1..Len(functions[i].body) :
                  /\ functions[i].body[k] \in Statement
                  /\ functions[i].body[k].args \in Seq(Type)
<1>1. functions[i] \in FuncDef /\ Len(functions) \in Nat
  <2> HIDE DEF FuncDef
  <2> QED OBVIOUS
<1>2. \A f \in FuncDef : f.params \in Seq(Type) /\ f.declared \in Type /\ f.body \in Seq(Statement)
  <2> HIDE DEF Type, Statement
  <2> QED BY DEF FuncDef
<1>3. functions[i].body \in Seq(Statement) /\ Len(functions[i].body) \in Nat
  <2> HIDE DEF FuncDef, Statement
  <2> QED BY <1>1, <1>2
<1>4. \A s \in Statement : s.args \in Seq(Type)
  <2> HIDE DEF Type
  <2> QED BY DEF Statement
<1>5. \A k \in 1..Len(functions[i].body) : functions[i].body[k] \in Statement
  <2> HIDE DEF FuncDef, Statement
  <2> QED BY <1>3
<1>6. QED
  <2> HIDE DEF FuncDef, Statement, Type
  <2> QED BY <1>1, <1>2, <1>3, <1>4, <1>5

(* The statement that is walked, and the types of its operands: none is a   *)
(* template.                                                                *)
LEMMA OperandsConcrete ==
    ASSUME TablesOK, FramesOK, ReachedOK, At("stmt")
    PROVE  /\ Top.func \in 1..Len(functions) /\ Top.pc \in 1..Len(Here.body) /\ Top \in FrameSet
           /\ Stmt.args \in Seq(Type)
           /\ \A n \in 1..Len(Stmt.args) :
                  TypeHere(Stmt.args[n]) \in Type /\ ~ is_template(TypeHere(Stmt.args[n]))
           /\ ArgTypes \in Seq(Type) /\ Len(ArgTypes) = Len(Stmt.args)
           /\ \A n \in 1..Len(Stmt.args) : ArgTypes[n] = TypeHere(Stmt.args[n])
<1>1. frames # <<>> /\ Top.pc <= Len(Here.body)
  BY DEF At
<1>2. Top \in FrameSet /\ FrameOK(Top)
  <2> HIDE DEF FrameSet, FrameOK
  <2>1. PICK k \in Nat : k = Len(frames) /\ k > 0 /\ frames \in Seq(FrameSet)
    BY <1>1 DEF FramesOK
  <2> QED BY <2>1 DEF FramesOK, Top, Last
<1>3. Top.func \in 1..Len(functions) /\ Top.pc \in Nat /\ Top.pc >= 1
  BY <1>2 DEF FrameOK, ReachedOK, FrameSet
<1>4. /\ Here.params \in Seq(Type) /\ Len(Here.body) \in Nat
      /\ \A k \in 1..Len(Here.body) : Here.body[k].args \in Seq(Type)
  BY <1>3, FunctionParts DEF TablesOK, Here
<1>5. Top.pc \in 1..Len(Here.body)
  BY <1>1, <1>3, <1>4
<1>6. Stmt.args \in Seq(Type)
  BY <1>4, <1>5 DEF Stmt
<1>7. ~ IsTemplateFunc(Here) /\ IsFunction(Here)
  BY <1>2, <1>3 DEF FrameOK, TablesOK, Here
<1>8. ASSUME NEW n \in 1..Len(Stmt.args)
      PROVE  TypeHere(Stmt.args[n]) \in Type /\ ~ is_template(TypeHere(Stmt.args[n]))
  <2>1. IsOperand(Here, Stmt.args[n]) /\ Stmt.args[n] \in Type
    <3>1. Stmt.args[n] \in Type
      <4> HIDE DEF Type
      <4> QED BY <1>6, <1>8
    <3> QED BY <1>5, <1>7, <3>1 DEF IsFunction, Stmt
  <2>2. CASE Stmt.args[n] = Param
    <3>1. Len(Here.params) > 0
      BY <2>1, <2>2 DEF IsOperand
    <3>2. 1 \in 1..Len(Here.params) /\ Here.params[1] \in Type
      <4> HIDE DEF Type
      <4> QED BY <1>4, <3>1
    <3>3. ~ is_template(Here.params[1])
      BY <1>7, <3>2 DEF IsTemplateFunc
    <3> QED BY <2>2, <3>2, <3>3 DEF TypeHere
  <2>3. CASE Stmt.args[n] # Param
    BY <2>1, <2>3 DEF TypeHere, IsOperand
  <2> QED BY <2>2, <2>3
<1>9. PICK m \in Nat : m = Len(Stmt.args)
  <2> HIDE DEF Type
  <2> QED BY <1>6
<1>10. ArgTypes \in [1..m -> Type]
  <2> HIDE DEF Type
  <2> QED BY <1>8, <1>9 DEF ArgTypes
<1>11. ArgTypes \in Seq(Type) /\ Len(ArgTypes) = m
  <2> HIDE DEF Type, ArgTypes
  <2> QED BY <1>9, <1>10
<1>12. \A n \in 1..m : ArgTypes[n] = TypeHere(Stmt.args[n])
  BY <1>9 DEF ArgTypes
<1> QED BY <1>2, <1>3, <1>5, <1>6, <1>8, <1>9, <1>11, <1>12

(* What a call finds takes as many arguments as it has.                     *)
LEMMA FoundParts ==
    ASSUME NEW f \in Found
    PROVE  /\ f \in 1..Len(functions)
           /\ functions[f].name = Stmt.call
           /\ Len(functions[f].params) = Len(ArgTypes)
<1> DEFINE args == ArgTypes
           name == Stmt.call
           first == generate_first_overload_set(functions, name, args)
<1> HIDE DEF args, name
<1>1. f \in resolve_func(functions, name, args)
  BY DEF Found, args, name
<1>2. PICK c \in first : f = c.func
  BY <1>1 DEF resolve_func, generate_overload_set, narrow_down_by_perfect, narrow_down_by_depth
<1>3. PICK j \in 1..Len(functions) :
         /\ c = [func |-> j, total |-> get_overloaded_function_score(functions[j], args)]
         /\ functions[j].name = name /\ Len(functions[j].params) = Len(args)
  BY <1>2 DEF generate_first_overload_set
<1> QED
  BY <1>2, <1>3 DEF args, name

(* The copy that a call makes of a template takes the arguments of the call.*)
LEMMA InstanceParts ==
    ASSUME TablesOK, FramesOK, ReachedOK, At("stmt"), NEW f \in Found,
           NEW d, d = [functions[f] EXCEPT !.params = ArgTypes]
    PROVE  /\ d \in FuncDef /\ IsFunction(d) /\ ~ IsTemplateFunc(d)
           /\ d.params = ArgTypes /\ d.name = functions[f].name /\ d.kind = functions[f].kind
           /\ d.declared = functions[f].declared /\ d.body = functions[f].body /\ d.query = functions[f].query
<1>1. f \in 1..Len(functions) /\ Len(functions[f].params) = Len(ArgTypes)
  BY FoundParts
<1>2. functions[f] \in FuncDef /\ IsFunction(functions[f])
  BY <1>1, FunctionParts DEF TablesOK
<1>3. /\ ArgTypes \in Seq(Type) /\ Len(ArgTypes) = Len(Stmt.args)
      /\ \A n \in 1..Len(Stmt.args) : ~ is_template(ArgTypes[n])
  BY OperandsConcrete
<1>4. /\ d.params = ArgTypes /\ d.name = functions[f].name /\ d.kind = functions[f].kind
      /\ d.declared = functions[f].declared /\ d.body = functions[f].body /\ d.query = functions[f].query
  <2> HIDE DEF Type, Statement
  <2> QED BY <1>2 DEF FuncDef
<1>5. d \in FuncDef
  <2> HIDE DEF Type, Statement
  <2> QED BY <1>2, <1>3 DEF FuncDef
<1>6. ~ IsTemplateFunc(d)
  BY <1>3, <1>4 DEF IsTemplateFunc
<1>7. IsFunction(d)
  BY <1>1, <1>2, <1>4 DEF IsFunction, IsOperand
<1> QED
  BY <1>4, <1>5, <1>6, <1>7

(* A table of sequences with one element of one of them replaced.           *)
EntryAs(t, i, k, x) == [t EXCEPT ![i] = [t[i] EXCEPT ![k] = x]]

IsEntrySet(S, t, i, k, x, u) ==
    /\ u \in Seq(Seq(S)) /\ Len(u) = Len(t)
    /\ \A j \in 1..Len(t) :
         /\ Len(u[j]) = Len(t[j])
         /\ j # i => u[j] = t[j]
         /\ \A m \in 1..Len(t[j]) : u[j][m] = IF j = i /\ m = k THEN x ELSE t[j][m]

(* Setting one entry of a table of tables sets nothing else.                *)
LEMMA EntrySet ==
    ASSUME NEW S, NEW t \in Seq(Seq(S)), NEW i \in 1..Len(t), NEW k \in 1..Len(t[i]), NEW x \in S
    PROVE  IsEntrySet(S, t, i, k, x, EntryAs(t, i, k, x))
<1>1. PICK n \in Nat : n = Len(t) /\ t \in [1..n -> Seq(S)]
  OBVIOUS
<1>2. PICK l \in Nat : l = Len(t[i]) /\ t[i] \in [1..l -> S]
  BY <1>1
<1> DEFINE v == [t[i] EXCEPT ![k] = x]
           u == [t EXCEPT ![i] = v]
<1>3. v \in [1..l -> S]
  BY <1>2
<1>4. v \in Seq(S) /\ Len(v) = l /\ \A m \in 1..l : v[m] = IF m = k THEN x ELSE t[i][m]
  <2>1. \A m \in 1..l : v[m] = IF m = k THEN x ELSE t[i][m]
    BY <1>2
  <2> HIDE DEF v
  <2> QED BY <1>3, <2>1
<1> HIDE DEF v
<1>5. u \in [1..n -> Seq(S)] /\ \A j \in 1..n : u[j] = IF j = i THEN v ELSE t[j]
  BY <1>1, <1>4
<1>6. u \in Seq(Seq(S)) /\ Len(u) = n
  <2> HIDE DEF u
  <2> QED BY <1>5
<1> QED
  BY <1>1, <1>2, <1>4, <1>5, <1>6 DEF u, v, EntryAs, IsEntrySet

(* A sequence has finitely many indices.                                    *)
LEMMA IntervalFinite == \A n \in Nat : IsFiniteSet(1..n)
  BY FS_Interval

(* The types of the returns of a body are finitely many types.              *)
LEMMA ReturnTypesAreTypes ==
    ASSUME TablesOK, NEW f \in 1..Len(functions)
    PROVE  /\ ReturnTypes(f) \subseteq Type /\ IsFiniteSet(ReturnTypes(f))
           /\ typed[f] \in Seq(Type) /\ ret_type[f] \in Type
<1>1. /\ typed[f] \in Seq(Type) /\ Len(typed[f]) = Len(functions[f].body) /\ ret_type[f] \in Type
      /\ Len(functions[f].body) \in Nat
  <2> HIDE DEF Type, FuncDef, IsFunction
  <2>1. typed[f] \in Seq(Type) /\ Len(typed[f]) = Len(functions[f].body) /\ ret_type[f] \in Type
    BY DEF TablesOK
  <2> QED BY <2>1
<1>2. \A k \in 1..Len(functions[f].body) : typed[f][k] \in Type
  <2> HIDE DEF Type
  <2> QED BY <1>1
<1> DEFINE R == {k \in 1..Len(functions[f].body) : IsReturn(functions[f].body[k])}
<1>3. IsFiniteSet(R)
  <2>1. PICK n \in Nat : n = Len(functions[f].body)
    BY <1>1
  <2>2. IsFiniteSet(1..n)
    BY IntervalFinite, Zenon
  <2>3. R \in SUBSET (1..n)
    BY <2>1
  <2> HIDE DEF R
  <2> QED BY <2>2, <2>3, FS_Subset
<1> HIDE DEF R
<1>4. IsFiniteSet({typed[f][k] : k \in R})
  <2> DEFINE g == [k \in R |-> typed[f][k]]
             T == {typed[f][k] : k \in R}
  <2>1. g \in Surjection(R, T)
    BY DEF Surjection
  <2> QED BY <1>3, <2>1, FS_Surjection
<1>5. ReturnTypes(f) = {typed[f][k] : k \in R}
  BY DEF ReturnTypes, R
<1> QED
  BY <1>1, <1>2, <1>4, <1>5 DEF R

(* What one visit of a function does, whichever of the four it is.          *)
LEMMA VisitParts ==
    ASSUME TablesOK, ReachedOK, failed \in Nat, NEW f \in 1..Len(functions), NEW fs, Visit(f, fs)
    PROVE  /\ visited' = visited \cup {f}
           /\ failed' = failed \/ failed' = failed + 1
           /\ ret_type' \in Seq(Type) /\ Len(ret_type') = Len(ret_type)
           /\ \/ frames' = fs
              \/ /\ frames' = Append(fs, Frame(f))
                 /\ f \notin visited /\ ~ IsTemplateFunc(functions[f])
           /\ frames' = fs /\ f \notin visited /\ ~ IsTemplateFunc(functions[f]) => failed' = failed + 1
           /\ \/ ret_type' = ret_type
              \/ /\ f \in visited /\ ret_type[f] = NoType /\ frames' = fs /\ failed' = failed
                 /\ \E t \in ReturnTypes(f) \ {NoType} : ret_type' = [ret_type EXCEPT ![f] = t]
<1>1. ret_type \in Seq(Type) /\ Len(ret_type) = Len(functions)
  BY DEF TablesOK
<1>2. CASE VisitBody(f, fs) \/ VisitNothing(f, fs) \/ VisitQueryProc(f, fs)
  BY <1>1, <1>2 DEF VisitBody, VisitNothing, VisitQueryProc
<1>3. CASE VisitAgain(f, fs)
  <2> DEFINE known == ReturnTypes(f) \ {NoType}
  <2>1. CASE Cardinality(known) # 1
    BY <1>1, <1>3, <2>1 DEF VisitAgain
  <2>2. CASE Cardinality(known) = 1
    <3>1. known \subseteq Type /\ IsFiniteSet(known)
      BY ReturnTypesAreTypes, FS_Subset
    <3> DEFINE t == CHOOSE t \in known : TRUE
    <3>2. t \in known
      <4>1. known # {}
        BY <2>2, <3>1, FS_EmptySet
      <4> HIDE DEF known
      <4> QED BY <4>1
    <3>3. /\ ret_type' = [ret_type EXCEPT ![f] = t] /\ failed' = failed /\ frames' = fs
          /\ visited' = visited /\ f \in visited /\ ret_type[f] = NoType
      BY <1>3, <2>2 DEF VisitAgain
    <3> HIDE DEF t
    <3>4. t \in Type
      BY <3>1, <3>2
    <3> HIDE DEF known
    <3>5. PICK n \in Nat : n = Len(ret_type) /\ ret_type \in [1..n -> Type]
      <4> HIDE DEF Type
      <4> QED BY <1>1
    <3>6. ret_type' \in [1..n -> Type]
      <4> HIDE DEF Type
      <4> QED BY <3>3, <3>4, <3>5
    <3>7. ret_type' \in Seq(Type) /\ Len(ret_type') = n
      <4> HIDE DEF Type
      <4> QED BY <3>6
    <3> QED
      BY <3>2, <3>3, <3>5, <3>7 DEF known
  <2> QED BY <2>1, <2>2
<1> QED
  BY <1>2, <1>3 DEF Visit

(* The statement the top frame is at.                                       *)
LEMMA TopParts ==
    ASSUME ShapeInv, frames # <<>>
    PROVE  /\ Top \in FrameSet /\ FrameOK(Top) /\ Top.func \in 1..Len(functions)
           /\ Top.target \in Nat /\ Top.pc \in Nat \ {0} /\ Top.saved \in Nat /\ Top.stage \in Stages
           /\ Len(Here.body) \in Nat /\ Top.pc <= Len(Here.body) + 1
           /\ Top.stage # "stmt" => Top.pc <= Len(Here.body)
           /\ Top.stage \in {"instance", "resolved", "walked"} =>
                 Top.target \in 1..Len(functions) /\ ~ IsTemplateFunc(functions[Top.target])
<1>1. Top \in FrameSet /\ FrameOK(Top)
  <2> HIDE DEF FrameSet, FrameOK
  <2>1. PICK k \in Nat : k = Len(frames) /\ k > 0 /\ frames \in Seq(FrameSet)
    BY DEF ShapeInv, FramesOK
  <2> QED BY <2>1 DEF ShapeInv, FramesOK, Top, Last
<1>2. Top.target \in Nat /\ Top.pc \in Nat /\ Top.saved \in Nat /\ Top.stage \in Stages
  BY <1>1 DEF FrameSet
<1>3. Top.func \in 1..Len(functions)
  BY <1>1 DEF FrameOK, ShapeInv, ReachedOK
<1>4. Len(Here.body) \in Nat
  BY <1>3, FunctionParts DEF ShapeInv, TablesOK, Here
<1> QED
  BY <1>1, <1>2, <1>3, <1>4 DEF FrameOK, Here, Callable

(* What is deduced is one of the types of the returns, or unit.             *)
LEMMA DeducedIsType ==
    ASSUME TablesOK, NEW f \in 1..Len(functions)
    PROVE  /\ Deduced(f) \in Type
           /\ ReturnTypes(f) # {} => Deduced(f) \in ReturnTypes(f)
           /\ ReturnTypes(f) = {} => Deduced(f) = unit
<1>1. unit \in Type
  BY BasesAssumption DEF unit, any_type, Type
<1>2. ReturnTypes(f) \subseteq Type
  BY ReturnTypesAreTypes
<1>3. ReturnTypes(f) # {} => (CHOOSE t \in ReturnTypes(f) : TRUE) \in ReturnTypes(f)
  OBVIOUS
<1> QED
  BY <1>1, <1>2, <1>3 DEF Deduced

(* What a step does to one table at a time.                                 *)
LEMMA RetTypeSet ==
    ASSUME TablesOK, NEW f \in 1..Len(functions), NEW t \in Type, ret_type' = [ret_type EXCEPT ![f] = t]
    PROVE  /\ ret_type' \in Seq(Type) /\ Len(ret_type') = Len(ret_type)
           /\ \A i \in 1..Len(functions) : ret_type'[i] = IF i = f THEN t ELSE ret_type[i]
<1> HIDE DEF Type
<1>1. PICK n \in Nat : n = Len(ret_type) /\ n = Len(functions) /\ ret_type \in [1..n -> Type]
  <2>1. ret_type \in Seq(Type) /\ Len(ret_type) = Len(functions)
    BY DEF TablesOK
  <2> QED BY <2>1
<1>2. ret_type' \in [1..n -> Type] /\ \A i \in 1..n : ret_type'[i] = IF i = f THEN t ELSE ret_type[i]
  BY <1>1
<1> QED
  BY <1>1, <1>2

(* The entry of the statement that is walked is set.                        *)
TypedAs(t) == EntryAs(typed, Top.func, Top.pc, t)
CalleeAs(c) == EntryAs(callee, Top.func, Top.pc, c)

(* The type of the current statement is one entry of its table.             *)
LEMMA TypedSet ==
    ASSUME ShapeInv, frames # <<>>, Top.pc <= Len(Here.body), NEW t \in Type
    PROVE  IsEntrySet(Type, typed, Top.func, Top.pc, t, TypedAs(t))
<1>1. Top.func \in 1..Len(functions) /\ Top.pc \in 1..Len(Here.body)
  BY TopParts
<1>2. typed \in Seq(Seq(Type)) /\ Top.func \in 1..Len(typed) /\ Top.pc \in 1..Len(typed[Top.func])
  BY <1>1 DEF ShapeInv, TablesOK, Here
<1> QED
  <2> HIDE DEF Type, Top
  <2> QED BY <1>2, EntrySet, Zenon DEF TypedAs

(* So is its callee.                                                        *)
LEMMA CalleeSet ==
    ASSUME ShapeInv, frames # <<>>, Top.pc <= Len(Here.body), NEW c \in Nat
    PROVE  IsEntrySet(Nat, callee, Top.func, Top.pc, c, CalleeAs(c))
<1>1. Top.func \in 1..Len(functions) /\ Top.pc \in 1..Len(Here.body)
  BY TopParts
<1>2. callee \in Seq(Seq(Nat)) /\ Top.func \in 1..Len(callee) /\ Top.pc \in 1..Len(callee[Top.func])
  BY <1>1 DEF ShapeInv, TablesOK, Here
<1> QED
  <2> HIDE DEF Top
  <2> QED BY <1>2, EntrySet, Zenon DEF CalleeAs

(* Both, for an arbitrary table in the place of each.                       *)
LEMMA StatementSet ==
    ASSUME ShapeInv, frames # <<>>, Top.pc <= Len(Here.body), NEW t \in Type, NEW c \in 0..Len(functions)
    PROVE  \E f, pc, u, v :
           /\ f = Top.func /\ pc = Top.pc /\ u = TypedAs(t) /\ v = CalleeAs(c)
           /\ u \in Seq(Seq(Type)) /\ Len(u) = Len(functions)
           /\ v \in Seq(Seq(Nat)) /\ Len(v) = Len(functions)
           /\ \A i \in 1..Len(functions) :
                /\ Len(u[i]) = Len(typed[i]) /\ Len(v[i]) = Len(callee[i])
                /\ i # f => u[i] = typed[i] /\ v[i] = callee[i]
                /\ \A k \in Body(i) :
                     /\ u[i][k] = IF i = f /\ k = pc THEN t ELSE typed[i][k]
                     /\ v[i][k] = IF i = f /\ k = pc THEN c ELSE callee[i][k]
<1>1. /\ Len(typed) = Len(functions) /\ Len(callee) = Len(functions)
      /\ \A i \in 1..Len(functions) : 1..Len(typed[i]) = Body(i) /\ 1..Len(callee[i]) = Body(i)
  BY DEF ShapeInv, TablesOK, Body
<1>2. c \in Nat
  <2>1. functions \in Seq(FuncDef)
    BY DEF ShapeInv, TablesOK
  <2>2. Len(functions) \in Nat
    <3> HIDE DEF FuncDef
    <3> QED BY <2>1
  <2> QED BY <2>2
<1>3. PICK f, pc, u, v : f = Top.func /\ pc = Top.pc /\ u = TypedAs(t) /\ v = CalleeAs(c)
  OBVIOUS
<1>4. IsEntrySet(Type, typed, f, pc, t, u) /\ IsEntrySet(Nat, callee, f, pc, c, v)
  BY <1>2, <1>3, TypedSet, CalleeSet
<1>5. /\ u \in Seq(Seq(Type)) /\ Len(u) = Len(functions)
      /\ v \in Seq(Seq(Nat)) /\ Len(v) = Len(functions)
      /\ \A i \in 1..Len(functions) : Len(u[i]) = Len(typed[i]) /\ Len(v[i]) = Len(callee[i])
  BY <1>1, <1>4 DEF IsEntrySet
<1>6. \A i \in 1..Len(functions) :
         /\ i # f => u[i] = typed[i] /\ v[i] = callee[i]
         /\ \A k \in Body(i) :
              /\ u[i][k] = IF i = f /\ k = pc THEN t ELSE typed[i][k]
              /\ v[i][k] = IF i = f /\ k = pc THEN c ELSE callee[i][k]
  <2> SUFFICES ASSUME NEW i \in 1..Len(functions)
               PROVE  /\ i # f => u[i] = typed[i] /\ v[i] = callee[i]
                      /\ \A k \in Body(i) :
                           /\ u[i][k] = IF i = f /\ k = pc THEN t ELSE typed[i][k]
                           /\ v[i][k] = IF i = f /\ k = pc THEN c ELSE callee[i][k]
    OBVIOUS
  <2>1. 1..Len(typed[i]) = Body(i) /\ i \in 1..Len(typed)
    BY <1>1
  <2>2. 1..Len(callee[i]) = Body(i) /\ i \in 1..Len(callee)
    BY <1>1
  <2>3. /\ i # f => u[i] = typed[i]
        /\ \A k \in 1..Len(typed[i]) : u[i][k] = IF i = f /\ k = pc THEN t ELSE typed[i][k]
    BY <1>4, <2>1 DEF IsEntrySet
  <2>4. /\ i # f => v[i] = callee[i]
        /\ \A k \in 1..Len(callee[i]) : v[i][k] = IF i = f /\ k = pc THEN c ELSE callee[i][k]
    BY <1>4, <2>2 DEF IsEntrySet
  <2> QED BY <2>1, <2>2, <2>3, <2>4
<1> QED
  BY <1>3, <1>5, <1>6

(* The tables only grow: a function keeps its number, and what was visited, *)
(* stays visited.                                                           *)
Grows == /\ Len(functions) <= Len(functions') /\ toplevel' = toplevel
         /\ \A i \in 1..Len(functions) : functions'[i] = functions[i]
         /\ visited \subseteq visited' /\ failed <= failed' /\ failed' \in Nat

(* One of the three places that visit a function, and the frames below it.  *)
VisitOf(f, fs) ==
    \/ WalkNext /\ f = walked + 1 /\ fs = <<>>
    \/ WalkInstance /\ f = Top.target /\ fs = Replaced(To("resolved"))
    \/ WalkCallee /\ f = Top.target /\ fs = Replaced([To("walked") EXCEPT !.saved = failed])

(* A visit of a function changes only the walk and its return type.         *)
LEMMA VisitOfParts ==
    ASSUME ShapeInv, NEW f, NEW fs, VisitOf(f, fs)
    PROVE  /\ f \in 1..Len(functions) /\ Visit(f, fs)
           /\ functions' = functions /\ toplevel' = toplevel
           /\ typed' = typed /\ callee' = callee /\ verdict' = verdict
<1>1. CASE WalkNext /\ f = walked + 1 /\ fs = <<>>
  <2>1. Len(functions) \in Nat /\ toplevel \in 0..Len(functions) /\ walked \in 0..toplevel
    <3>1. functions \in Seq(FuncDef)
      BY DEF ShapeInv, TablesOK
    <3>2. Len(functions) \in Nat
      <4> HIDE DEF FuncDef
      <4> QED BY <3>1
    <3> QED BY <3>2 DEF ShapeInv, ReachedOK
  <2> QED BY <1>1, <2>1 DEF WalkNext
<1>2. CASE WalkInstance /\ f = Top.target /\ fs = Replaced(To("resolved"))
  <2>1. frames # <<>> /\ Top.stage = "instance"
    BY <1>2 DEF WalkInstance, At
  <2> QED BY <1>2, <2>1, TopParts DEF WalkInstance
<1>3. CASE WalkCallee /\ f = Top.target /\ fs = Replaced([To("walked") EXCEPT !.saved = failed])
  <2>1. frames # <<>> /\ Top.stage = "resolved"
    BY <1>3 DEF WalkCallee, At
  <2> QED BY <1>3, <2>1, TopParts DEF WalkCallee
<1> QED
  BY <1>1, <1>2, <1>3 DEF VisitOf

(* Functions are visited from the table, after a call, and after an instance. *)
LEMMA StepVisits == WalkNext \/ WalkInstance \/ WalkCallee => \E f, fs : VisitOf(f, fs)
  BY DEF VisitOf

(* No step takes back what the tables hold.                                 *)
LEMMA StepGrows == ShapeInv /\ [Next]_vars => Grows
<1> SUFFICES ASSUME ShapeInv, [Next]_vars PROVE Grows
  OBVIOUS
<1>1. functions \in Seq(FuncDef) /\ failed \in Nat
  BY DEF ShapeInv, TablesOK, FramesOK
<1>2. Len(functions) \in Nat
  <2> HIDE DEF FuncDef
  <2> QED BY <1>1
<1>3. CASE WalkNext \/ WalkInstance \/ WalkCallee
  <2>1. PICK f, fs : VisitOf(f, fs)
    BY <1>3, StepVisits
  <2>2. f \in 1..Len(functions) /\ Visit(f, fs) /\ functions' = functions /\ toplevel' = toplevel
    BY <2>1, VisitOfParts
  <2>3. visited' = visited \cup {f} /\ (failed' = failed \/ failed' = failed + 1)
    BY <1>1, <2>2, VisitParts DEF ShapeInv
  <2> QED BY <1>1, <1>2, <2>2, <2>3 DEF Grows
<1>4. CASE Instantiate
  <2>1. PICK d : functions' = Append(functions, d)
    BY <1>4 DEF Instantiate
  <2>2. Len(functions') = Len(functions) + 1 /\ \A i \in 1..Len(functions) : functions'[i] = functions[i]
    <3> HIDE DEF FuncDef
    <3> QED BY <1>1, <2>1, AppendSeq
  <2>3. toplevel' = toplevel /\ visited' = visited /\ failed' = failed
    BY <1>4 DEF Instantiate
  <2> QED BY <1>1, <1>2, <2>2, <2>3 DEF Grows
<1>5. CASE \/ Value \/ CallUnresolved \/ CallResolved \/ CallFails \/ CallReturns
           \/ Leave \/ Finish \/ Done \/ UNCHANGED vars
  <2>1. /\ functions' = functions /\ toplevel' = toplevel /\ visited' = visited
        /\ failed' = failed \/ failed' = failed + 1
    BY <1>5 DEF Value, CallUnresolved, CallResolved, CallFails, CallReturns, Leave, Finish, Done, vars
  <2> QED BY <1>1, <1>2, <2>1 DEF Grows
<1> QED
  BY <1>3, <1>4, <1>5 DEF Next, Step

(* What is true of a frame stays so.                                        *)
LEMMA FrameGrows ==
    ASSUME ShapeInv, Grows, NEW fr \in FrameSet, FrameOK(fr)
    PROVE  FrameOK(fr)'
<1>1. /\ Len(functions) \in Nat /\ Len(functions)' \in Int /\ failed \in Nat
      /\ visited \subseteq 1..Len(functions)
  <2>1. functions \in Seq(FuncDef)
    BY DEF ShapeInv, TablesOK
  <2>2. Len(functions) \in Nat
    <3> HIDE DEF FuncDef
    <3> QED BY <2>1
  <2> QED BY <2>2 DEF Grows, ShapeInv, ReachedOK, FramesOK
<1>2. fr.func \in 1..Len(functions) /\ functions'[fr.func] = functions[fr.func]
  BY <1>1 DEF Grows, FrameOK
<1>3. fr.target \in 1..Len(functions) => functions'[fr.target] = functions[fr.target]
  BY DEF Grows
<1>4. fr.target \in Nat /\ fr.saved \in Nat
  BY DEF FrameSet
<1> HIDE DEF FrameSet
<1>5. Callable(fr.target) => Callable(fr.target)'
  BY <1>1, <1>3 DEF Callable, Grows, IsTemplateFunc
<1> QED
  BY <1>1, <1>2, <1>3, <1>4, <1>5 DEF FrameOK, Grows, IsTemplateFunc

(* Frames that are fine one by one are fine.                                *)
LEMMA FramesFrom ==
    ASSUME NEW fs \in Seq(FrameSet), frames' = fs, \A n \in 1..Len(fs) : FrameOK(fs[n])', failed' \in Nat
    PROVE  FramesOK'
<1>1. \A n \in 1..Len(frames') : FrameOK(frames[n])'
  BY DEF FrameOK, Callable
<1> HIDE DEF FrameSet
<1> QED
  BY <1>1 DEF FramesOK

(* The innermost frame is replaced.                                         *)
LEMMA ReplacedOK ==
    ASSUME ShapeInv, frames # <<>>, Grows, NEW frame \in FrameSet, FrameOK(frame)',
           NEW fs, fs = Replaced(frame)
    PROVE  /\ fs \in Seq(FrameSet) /\ Len(fs) = Len(frames) /\ Len(frames) \in Nat \ {0}
           /\ fs[Len(frames)] = frame
           /\ \A n \in 1..(Len(frames) - 1) : fs[n] = frames[n]
           /\ \A n \in 1..Len(fs) : FrameOK(fs[n])'
<1>1. frames \in Seq(FrameSet) /\ \A n \in 1..Len(frames) : frames[n] \in FrameSet /\ FrameOK(frames[n])
  <2> HIDE DEF FrameSet
  <2> QED BY DEF ShapeInv, FramesOK
<1>2. PICK k \in Nat : k = Len(frames) /\ k > 0
  <2> HIDE DEF FrameSet
  <2> QED BY <1>1
<1>3. /\ Front(frames) \in Seq(FrameSet) /\ Len(Front(frames)) = k - 1
      /\ \A n \in 1..(k - 1) : Front(frames)[n] = frames[n]
  <2> HIDE DEF FrameSet
  <2> QED BY <1>1, <1>2 DEF Front
<1>4. /\ fs \in Seq(FrameSet) /\ Len(fs) = k /\ fs[k] = frame
      /\ \A n \in 1..(k - 1) : fs[n] = frames[n]
  <2> HIDE DEF FrameSet
  <2> QED BY <1>2, <1>3 DEF Replaced
<1>5. ASSUME NEW n \in 1..k PROVE FrameOK(fs[n])'
  <2>1. CASE n = k
    BY <1>4, <2>1
  <2>2. CASE n # k
    <3>1. n \in 1..(k - 1) /\ fs[n] = frames[n] /\ n \in 1..Len(frames)
      BY <1>2, <1>4, <1>5, <2>2
    <3>2. PICK fr \in FrameSet : fr = fs[n] /\ FrameOK(fr)
      BY <1>1, <3>1
    <3>3. FrameOK(fr)'
      BY <3>2, FrameGrows
    <3> QED BY <3>2, <3>3
  <2> QED BY <2>1, <2>2
<1> QED
  BY <1>2, <1>4, <1>5

(* The frames a visit puts its function on, and what is on top of them.     *)
LEMMA VisitFrames ==
    ASSUME ShapeInv, Grows, NEW f, NEW fs, VisitOf(f, fs)
    PROVE  /\ fs \in Seq(FrameSet)
           /\ \A n \in 1..Len(fs) : FrameOK(fs[n])'
           /\ Len(fs) = Len(frames)
           /\ \A n \in 1..Len(fs) : fs[n].func = frames[n].func /\ fs[n].pc = frames[n].pc
<1>0. f \in 1..Len(functions) /\ Visit(f, fs) /\ functions' = functions /\ toplevel' = toplevel
  BY VisitOfParts
<1>v. visited' = visited \cup {f}
  BY <1>0, VisitParts DEF ShapeInv, FramesOK
<1>1. CASE WalkNext /\ fs = <<>>
  <2>1. frames = <<>>
    BY <1>1 DEF WalkNext
  <2> HIDE DEF FrameSet
  <2> QED BY <1>1, <2>1
<1>2. ASSUME frames # <<>>, NEW frame \in FrameSet, FrameOK(frame)', fs = Replaced(frame),
             frame.func = Top.func, frame.pc = Top.pc
      PROVE  /\ fs \in Seq(FrameSet) /\ Len(fs) = Len(frames)
             /\ \A n \in 1..Len(fs) : FrameOK(fs[n])'
             /\ \A n \in 1..Len(fs) : fs[n].func = frames[n].func /\ fs[n].pc = frames[n].pc
  <2>1. /\ fs \in Seq(FrameSet) /\ Len(fs) = Len(frames) /\ Len(frames) \in Nat \ {0}
        /\ fs[Len(frames)] = frame
        /\ \A n \in 1..(Len(frames) - 1) : fs[n] = frames[n]
        /\ \A n \in 1..Len(fs) : FrameOK(fs[n])'
    BY <1>2, ReplacedOK
  <2>2. Top = frames[Len(frames)]
    BY DEF Top, Last
  <2>3. \A n \in 1..Len(fs) : n = Len(frames) \/ n \in 1..(Len(frames) - 1)
    BY <2>1
  <2> QED BY <1>2, <2>1, <2>2, <2>3
<1>3. CASE WalkInstance /\ f = Top.target /\ fs = Replaced(To("resolved"))
  <2>1. frames # <<>> /\ Top.stage = "instance"
    BY <1>3 DEF WalkInstance, At
  <2>2. Top \in FrameSet /\ FrameOK(Top) /\ Top.func \in 1..Len(functions)
    BY <2>1, TopParts
  <2>3. PICK top \in FrameSet : top = Top /\ FrameOK(top)
    BY <2>2
  <2>4. FrameOK(top)'
    BY <2>3, FrameGrows
  <2>5. PICK frame \in FrameSet : frame = To("resolved") /\ frame = [top EXCEPT !.stage = "resolved"]
    BY <2>3 DEF To, FrameSet, Stages
  <2>6. /\ frame.func = top.func /\ frame.pc = top.pc /\ frame.target = top.target
        /\ frame.saved = top.saved /\ frame.stage = "resolved"
    BY <2>5 DEF FrameSet
  <2>7. Callable(frame.target)'
    BY <1>v, <1>3, <2>1, <2>3, <2>4, <2>6 DEF FrameOK, Callable
  <2>8. FrameOK(frame)'
    BY <2>1, <2>3, <2>4, <2>6, <2>7 DEF FrameOK
  <2> QED BY <1>2, <1>3, <2>1, <2>3, <2>5, <2>6, <2>8
<1>4. CASE WalkCallee /\ f = Top.target /\ fs = Replaced([To("walked") EXCEPT !.saved = failed])
  <2>1. frames # <<>> /\ Top.stage = "resolved"
    BY <1>4 DEF WalkCallee, At
  <2>2. Top \in FrameSet /\ FrameOK(Top) /\ Top.func \in 1..Len(functions)
    BY <2>1, TopParts
  <2>3. PICK top \in FrameSet : top = Top /\ FrameOK(top)
    BY <2>2
  <2>4. FrameOK(top)'
    BY <2>3, FrameGrows
  <2>0. failed \in Nat
    BY DEF ShapeInv, FramesOK
  <2>5. PICK frame \in FrameSet : /\ frame = [To("walked") EXCEPT !.saved = failed]
                                  /\ frame = [top EXCEPT !.stage = "walked", !.saved = failed]
    BY <2>0, <2>3 DEF To, FrameSet, Stages
  <2>6. /\ frame.func = top.func /\ frame.pc = top.pc /\ frame.target = top.target
        /\ frame.saved = failed /\ frame.stage = "walked"
    BY <2>5 DEF FrameSet
  <2>7. Callable(frame.target)' /\ frame.saved <= failed'
    BY <2>1, <2>3, <2>4, <2>6 DEF FrameOK, Grows
  <2>8. FrameOK(frame)'
    BY <2>1, <2>3, <2>4, <2>6, <2>7 DEF FrameOK
  <2> QED BY <1>2, <1>4, <2>1, <2>3, <2>5, <2>6, <2>8
<1> QED
  BY <1>1, <1>3, <1>4 DEF VisitOf

(* The next statement of a body is within the body.                         *)
LEMMA AdvancedOK ==
    ASSUME ShapeInv, Grows, frames # <<>>, Top.pc <= Len(Here.body), NEW fs, fs = Advanced
    PROVE  /\ fs \in Seq(FrameSet) /\ Len(fs) = Len(frames) /\ Len(frames) \in Nat \ {0}
           /\ \A n \in 1..Len(fs) : FrameOK(fs[n])'
           /\ \A n \in 1..(Len(frames) - 1) : fs[n] = frames[n]
           /\ fs[Len(frames)].func = Top.func /\ fs[Len(frames)].pc = Top.pc + 1
           /\ fs[Len(frames)].stage = "stmt" /\ fs # <<>> /\ Last(fs) = fs[Len(frames)]
<1>2. Top \in FrameSet /\ FrameOK(Top) /\ Top.func \in 1..Len(functions) /\ Len(Here.body) \in Nat
  BY TopParts
<1>3. PICK top \in FrameSet : top = Top /\ FrameOK(top)
  BY <1>2
<1>4. FrameOK(top)'
  BY <1>3, FrameGrows
<1>5. PICK pc \in Nat : pc = top.pc + 1
  BY <1>3 DEF FrameSet
<1>6. PICK frame \in FrameSet : /\ frame = [To("stmt") EXCEPT !.pc = Top.pc + 1]
                                /\ frame = [top EXCEPT !.stage = "stmt", !.pc = pc]
  BY <1>3, <1>5 DEF To, FrameSet, Stages
<1>7. /\ frame.func = top.func /\ frame.pc = top.pc + 1 /\ frame.target = top.target
      /\ frame.saved = top.saved /\ frame.stage = "stmt" /\ top.pc \in Nat
  BY <1>5, <1>6 DEF FrameSet
<1>8. frame.pc \in 1..(Len(functions'[top.func].body) + 1)
  <2>1. functions'[top.func] = Here
    BY <1>2, <1>3 DEF Grows, Here
  <2> QED BY <1>2, <1>3, <1>7, <2>1
<1>9. FrameOK(frame)'
  BY <1>4, <1>7, <1>8 DEF FrameOK
<1>10. fs = Replaced(frame)
  BY <1>6 DEF Advanced
<1>11. /\ fs \in Seq(FrameSet) /\ Len(fs) = Len(frames) /\ Len(frames) \in Nat \ {0}
       /\ fs[Len(frames)] = frame
       /\ \A n \in 1..(Len(frames) - 1) : fs[n] = frames[n]
       /\ \A n \in 1..Len(fs) : FrameOK(fs[n])'
  BY <1>9, <1>10, ReplacedOK
<1>12. fs # <<>> /\ Last(fs) = fs[Len(frames)]
  <2> HIDE DEF FrameSet
  <2> QED BY <1>11 DEF Last
<1> QED
  BY <1>3, <1>7, <1>11, <1>12

(* In the frames fs every function is walked where it is now.               *)
Moved(fs) == /\ Len(fs) = Len(frames)
             /\ \A n \in 1..Len(fs) : fs[n].func = frames[n].func /\ fs[n].pc = frames[n].pc

(* A call has selected a function, or an instance that it made.             *)
LEMMA TargetOK ==
    ASSUME ShapeInv, Grows, At("stmt"), IsCall(Stmt), NEW t \in 1..Len(functions'), NEW stage \in {"instance", "resolved"},
           ~ IsTemplateFunc(functions'[t]), stage = "resolved" => Callable(t)',
           NEW fs, fs = Replaced([To(stage) EXCEPT !.target = t])
    PROVE  /\ fs \in Seq(FrameSet) /\ Len(fs) = Len(frames) /\ Len(frames) \in Nat \ {0}
           /\ \A n \in 1..Len(fs) : FrameOK(fs[n])'
           /\ Moved(fs)
           /\ Last(fs).stage = stage /\ Last(fs).target = t /\ fs # <<>>
<1>1. frames # <<>> /\ Top.pc <= Len(Here.body)
  BY DEF At
<1>2. Top \in FrameSet /\ FrameOK(Top) /\ Top.func \in 1..Len(functions)
  BY <1>1, TopParts
<1>3. PICK top \in FrameSet : top = Top /\ FrameOK(top)
  BY <1>2
<1>4. FrameOK(top)'
  BY <1>3, FrameGrows
<1>5. PICK frame \in FrameSet : /\ frame = [To(stage) EXCEPT !.target = t]
                                /\ frame = [top EXCEPT !.stage = stage, !.target = t]
  <2>1. t \in Nat /\ stage \in Stages
    BY DEF Stages
  <2>2. [top EXCEPT !.stage = stage, !.target = t] \in FrameSet
    BY <1>3, <2>1 DEF FrameSet
  <2>3. [To(stage) EXCEPT !.target = t] = [top EXCEPT !.stage = stage, !.target = t]
    BY <1>3 DEF To
  <2> QED BY <2>2, <2>3
<1>6. /\ frame.func = top.func /\ frame.pc = top.pc /\ frame.target = t
      /\ frame.saved = top.saved /\ frame.stage = stage
  BY <1>5 DEF FrameSet
<1>7. functions'[top.func] = Here
  BY <1>2, <1>3 DEF Grows, Here
<1>8. frame.pc <= Len(functions'[top.func].body) /\ IsCall(functions'[top.func].body[frame.pc])
  BY <1>1, <1>3, <1>6, <1>7 DEF Stmt
<1>9. FrameOK(frame)'
  BY <1>4, <1>6, <1>8 DEF FrameOK, IsTemplateFunc
<1>10. /\ fs \in Seq(FrameSet) /\ Len(fs) = Len(frames) /\ Len(frames) \in Nat \ {0}
       /\ fs[Len(frames)] = frame
       /\ \A n \in 1..(Len(frames) - 1) : fs[n] = frames[n]
       /\ \A n \in 1..Len(fs) : FrameOK(fs[n])'
  <2>1. fs = Replaced(frame)
    BY <1>5
  <2> QED BY <1>1, <1>9, <2>1, ReplacedOK
<1>11. fs # <<>> /\ Last(fs) = frame
  <2> HIDE DEF FrameSet
  <2> QED BY <1>10 DEF Last
<1>12. Top = frames[Len(frames)]
  BY DEF Top, Last
<1>13. \A n \in 1..Len(fs) : n = Len(frames) \/ n \in 1..(Len(frames) - 1)
  BY <1>10
<1>14. Moved(fs)
  BY <1>3, <1>6, <1>10, <1>12, <1>13 DEF Moved
<1> QED
  BY <1>6, <1>10, <1>11, <1>14

(* Every instance that was made is visited by the time the next call is     *)
(* resolved.                                                                *)
LEMMA SelectedCallable ==
    ASSUME ShapeInv, At("stmt"), NEW f \in Found, ~ IsTemplateFunc(functions[f])
    PROVE  Callable(f)
<1>1. f \in 1..Len(functions) /\ Top.stage # "instance"
  BY FoundParts DEF At
<1>2. Len(functions) \in Nat /\ toplevel \in 0..Len(functions)
  <2>1. functions \in Seq(FuncDef)
    BY DEF ShapeInv, TablesOK
  <2>2. Len(functions) \in Nat
    <3> HIDE DEF FuncDef
    <3> QED BY <2>1
  <2> QED BY <2>2 DEF ShapeInv, ReachedOK
<1> QED
  BY <1>1, <1>2 DEF Callable, ShapeInv, ReachedOK

(* A sequence without its last element.                                     *)
LEMMA FrontParts ==
    ASSUME NEW S, NEW s \in Seq(S), s # <<>>
    PROVE  /\ Front(s) \in Seq(S) /\ Len(s) \in Nat \ {0} /\ Len(Front(s)) = Len(s) - 1
           /\ \A n \in 1..Len(Front(s)) : Front(s)[n] = s[n] /\ n \in 1..Len(s)
<1>1. PICK k \in Nat : k = Len(s) /\ k > 0
  OBVIOUS
<1>2. /\ Front(s) \in Seq(S) /\ Len(Front(s)) = k - 1
      /\ \A n \in 1..(k - 1) : Front(s)[n] = s[n]
  BY <1>1 DEF Front
<1> QED
  BY <1>1, <1>2

(* A sequence with one more element.                                        *)
LEMMA AppendParts ==
    ASSUME NEW S, NEW s \in Seq(S), NEW x \in S
    PROVE  /\ Append(s, x) \in Seq(S) /\ Len(s) \in Nat /\ Len(Append(s, x)) = Len(s) + 1
           /\ Append(s, x)[Len(s) + 1] = x
           /\ \A n \in 1..Len(s) : Append(s, x)[n] = s[n]
  OBVIOUS

(* Every step keeps the frames within the bodies they walk,                 *)
LEMMA StepFrames == ShapeInv /\ [Next]_vars => FramesOK'
<1> SUFFICES ASSUME ShapeInv, [Next]_vars PROVE FramesOK'
  OBVIOUS
<1>a. Grows /\ failed' \in Nat
  BY StepGrows DEF Grows
<1>b. /\ frames \in Seq(FrameSet) /\ failed \in Nat /\ functions \in Seq(FuncDef)
      /\ \A n \in 1..Len(frames) : frames[n] \in FrameSet /\ FrameOK(frames[n])
  <2> HIDE DEF FrameSet, FuncDef
  <2> QED BY DEF ShapeInv, FramesOK, TablesOK
<1>1. CASE WalkNext \/ WalkInstance \/ WalkCallee
  <2>1. PICK f, fs : VisitOf(f, fs)
    BY <1>1, StepVisits
  <2>2. f \in 1..Len(functions) /\ Visit(f, fs) /\ functions' = functions
    BY <2>1, VisitOfParts
  <2>3. fs \in Seq(FrameSet) /\ \A n \in 1..Len(fs) : FrameOK(fs[n])'
    BY <1>a, <2>1, VisitFrames
  <2>4. CASE frames' = fs
    BY <1>a, <2>3, <2>4, FramesFrom
  <2>5. CASE frames' # fs
    <3>1. frames' = Append(fs, Frame(f)) /\ ~ IsTemplateFunc(functions[f]) /\ visited' = visited \cup {f}
      BY <1>b, <2>2, <2>5, VisitParts DEF ShapeInv
    <3>2. Len(functions[f].body) \in Nat
      BY <2>2, FunctionParts DEF ShapeInv, TablesOK
    <3>5. 0 <= Len(functions)
      <4> HIDE DEF FuncDef
      <4> QED BY <1>b
    <3>3. PICK fr : fr = Frame(f) /\ fr = [func |-> f, pc |-> 1, stage |-> "stmt", target |-> 0, saved |-> 0]
      BY DEF Frame
    <3>6. fr \in FrameSet
      BY <2>2, <3>3 DEF FrameSet, Stages
    <3>4. FrameOK(fr)'
      BY <1>a, <2>2, <3>1, <3>2, <3>5, <3>3 DEF FrameOK, IsTemplateFunc
    <3>8. PICK gs : gs = Append(fs, fr) /\ gs = frames'
      BY <3>1, <3>3
    <3>9. gs \in Seq(FrameSet) /\ Len(gs) = Len(fs) + 1 /\ gs[Len(fs) + 1] = fr /\ Len(fs) \in Nat
          /\ \A n \in 1..Len(fs) : gs[n] = fs[n]
      <4>1. PICK S : S = FrameSet
        OBVIOUS
      <4>2. fs \in Seq(S) /\ fr \in S
        BY <2>3, <3>6, <4>1
      <4>3. /\ Append(fs, fr) \in Seq(S) /\ Len(fs) \in Nat /\ Len(Append(fs, fr)) = Len(fs) + 1
            /\ Append(fs, fr)[Len(fs) + 1] = fr
            /\ \A n \in 1..Len(fs) : Append(fs, fr)[n] = fs[n]
        BY <4>2, AppendParts
      <4> QED BY <3>8, <4>1, <4>3
    <3>7. \A n \in 1..Len(gs) : FrameOK(gs[n])'
      <4> SUFFICES ASSUME NEW n \in 1..Len(gs) PROVE FrameOK(gs[n])'
        OBVIOUS
      <4>1. CASE n = Len(fs) + 1
        BY <3>4, <3>9, <4>1
      <4>2. CASE n \in 1..Len(fs)
        BY <2>3, <3>9, <4>2
      <4> QED BY <3>9, <4>1, <4>2
    <3> QED BY <1>a, <3>8, <3>9, <3>7, FramesFrom
  <2> QED BY <2>4, <2>5
<1>2. CASE Value \/ CallUnresolved \/ CallFails \/ CallReturns
  <2>1. frames # <<>> /\ Top.pc <= Len(Here.body) /\ frames' = Advanced
    BY <1>2 DEF Value, CallUnresolved, CallFails, CallReturns, At
  <2>2. PICK fs : fs = Advanced
    OBVIOUS
  <2>3. fs \in Seq(FrameSet) /\ \A n \in 1..Len(fs) : FrameOK(fs[n])'
    BY <1>a, <2>1, <2>2, AdvancedOK
  <2> QED BY <1>a, <2>1, <2>2, <2>3, FramesFrom
<1>3. CASE CallResolved
  <2>1. PICK t \in Found : /\ ~ IsTemplateFunc(functions[t])
                           /\ frames' = Replaced([To("resolved") EXCEPT !.target = t])
    BY <1>3 DEF CallResolved
  <2>2. At("stmt") /\ IsCall(Stmt) /\ functions' = functions /\ toplevel' = toplevel /\ visited' = visited
    BY <1>3 DEF CallResolved
  <2>3. Callable(t)
    BY <2>1, <2>2, SelectedCallable
  <2>4. t \in 1..Len(functions') /\ Callable(t)' /\ ~ IsTemplateFunc(functions'[t])
    BY <2>2, <2>3 DEF Callable, IsTemplateFunc
  <2>5. PICK fs : fs = Replaced([To("resolved") EXCEPT !.target = t])
    OBVIOUS
  <2>6. fs \in Seq(FrameSet) /\ \A n \in 1..Len(fs) : FrameOK(fs[n])'
    BY <1>a, <2>2, <2>4, <2>5, TargetOK
  <2> QED BY <1>a, <2>1, <2>5, <2>6, FramesFrom
<1>4. CASE Instantiate
  <2>1. PICK f \in Found :
            /\ functions' = Append(functions, [functions[f] EXCEPT !.params = ArgTypes])
            /\ frames' = Replaced([To("instance") EXCEPT !.target = Len(functions) + 1])
    BY <1>4 DEF Instantiate
  <2>2. At("stmt") /\ IsCall(Stmt)
    BY <1>4 DEF Instantiate
  <2>3. PICK d : d = [functions[f] EXCEPT !.params = ArgTypes]
    OBVIOUS
  <2>4. d \in FuncDef /\ ~ IsTemplateFunc(d)
    BY <2>2, <2>3, InstanceParts DEF ShapeInv
  <2>5. PICK t : t = Len(functions) + 1
    OBVIOUS
  <2>6. t \in 1..Len(functions') /\ functions'[t] = d
    <3> HIDE DEF FuncDef
    <3> QED BY <1>b, <2>1, <2>3, <2>4, <2>5
  <2>7. PICK fs : fs = Replaced([To("instance") EXCEPT !.target = t])
    OBVIOUS
  <2>9. ~ IsTemplateFunc(functions'[t]) /\ "instance" # "resolved"
    BY <2>4, <2>6
  <2>8. fs \in Seq(FrameSet) /\ \A n \in 1..Len(fs) : FrameOK(fs[n])'
    <3>1. ASSUME NEW stage \in {"instance", "resolved"}, stage = "instance"
          PROVE  fs \in Seq(FrameSet) /\ \A n \in 1..Len(fs) : FrameOK(fs[n])'
      <4>1. fs = Replaced([To(stage) EXCEPT !.target = t])
        BY <2>7, <3>1
      <4> QED BY <1>a, <2>2, <2>6, <2>9, <3>1, <4>1, TargetOK
    <3> QED BY <3>1
  <2> QED BY <1>a, <2>1, <2>5, <2>7, <2>8, FramesFrom
<1>5. CASE Leave
  <2>1. frames # <<>> /\ frames' = Front(frames)
    BY <1>5 DEF Leave
  <2>2. PICK fs : fs = Front(frames)
    OBVIOUS
  <2>3. fs \in Seq(FrameSet) /\ Len(fs) = Len(frames) - 1 /\ \A n \in 1..Len(fs) : fs[n] = frames[n] /\ n \in 1..Len(frames)
    <3> HIDE DEF FrameSet
    <3> QED BY <1>b, <2>1, <2>2, FrontParts
  <2>4. \A n \in 1..Len(fs) : FrameOK(fs[n])'
    <3> SUFFICES ASSUME NEW n \in 1..Len(fs) PROVE FrameOK(fs[n])'
      OBVIOUS
    <3>1. PICK fr \in FrameSet : fr = fs[n] /\ FrameOK(fr)
      BY <1>b, <2>3
    <3>2. FrameOK(fr)'
      BY <1>a, <3>1, FrameGrows
    <3> QED BY <3>1, <3>2
  <2> QED BY <1>a, <2>1, <2>2, <2>3, <2>4, FramesFrom
<1>6. CASE Finish \/ Done \/ UNCHANGED vars
  <2>1. frames' = frames
    BY <1>6 DEF Finish, Done, vars
  <2>2. PICK fs : fs = frames
    OBVIOUS
  <2>3. \A n \in 1..Len(fs) : FrameOK(fs[n])'
    <3> SUFFICES ASSUME NEW n \in 1..Len(fs) PROVE FrameOK(fs[n])'
      OBVIOUS
    <3>1. PICK fr \in FrameSet : fr = fs[n] /\ FrameOK(fr)
      BY <1>b, <2>2
    <3>2. FrameOK(fr)'
      BY <1>a, <3>1, FrameGrows
    <3> QED BY <3>1, <3>2
  <2> QED BY <1>a, <1>b, <2>1, <2>2, <2>3, FramesFrom
<1> QED
  BY <1>1, <1>2, <1>3, <1>4, <1>5, <1>6 DEF Next, Step

(* and what has been reached among the functions.                           *)
LEMMA StepReached == ShapeInv /\ [Next]_vars => ReachedOK'
<1> SUFFICES ASSUME ShapeInv, [Next]_vars PROVE ReachedOK'
  OBVIOUS
<1>a. Grows
  BY StepGrows
<1>b. /\ Len(functions) \in Nat /\ toplevel \in 0..Len(functions) /\ walked \in 0..toplevel
      /\ visited \subseteq 1..Len(functions) /\ \A i \in 1..walked : i \in visited
  <2>1. functions \in Seq(FuncDef)
    BY DEF ShapeInv, TablesOK
  <2>2. Len(functions) \in Nat
    <3> HIDE DEF FuncDef
    <3> QED BY <2>1
  <2> QED BY <2>2 DEF ShapeInv, ReachedOK
<1>c. \A i \in (toplevel + 1)..Len(functions) :
         i \in visited \/ (frames # <<>> /\ Top.stage = "instance" /\ Top.target = i)
  BY DEF ShapeInv, ReachedOK
<1>1. CASE WalkNext \/ WalkInstance \/ WalkCallee
  <2>1. PICK f, fs : VisitOf(f, fs)
    BY <1>1, StepVisits
  <2>2. f \in 1..Len(functions) /\ Visit(f, fs) /\ functions' = functions /\ toplevel' = toplevel
    BY <2>1, VisitOfParts
  <2>3. visited' = visited \cup {f}
    BY <2>2, VisitParts DEF ShapeInv, FramesOK
  <2>4. walked' \in 0..toplevel' /\ \A i \in 1..walked' : i \in visited'
    <3>1. CASE WalkNext /\ f = walked + 1
      BY <1>b, <2>2, <2>3, <3>1 DEF WalkNext
    <3>2. CASE WalkInstance \/ WalkCallee
      BY <1>b, <2>2, <2>3, <3>2 DEF WalkInstance, WalkCallee
    <3> QED BY <2>1, <3>1, <3>2 DEF VisitOf
  <2>5. \A i \in (toplevel + 1)..Len(functions) : i \in visited'
    <3>1. CASE WalkNext
      BY <1>c, <2>3, <3>1 DEF WalkNext
    <3>2. CASE WalkCallee
      BY <1>c, <2>3, <3>2 DEF WalkCallee, At
    <3>3. CASE WalkInstance /\ f = Top.target
      BY <1>c, <2>3, <3>3
    <3> QED BY <2>1, <3>1, <3>2, <3>3 DEF VisitOf
  <2> QED BY <1>b, <2>2, <2>3, <2>4, <2>5 DEF ReachedOK
<1>2. CASE Instantiate
  <2>1. PICK f \in Found :
            /\ functions' = Append(functions, [functions[f] EXCEPT !.params = ArgTypes])
            /\ frames' = Replaced([To("instance") EXCEPT !.target = Len(functions) + 1])
    BY <1>2 DEF Instantiate
  <2>2. /\ At("stmt") /\ IsCall(Stmt) /\ Top.stage = "stmt"
        /\ toplevel' = toplevel /\ visited' = visited /\ walked' = walked
    BY <1>2 DEF Instantiate, At
  <2>3. PICK d : d = [functions[f] EXCEPT !.params = ArgTypes]
    OBVIOUS
  <2>4. d \in FuncDef /\ ~ IsTemplateFunc(d)
    BY <2>2, <2>3, InstanceParts DEF ShapeInv
  <2>5. PICK t : t = Len(functions) + 1
    OBVIOUS
  <2>6. t \in 1..Len(functions') /\ functions'[t] = d /\ Len(functions') = t
    <3>1. PICK S : S = FuncDef /\ functions \in Seq(S) /\ d \in S
      BY <2>4 DEF ShapeInv, TablesOK
    <3> QED BY <1>b, <2>1, <2>3, <2>5, <3>1, AppendParts
  <2>7. PICK fs : fs = Replaced([To("instance") EXCEPT !.target = t])
    OBVIOUS
  <2>8. fs # <<>> /\ Last(fs).stage = "instance" /\ Last(fs).target = t
    <3>1. ~ IsTemplateFunc(functions'[t])
      BY <2>4, <2>6
    <3>2. ASSUME NEW stage \in {"instance", "resolved"}, stage = "instance"
          PROVE  fs # <<>> /\ Last(fs).stage = stage /\ Last(fs).target = t
      <4>1. fs = Replaced([To(stage) EXCEPT !.target = t])
        BY <2>7, <3>2
      <4> QED BY <1>a, <2>2, <2>6, <3>1, <3>2, <4>1, TargetOK
    <3> QED BY <3>2
  <2>9. frames' = fs
    BY <2>1, <2>5, <2>7
  <2>10. \A i \in (toplevel + 1)..Len(functions) : i \in visited
    BY <1>c, <2>2
  <2>11. (frames # <<>> /\ Top.stage = "instance" /\ Top.target = t)'
    BY <2>5, <2>8, <2>9 DEF Top
  <2>12. \A i \in (toplevel + 1)..t : i \in visited \/ i = t
    BY <1>b, <2>5, <2>10
  <2> QED BY <1>b, <2>2, <2>5, <2>6, <2>11, <2>12 DEF ReachedOK
<1>3. CASE Value \/ CallUnresolved \/ CallResolved \/ CallFails \/ CallReturns \/ Leave
  <2>1. Top.stage # "instance"
    BY <1>3 DEF Value, CallUnresolved, CallResolved, CallFails, CallReturns, Leave, At
  <2>2. functions' = functions /\ toplevel' = toplevel /\ visited' = visited /\ walked' = walked
    BY <1>3 DEF Value, CallUnresolved, CallResolved, CallFails, CallReturns, Leave
  <2> QED BY <1>b, <1>c, <2>1, <2>2 DEF ReachedOK
<1>4. CASE Finish \/ Done \/ UNCHANGED vars
  <2>1. /\ functions' = functions /\ toplevel' = toplevel /\ visited' = visited /\ walked' = walked
        /\ frames' = frames
    BY <1>4 DEF Finish, Done, vars
  <2> QED BY <1>b, <1>c, <2>1 DEF ReachedOK, Top
<1> QED
  BY <1>1, <1>2, <1>3, <1>4 DEF Next, Step

(* The tables after the instantiation of template f as d, the next one.     *)
Instantiated(m, f, d, ts, cs) ==
    /\ m = Len(functions) /\ IsFunction(d) /\ ~ IsTemplateFunc(d) /\ d.declared = functions[f].declared
    /\ functions' \in Seq(FuncDef) /\ Len(functions') = m + 1 /\ functions'[m + 1] = d
    /\ ret_type' \in Seq(Type) /\ Len(ret_type') = m + 1 /\ ret_type'[m + 1] = d.declared
    /\ typed' \in Seq(Seq(Type)) /\ Len(typed') = m + 1 /\ typed'[m + 1] = ts
    /\ callee' \in Seq(Seq(Nat)) /\ Len(callee') = m + 1 /\ callee'[m + 1] = cs
    /\ Len(ts) = Len(d.body) /\ Len(cs) = Len(d.body)
    /\ \A k \in 1..Len(d.body) : ts[k] = NoType /\ cs[k] = 0
    /\ \A i \in 1..m : /\ functions'[i] = functions[i] /\ ret_type'[i] = ret_type[i]
                       /\ typed'[i] = typed[i] /\ callee'[i] = callee[i]

(* An instance has an entry of its own in every table.                      *)
LEMMA InstantiateTables ==
    ASSUME ShapeInv, Instantiate
    PROVE  \E m \in Nat, f \in Found, d \in FuncDef, ts \in Seq(Type), cs \in Seq(Nat) : Instantiated(m, f, d, ts, cs)
<1>a. TablesOK
  BY DEF ShapeInv
<1>b. Len(functions) \in Nat
  <2>1. functions \in Seq(FuncDef)
    BY DEF ShapeInv, TablesOK
  <2> HIDE DEF FuncDef
  <2> QED BY <2>1
<1>1. PICK f \in Found :
          /\ functions' = Append(functions, [functions[f] EXCEPT !.params = ArgTypes])
          /\ ret_type' = Append(ret_type, functions[f].declared)
          /\ typed' = Append(typed, [k \in 1..Len(functions[f].body) |-> NoType])
          /\ callee' = Append(callee, [k \in 1..Len(functions[f].body) |-> 0])
  BY DEF Instantiate
<1>2. At("stmt") /\ f \in 1..Len(functions)
  BY FoundParts DEF Instantiate
<1>3. PICK d : d = [functions[f] EXCEPT !.params = ArgTypes]
  OBVIOUS
<1>4. d \in FuncDef /\ IsFunction(d) /\ d.body = functions[f].body
  BY <1>2, <1>3, InstanceParts DEF ShapeInv
<1>5. functions[f].declared \in Type /\ Len(functions[f].body) \in Nat
  BY <1>a, <1>2, FunctionParts DEF TablesOK
<1>6. PICK n \in Nat : n = Len(functions[f].body)
  BY <1>5
<1>7. NoType \in Type
  BY BasesAssumption DEF NoType, any_type, Type
<1> DEFINE ts == [k \in 1..n |-> NoType]
           cs == [k \in 1..n |-> 0]
<1>8. ts \in Seq(Type) /\ Len(ts) = n /\ \A k \in 1..n : ts[k] = NoType
  <2>1. PICK S : S = Type /\ NoType \in S
    BY <1>7
  <2> QED BY <2>1
<1>9. cs \in Seq(Nat) /\ Len(cs) = n /\ \A k \in 1..n : cs[k] = 0
  OBVIOUS
<1>10. typed' = Append(typed, ts) /\ callee' = Append(callee, cs)
  BY <1>1, <1>6
<1> HIDE DEF ts, cs
<1>11. PICK m \in Nat : /\ m = Len(functions) /\ m = Len(ret_type)
                        /\ m = Len(typed) /\ m = Len(callee)
  BY <1>a, <1>b DEF TablesOK
<1>12. /\ functions' \in Seq(FuncDef) /\ Len(functions') = m + 1 /\ functions'[m + 1] = d
       /\ \A i \in 1..m : functions'[i] = functions[i]
  <2>1. PICK S : S = FuncDef /\ functions \in Seq(S) /\ d \in S
    BY <1>a, <1>4 DEF TablesOK
  <2>2. functions' = Append(functions, d)
    BY <1>1, <1>3
  <2>4. functions \in Seq(S) /\ d \in S
    BY <2>1
  <2>3. /\ functions' \in Seq(S) /\ Len(functions') = m + 1 /\ functions'[m + 1] = d
        /\ \A i \in 1..m : functions'[i] = functions[i]
    <3>1. /\ Append(functions, d) \in Seq(S) /\ Len(functions) \in Nat
          /\ Len(Append(functions, d)) = Len(functions) + 1 /\ Append(functions, d)[Len(functions) + 1] = d
          /\ \A j \in 1..Len(functions) : Append(functions, d)[j] = functions[j]
      BY <2>4, AppendParts
    <3> QED BY <2>2, <1>11, <3>1
  <2> QED BY <2>1, <2>3
<1>13. /\ ret_type' \in Seq(Type) /\ Len(ret_type') = m + 1 /\ ret_type'[m + 1] = functions[f].declared
       /\ \A i \in 1..m : ret_type'[i] = ret_type[i]
  <2>1. PICK S : S = Type /\ ret_type \in Seq(S) /\ functions[f].declared \in S
    BY <1>a, <1>5 DEF TablesOK
  <2>3. ret_type \in Seq(S) /\ functions[f].declared \in S
    BY <2>1
  <2>2. /\ ret_type' \in Seq(S) /\ Len(ret_type') = m + 1 /\ ret_type'[m + 1] = functions[f].declared
        /\ \A i \in 1..m : ret_type'[i] = ret_type[i]
    <3>1. /\ Append(ret_type, functions[f].declared) \in Seq(S) /\ Len(ret_type) \in Nat
          /\ Len(Append(ret_type, functions[f].declared)) = Len(ret_type) + 1 /\ Append(ret_type, functions[f].declared)[Len(ret_type) + 1] = functions[f].declared
          /\ \A j \in 1..Len(ret_type) : Append(ret_type, functions[f].declared)[j] = ret_type[j]
      BY <2>3, AppendParts
    <3> QED BY <1>1, <1>11, <3>1
  <2> QED BY <2>1, <2>2
<1>14. /\ typed' \in Seq(Seq(Type)) /\ Len(typed') = m + 1 /\ typed'[m + 1] = ts
       /\ \A i \in 1..m : typed'[i] = typed[i]
  <2>1. PICK S : S = Seq(Type) /\ typed \in Seq(S) /\ ts \in S
    BY <1>a, <1>8 DEF TablesOK
  <2>3. typed \in Seq(S) /\ ts \in S
    BY <2>1
  <2>2. /\ typed' \in Seq(S) /\ Len(typed') = m + 1 /\ typed'[m + 1] = ts
        /\ \A i \in 1..m : typed'[i] = typed[i]
    <3>1. /\ Append(typed, ts) \in Seq(S) /\ Len(typed) \in Nat
          /\ Len(Append(typed, ts)) = Len(typed) + 1 /\ Append(typed, ts)[Len(typed) + 1] = ts
          /\ \A j \in 1..Len(typed) : Append(typed, ts)[j] = typed[j]
      BY <2>3, AppendParts
    <3> QED BY <1>10, <1>11, <3>1
  <2> QED BY <2>1, <2>2
<1>15. /\ callee' \in Seq(Seq(Nat)) /\ Len(callee') = m + 1 /\ callee'[m + 1] = cs
       /\ \A i \in 1..m : callee'[i] = callee[i]
  <2>1. PICK S : S = Seq(Nat) /\ callee \in Seq(S) /\ cs \in S
    BY <1>a, <1>9 DEF TablesOK
  <2> QED BY <1>10, <1>11, <2>1, AppendParts
<1> QED
  <2>1. d \in FuncDef /\ IsFunction(d) /\ ~ IsTemplateFunc(d) /\ d.declared = functions[f].declared
    BY <1>2, <1>3, InstanceParts DEF ShapeInv
  <2>2. Len(ts) = Len(d.body) /\ Len(cs) = Len(d.body) /\ \A k \in 1..Len(d.body) : ts[k] = NoType /\ cs[k] = 0
    BY <1>4, <1>6, <1>8, <1>9
  <2>3. \A i \in 1..m : /\ functions'[i] = functions[i] /\ ret_type'[i] = ret_type[i]
                       /\ typed'[i] = typed[i] /\ callee'[i] = callee[i]
    BY <1>12, <1>13, <1>14, <1>15
  <2>4. Instantiated(m, f, d, ts, cs)
    BY <1>11, <1>12, <1>13, <1>14, <1>15, <2>1, <2>2, <2>3 DEF Instantiated
  <2>5. ts \in Seq(Type) /\ cs \in Seq(Nat)
    BY <1>8, <1>9
  <2> HIDE DEF FuncDef, Found, Type
  <2> QED BY <2>1, <2>4, <2>5

(* Every step keeps an entry for every function in every table.             *)
LEMMA StepTables == ShapeInv /\ [Next]_vars => TablesOK'
<1> SUFFICES ASSUME ShapeInv, [Next]_vars PROVE TablesOK'
  OBVIOUS
<1>a. TablesOK /\ failed \in Nat
  BY DEF ShapeInv, FramesOK
<1>b. Len(functions) \in Nat
  <2>1. functions \in Seq(FuncDef)
    BY DEF ShapeInv, TablesOK
  <2> HIDE DEF FuncDef
  <2> QED BY <2>1
<1>k. ASSUME functions' = functions, typed' = typed, callee' = callee,
             ret_type' \in Seq(Type), Len(ret_type') = Len(ret_type)
      PROVE  TablesOK'
  BY <1>a, <1>k DEF TablesOK
<1>1. CASE WalkNext \/ WalkInstance \/ WalkCallee
  <2>1. PICK f, fs : VisitOf(f, fs)
    BY <1>1, StepVisits
  <2>2. /\ f \in 1..Len(functions) /\ Visit(f, fs)
        /\ functions' = functions /\ typed' = typed /\ callee' = callee
    BY <2>1, VisitOfParts
  <2>3. ret_type' \in Seq(Type) /\ Len(ret_type') = Len(ret_type)
    BY <1>a, <2>2, VisitParts DEF ShapeInv
  <2> QED BY <1>k, <2>2, <2>3
<1>2. ASSUME frames # <<>>, Top.pc <= Len(Here.body), NEW t \in Type, NEW c \in 0..Len(functions),
             functions' = functions, ret_type' = ret_type,
             typed' = TypedAs(t),
             \/ callee' = callee
             \/ callee' = CalleeAs(c)
      PROVE  TablesOK'
  <2>0. frames # <<>> /\ Top.pc <= Len(Here.body)
    BY <1>2
  <2>1. PICK f, pc, u, v :
        /\ f = Top.func /\ pc = Top.pc /\ u = TypedAs(t) /\ v = CalleeAs(c)
        /\ u \in Seq(Seq(Type)) /\ Len(u) = Len(functions)
        /\ v \in Seq(Seq(Nat)) /\ Len(v) = Len(functions)
        /\ \A i \in 1..Len(functions) :
             /\ Len(u[i]) = Len(typed[i]) /\ Len(v[i]) = Len(callee[i])
             /\ i # f => u[i] = typed[i] /\ v[i] = callee[i]
             /\ \A k \in Body(i) :
                  /\ u[i][k] = IF i = f /\ k = pc THEN t ELSE typed[i][k]
                  /\ v[i][k] = IF i = f /\ k = pc THEN c ELSE callee[i][k]
    BY <2>0, StatementSet
  <2>2. c <= Len(functions)
    BY <1>b, <1>2
  <2>3. typed' = u /\ functions' = functions /\ ret_type' = ret_type
    BY <1>2, <2>1
  <2>4. /\ \A i \in 1..Len(functions) : /\ Len(u[i]) = Len(functions[i].body)
                                        /\ Len(v[i]) = Len(functions[i].body)
                                        /\ \A k \in 1..Len(functions[i].body) : v[i][k] <= Len(functions)
    BY <1>a, <2>1, <2>2 DEF TablesOK, Body
  <2>5. CASE callee' = v
    BY <1>a, <2>1, <2>3, <2>4, <2>5 DEF TablesOK
  <2>6. CASE callee' = callee
    BY <1>a, <2>1, <2>3, <2>4, <2>6 DEF TablesOK
  <2>7. callee' = callee \/ callee' = v
    BY <1>2, <2>1
  <2> QED BY <2>5, <2>6, <2>7
<1>3. CASE Value
  <2>1. At("stmt") /\ ~ IsCall(Stmt)
    BY <1>3 DEF Value
  <2>2. 1 \in 1..Len(Stmt.args)
    <3>1. Top.func \in 1..Len(functions) /\ Top.pc \in 1..Len(Here.body)
      BY <2>1, OperandsConcrete DEF ShapeInv
    <3>2. Len(Stmt.args) = 1
      BY <1>a, <2>1, <3>1 DEF TablesOK, IsFunction, Stmt, Here
    <3> QED BY <3>2
  <2>3. TypeHere(Stmt.args[1]) \in Type
    BY <2>1, <2>2, OperandsConcrete DEF ShapeInv
  <2>4. 0 \in 0..Len(functions) /\ frames # <<>> /\ Top.pc <= Len(Here.body)
    BY <1>b, <2>1 DEF At
  <2> QED BY <1>2, <1>3, <2>3, <2>4 DEF Value, TypedAs, EntryAs
<1>4. CASE CallReturns
  <2>1. frames # <<>> /\ Top.pc <= Len(Here.body) /\ Top.stage \in {"resolved", "walked"}
    BY <1>4 DEF CallReturns, At
  <2>2. Top.target \in 1..Len(functions)
    BY <2>1, TopParts
  <2>3. ret_type[Top.target] \in Type /\ Top.target \in 0..Len(functions)
    BY <1>a, <1>b, <2>2, ReturnTypesAreTypes
  <2> QED BY <1>2, <1>4, <2>1, <2>3 DEF CallReturns, TypedAs, CalleeAs, EntryAs
<1>5. CASE Leave
  <2>1. /\ frames # <<>> /\ functions' = functions /\ typed' = typed /\ callee' = callee
        /\ ret_type' = ret_type \/ ret_type' = [ret_type EXCEPT ![Top.func] = Deduced(Top.func)]
    BY <1>5 DEF Leave
  <2>2. Top.func \in 1..Len(functions)
    BY <2>1, TopParts
  <2>3. Deduced(Top.func) \in Type
    BY <1>a, <2>2, DeducedIsType
  <2>4. ret_type' \in Seq(Type) /\ Len(ret_type') = Len(ret_type)
    <3>1. CASE ret_type' = ret_type
      BY <1>a, <3>1 DEF TablesOK
    <3>2. CASE ret_type' = [ret_type EXCEPT ![Top.func] = Deduced(Top.func)]
      <4>1. PICK f \in 1..Len(functions) : f = Top.func
        BY <2>2
      <4>2. PICK t \in Type : t = Deduced(Top.func)
        BY <2>3
      <4>3. ret_type' = [ret_type EXCEPT ![f] = t]
        BY <3>2, <4>1, <4>2
      <4> QED BY <1>a, <4>3, RetTypeSet
    <3> QED BY <2>1, <3>1, <3>2
  <2> QED BY <1>k, <2>1, <2>4
<1>6. CASE CallUnresolved \/ CallResolved \/ CallFails \/ Finish \/ Done \/ UNCHANGED vars
  <2>1. /\ functions' = functions /\ typed' = typed /\ callee' = callee /\ ret_type' = ret_type
    BY <1>6 DEF CallUnresolved, CallResolved, CallFails, Finish, Done, vars
  <2> QED BY <1>a, <2>1 DEF TablesOK
<1>7. CASE Instantiate
  <2>1. PICK m \in Nat, f \in Found, d \in FuncDef, ts \in Seq(Type), cs \in Seq(Nat) : Instantiated(m, f, d, ts, cs)
    BY <1>7, InstantiateTables
  <2>12. /\ functions' \in Seq(FuncDef) /\ Len(functions') = m + 1 /\ functions'[m + 1] = d
         /\ \A i \in 1..m : functions'[i] = functions[i]
    BY <2>1 DEF Instantiated
  <2>13. ret_type' \in Seq(Type) /\ Len(ret_type') = m + 1
    BY <2>1 DEF Instantiated
  <2>14. /\ typed' \in Seq(Seq(Type)) /\ Len(typed') = m + 1 /\ typed'[m + 1] = ts
         /\ \A i \in 1..m : typed'[i] = typed[i]
    BY <2>1 DEF Instantiated
  <2>15. /\ callee' \in Seq(Seq(Nat)) /\ Len(callee') = m + 1 /\ callee'[m + 1] = cs
         /\ \A i \in 1..m : callee'[i] = callee[i]
    BY <2>1 DEF Instantiated
  <2>8. Len(ts) = Len(d.body) /\ Len(cs) = Len(d.body) /\ \A k \in 1..Len(d.body) : cs[k] <= m + 1
    BY <2>1 DEF Instantiated
  <2>11. m = Len(functions) /\ IsFunction(d)
    BY <2>1 DEF Instantiated
  <2>16. \A i \in 1..(m + 1) : IsFunction(functions'[i])
    <3> SUFFICES ASSUME NEW i \in 1..(m + 1) PROVE IsFunction(functions'[i])
      OBVIOUS
    <3>1. CASE i = m + 1
      BY <2>11, <2>12, <3>1
    <3>2. CASE i # m + 1
      <4>1. i \in 1..m
        BY <2>11, <3>2
      <4> QED BY <1>a, <2>11, <2>12, <4>1 DEF TablesOK
    <3> QED BY <3>1, <3>2
  <2>17. ASSUME NEW i \in 1..(m + 1)
         PROVE  /\ Len(typed'[i]) = Len(functions'[i].body) /\ Len(callee'[i]) = Len(functions'[i].body)
                /\ \A k \in 1..Len(functions'[i].body) : callee'[i][k] <= Len(functions')
    <3>1. CASE i = m + 1
      BY <2>8, <2>12, <2>14, <2>15, <3>1
    <3>2. CASE i # m + 1
      <4>1. i \in 1..m
        BY <2>11, <3>2
      <4>2. /\ Len(typed[i]) = Len(functions[i].body) /\ Len(callee[i]) = Len(functions[i].body)
            /\ callee[i] \in Seq(Nat)
            /\ \A k \in 1..Len(functions[i].body) : callee[i][k] <= m
        BY <1>a, <2>11, <4>1 DEF TablesOK
      <4>3. \A k \in 1..Len(callee[i]) : callee[i][k] \in Nat
        BY <4>2
      <4>4. \A k \in 1..Len(functions[i].body) : callee[i][k] <= m + 1
        BY <4>2, <4>3
      <4>5. Len(functions') = m + 1 /\ functions'[i] = functions[i] /\ typed'[i] = typed[i] /\ callee'[i] = callee[i]
        BY <2>12, <2>14, <2>15, <4>1
      <4> QED BY <4>2, <4>4, <4>5
    <3> QED BY <3>1, <3>2
  <2>18. (\A i \in 1..Len(functions) : IsFunction(functions[i]))'
    BY <2>12, <2>16 DEF IsFunction
  <2> QED BY <2>12, <2>13, <2>14, <2>15, <2>17, <2>18 DEF TablesOK
<1> QED
  BY <1>1, <1>3, <1>4, <1>5, <1>6, <1>7 DEF Next, Step

(* ShapeInv holds at the start.                                             *)
LEMMA InitShape == Init => ShapeInv
<1> SUFFICES ASSUME Init PROVE ShapeInv
  OBVIOUS
<1>1. functions \in Programs /\ functions \in Seq(FuncDef)
  BY ProgramsAssumption, Zenon DEF Init
<1>2. \A i \in 1..Len(functions) : IsFunction(functions[i])
  BY <1>1, ProgramsAssumption DEF IsProgram
<1>3. PICK n \in Nat : n = Len(functions)
  <2> HIDE DEF FuncDef
  <2> QED BY <1>1
<1>4. NoType \in Type
  BY BasesAssumption DEF NoType, any_type, Type
<1>5. \A i \in 1..n : functions[i].declared \in Type /\ Len(functions[i].body) \in Nat
  BY <1>1, <1>3, FunctionParts
<1>6. ret_type \in Seq(Type) /\ Len(ret_type) = n
  <2>1. ret_type = [i \in 1..n |-> functions[i].declared]
    BY <1>3 DEF Init
  <2>2. PICK S : S = Type /\ ret_type \in [1..n -> S]
    BY <1>5, <2>1
  <2>3. ret_type \in [1..n -> S]
    BY <2>2
  <2>4. ret_type \in Seq(S) /\ Len(ret_type) = n
    BY <2>3
  <2> QED BY <2>2, <2>4
<1>7. /\ typed \in Seq(Seq(Type)) /\ Len(typed) = n
      /\ \A i \in 1..n : Len(typed[i]) = Len(functions[i].body)
  <2>1. typed = [i \in 1..n |-> [k \in 1..Len(functions[i].body) |-> NoType]]
    BY <1>3 DEF Init
  <2>2. PICK S : S = Type
    OBVIOUS
  <2>3. NoType \in S
    BY <1>4, <2>2
  <2>4. ASSUME NEW m \in Nat PROVE LET t == [k \in 1..m |-> NoType] IN t \in Seq(S) /\ Len(t) = m
    BY <2>3
  <2>5. \A i \in 1..n : typed[i] \in Seq(S) /\ Len(typed[i]) = Len(functions[i].body)
    BY <1>5, <2>1, <2>4
  <2>6. typed \in [1..n -> Seq(S)]
    BY <2>1, <2>5
  <2>7. typed \in Seq(Seq(S)) /\ Len(typed) = n
    BY <2>6
  <2> QED BY <2>2, <2>5, <2>7
<1>8. /\ callee \in Seq(Seq(Nat)) /\ Len(callee) = n
      /\ \A i \in 1..n : /\ Len(callee[i]) = Len(functions[i].body)
                         /\ \A k \in 1..Len(functions[i].body) : callee[i][k] = 0
  <2>1. callee = [i \in 1..n |-> [k \in 1..Len(functions[i].body) |-> 0]]
    BY <1>3 DEF Init
  <2>2. ASSUME NEW m \in Nat PROVE LET t == [k \in 1..m |-> 0] IN t \in Seq(Nat) /\ Len(t) = m
    OBVIOUS
  <2>3. \A i \in 1..n : callee[i] \in Seq(Nat) /\ Len(callee[i]) = Len(functions[i].body)
    BY <1>5, <2>1, <2>2
  <2>4. callee \in [1..n -> Seq(Nat)]
    BY <2>1, <2>3
  <2>5. callee \in Seq(Seq(Nat)) /\ Len(callee) = n
    BY <2>4
  <2> QED BY <2>1, <2>3, <2>5
<1>9. TablesOK
  <2>1. \A i \in 1..n : /\ Len(typed[i]) = Len(functions[i].body) /\ Len(callee[i]) = Len(functions[i].body)
                        /\ \A k \in 1..Len(functions[i].body) : callee[i][k] <= n
    BY <1>7, <1>8
  <2>2. /\ typed \in Seq(Seq(Type)) /\ Len(typed) = n
        /\ callee \in Seq(Seq(Nat)) /\ Len(callee) = n
    BY <1>7, <1>8
  <2> QED BY <1>1, <1>2, <1>3, <1>6, <2>1, <2>2 DEF TablesOK
<1>10. ReachedOK
  BY <1>3 DEF Init, ReachedOK
<1>11. FramesOK
  <2>1. PICK S : S = FrameSet
    OBVIOUS
  <2>2. <<>> \in Seq(S) /\ Len(<<>>) = 0
    OBVIOUS
  <2>3. frames = <<>> /\ failed = 0
    BY DEF Init
  <2> QED BY <2>1, <2>2, <2>3 DEF FramesOK
<1> QED
  BY <1>9, <1>10, <1>11 DEF ShapeInv

(* ShapeInv is kept by every step.                                          *)
LEMMA NextShape == ShapeInv /\ [Next]_vars => ShapeInv'
  BY StepTables, StepReached, StepFrames DEF ShapeInv

(* The verdict is given behind the walk, and accepts nothing that failed.   *)
Ending ==
    /\ verdict \in {"none", "accepted", "rejected"}
    /\ verdict # "none" => frames = <<>> /\ walked = toplevel
    /\ verdict = "accepted" => failed = 0

(* So is Ending.                                                            *)
LEMMA NextEnding == ShapeInv /\ Ending /\ [Next]_vars => Ending'
<1> SUFFICES ASSUME ShapeInv, Ending, [Next]_vars PROVE Ending'
  OBVIOUS
<1>1. CASE Finish
  <2>1. failed' \in Nat
    BY StepGrows DEF Grows
  <2> QED BY <1>1, <2>1 DEF Finish, Ending
<1>2. CASE Done \/ UNCHANGED vars
  BY <1>2 DEF Done, vars, Ending
<1>3. CASE WalkNext
  BY <1>3 DEF WalkNext, Ending, ShapeInv, ReachedOK
<1>4. CASE \/ Value \/ CallUnresolved \/ CallResolved \/ Instantiate
           \/ WalkInstance \/ WalkCallee \/ CallFails \/ CallReturns \/ Leave
  <2>1. frames # <<>> /\ verdict' = verdict
    BY <1>4 DEF Value, CallUnresolved, CallResolved, Instantiate, WalkInstance, WalkCallee,
                CallFails, CallReturns, Leave, At
  <2> QED BY <2>1 DEF Ending
<1> QED
  BY <1>1, <1>2, <1>3, <1>4 DEF Next, Step

(* The tables keep an entry for every function and statement, instances     *)
(* included, and every frame is somewhere in the body of a function that    *)
(* was visited.                                                             *)
THEOREM FuncAnalysisTypeCorrect == Spec => []TypeOK
<1>1. Init => ShapeInv /\ Ending
  BY InitShape DEF Init, Ending
<1>2. ShapeInv /\ Ending /\ [Next]_vars => (ShapeInv /\ Ending)'
  BY NextShape, NextEnding
<1>3. ShapeInv /\ Ending => TypeOK
  <2> SUFFICES ASSUME ShapeInv, Ending PROVE TypeOK
    OBVIOUS
  <2>1. \A n \in 1..Len(frames) : FrameOK(frames[n])
    BY DEF ShapeInv, FramesOK
  <2> QED BY <2>1 DEF ShapeInv, TablesOK, ReachedOK, FramesOK, FrameOK, Ending, TypeOK
<1> QED
  BY <1>1, <1>2, <1>3, PTL DEF Spec

-----------------------------------------------------------------------------
(* What holds as long as nothing has failed.                                *)

(* A call whose statement has been left: its callee has a return type, and  *)
(* the call has that type.                                                  *)
PassedCall(i, k) ==
    LET g == callee[i][k]
    IN  /\ Callable(g) /\ ret_type[g] # NoType
        /\ TemplateReturn(g) \/ typed[i][k] = ret_type[g]
        /\ functions[i].body[k].call # "main"
Passed(i, k) == IsCall(functions[i].body[k]) => PassedCall(i, k)

(* A function whose body is walked up to statement pc: what is behind that  *)
(* has no type yet, and a return type the function has was declared or      *)
(* guessed from its returns.                                                *)
WalkOK(i, pc) ==
    /\ \A k \in Body(i) : IF k < pc THEN Passed(i, k) ELSE typed[i][k] = NoType
    /\ ret_type[i] # NoType => ret_type[i] = functions[i].declared \/ ret_type[i] \in ReturnTypes(i)

LeftOK(i) == SoundReturns(i) /\ \A k \in Body(i) : Passed(i, k)

OnStack == {frames[n].func : n \in 1..Len(frames)}
Fresh == \A i \in 1..Len(functions) : i \notin visited =>
    /\ ret_type[i] = functions[i].declared
    /\ \A k \in Body(i) : typed[i][k] = NoType
Walking == \A n \in 1..Len(frames) : WalkOK(frames[n].func, frames[n].pc)
Left == \A i \in Analyzed \ OnStack : LeftOK(i)

SoundInv == failed = 0 => Fresh /\ Walking /\ Left

(* A return type that is known changes only when its function is left, and  *)
(* only if it was declared as a template.                                   *)
Rets == \A g \in 1..Len(functions) : ret_type[g] # NoType =>
    \/ ret_type'[g] = ret_type[g]
    \/ TemplateReturn(g) /\ ret_type'[g] # NoType

Untouched(i) ==
    i \in 1..Len(functions) /\ typed'[i] = typed[i] /\ callee'[i] = callee[i]

(* A function that can be called stays the same function.                   *)
LEMMA CallableGrows ==
    ASSUME ShapeInv, Grows, NEW g, Callable(g)
    PROVE  Callable(g)' /\ functions'[g] = functions[g]
<1>1. Len(functions) \in Nat /\ Len(functions') \in Int
  <2>1. functions \in Seq(FuncDef)
    BY DEF ShapeInv, TablesOK
  <2>2. Len(functions) \in Nat
    <3> HIDE DEF FuncDef
    <3> QED BY <2>1
  <2> QED BY <2>2 DEF Grows
<1> QED
  BY <1>1 DEF Callable, Grows, IsTemplateFunc

(* A statement that was passed stays so.                                    *)
LEMMA PassedStays ==
    ASSUME ShapeInv, Grows, Rets, NEW i \in 1..Len(functions), NEW k \in Body(i), Passed(i, k),
           typed'[i][k] = typed[i][k], callee'[i][k] = callee[i][k]
    PROVE  Passed(i, k)'
<1>1. functions'[i] = functions[i]
  BY DEF Grows
<1>2. SUFFICES ASSUME PassedCall(i, k) PROVE PassedCall(i, k)'
  BY <1>1 DEF Passed, IsCall
<1>3. PICK g : g = callee[i][k] /\ g = callee'[i][k]
  OBVIOUS
<1>4. /\ Callable(g) /\ ret_type[g] # NoType
      /\ TemplateReturn(g) \/ typed[i][k] = ret_type[g]
      /\ functions[i].body[k].call # "main"
  BY <1>2, <1>3 DEF PassedCall
<1>5. Callable(g)' /\ functions'[g] = functions[g] /\ g \in 1..Len(functions)
  BY <1>4, CallableGrows DEF Callable
<1>6. TemplateReturn(g)' = TemplateReturn(g)
  BY <1>5 DEF TemplateReturn, is_template
<1>7. ret_type'[g] # NoType /\ (TemplateReturn(g)' \/ typed'[i][k] = ret_type'[g])
  BY <1>4, <1>5, <1>6 DEF Rets, NoType, any_type
<1> QED
  BY <1>1, <1>3, <1>4, <1>5, <1>7 DEF PassedCall, Callable

(* A body that no step has touched has the types it had.                    *)
LEMMA UntouchedStays ==
    ASSUME ShapeInv, Grows, NEW i, Untouched(i)
    PROVE  /\ functions'[i] = functions[i] /\ Body(i)' = Body(i) /\ ReturnTypes(i)' = ReturnTypes(i)
           /\ Rets => \A k \in Body(i) : Passed(i, k) => Passed(i, k)'
<1>1. functions'[i] = functions[i] /\ i \in 1..Len(functions)
  BY DEF Grows, Untouched
<1>2. ReturnTypes(i)' = ReturnTypes(i)
  BY <1>1 DEF Untouched, ReturnTypes, IsReturn
<1>3. ASSUME Rets, NEW k \in Body(i), Passed(i, k) PROVE Passed(i, k)'
  BY <1>1, <1>3, PassedStays DEF Untouched
<1>4. Body(i)' = Body(i)
  BY <1>1 DEF Body
<1> QED
  BY <1>1, <1>2, <1>3, <1>4

(* So what holds in the middle of such a body still holds,                  *)
LEMMA WalkStays ==
    ASSUME ShapeInv, Grows, Rets, NEW i, NEW pc, Untouched(i), WalkOK(i, pc),
           ret_type'[i] = ret_type[i] \/ ret_type'[i] \in ReturnTypes(i)
    PROVE  WalkOK(i, pc)'
<1>1. /\ functions'[i] = functions[i] /\ Body(i)' = Body(i) /\ ReturnTypes(i)' = ReturnTypes(i)
      /\ \A k \in Body(i) : Passed(i, k) => Passed(i, k)'
  BY UntouchedStays
<1>2. \A k \in Body(i)' : IF k < pc THEN Passed(i, k)' ELSE typed'[i][k] = NoType
  BY <1>1 DEF WalkOK, Untouched
<1>3. ret_type'[i] # NoType => ret_type'[i] = functions'[i].declared \/ ret_type'[i] \in ReturnTypes(i)'
  BY <1>1 DEF WalkOK
<1> QED
  BY <1>2, <1>3 DEF WalkOK, NoType, any_type

(* and what holds of a body that has been left.                             *)
LEMMA LeftStays ==
    ASSUME ShapeInv, Grows, Rets, NEW i, Untouched(i), LeftOK(i), ret_type'[i] = ret_type[i]
    PROVE  LeftOK(i)'
<1>1. /\ functions'[i] = functions[i] /\ Body(i)' = Body(i) /\ ReturnTypes(i)' = ReturnTypes(i)
      /\ \A k \in Body(i) : Passed(i, k) => Passed(i, k)'
  BY UntouchedStays
<1>2. Terminated(i)' = Terminated(i)
  BY <1>1 DEF Terminated
<1>3. SoundReturns(i)'
  BY <1>1, <1>2 DEF LeftOK, SoundReturns, Untouched, IsReturn, NoType, unit, any_type
<1> QED
  BY <1>1, <1>3 DEF LeftOK

(* What holds of all frames makes Walking.                                  *)
LEMMA WalkingFrom ==
    ASSUME NEW fs, frames' = fs, \A n \in 1..Len(fs) : WalkOK(fs[n].func, fs[n].pc)'
    PROVE  Walking'
<1>1. ASSUME NEW n \in 1..Len(frames') PROVE WalkOK(frames[n].func, frames[n].pc)'
  <2>1. PICK i, pc : i = fs[n].func /\ pc = fs[n].pc
    OBVIOUS
  <2>2. WalkOK(i, pc)' /\ frames'[n].func = i /\ frames'[n].pc = pc
    BY <2>1
  <2> QED
    BY <2>2 DEF WalkOK, Passed, PassedCall, Body, Callable, ReturnTypes
<1> QED
  BY <1>1 DEF Walking

(* The functions on the stack are visited and no templates.                 *)
LEMMA FrameFacts ==
    ASSUME ShapeInv
    PROVE  \A n \in 1..Len(frames) :
              /\ frames[n].func \in visited /\ frames[n].func \in 1..Len(functions)
              /\ ~ IsTemplateFunc(functions[frames[n].func])
<1>1. \A n \in 1..Len(frames) : FrameOK(frames[n])
  BY DEF ShapeInv, FramesOK
<1> QED
  BY <1>1 DEF FrameOK, ShapeInv, ReachedOK

(* A new frame begins at the first statement.                               *)
LEMMA FrameIs ==
    ASSUME NEW f \in Nat
    PROVE  Frame(f) \in FrameSet /\ Frame(f).func = f /\ Frame(f).pc = 1
  BY DEF Frame, FrameSet, Stages

(* A visit keeps what is known of functions before, in and behind their walk. *)
LEMMA VisitSound ==
    ASSUME ShapeInv, Grows, Fresh, Walking, Left, failed = 0, failed' = 0,
           NEW f, NEW fs, VisitOf(f, fs)
    PROVE  (Fresh /\ Walking /\ Left)'
<1>1. /\ f \in 1..Len(functions) /\ Visit(f, fs)
      /\ functions' = functions /\ toplevel' = toplevel /\ typed' = typed /\ callee' = callee
  BY VisitOfParts
<1>2. /\ visited' = visited \cup {f}
      /\ \/ frames' = fs
         \/ /\ frames' = Append(fs, Frame(f))
            /\ f \notin visited /\ ~ IsTemplateFunc(functions[f])
      /\ frames' = fs /\ f \notin visited => IsTemplateFunc(functions[f])
      /\ \/ ret_type' = ret_type
         \/ /\ f \in visited /\ ret_type[f] = NoType /\ frames' = fs
            /\ \E t \in ReturnTypes(f) \ {NoType} : ret_type' = [ret_type EXCEPT ![f] = t]
  BY <1>1, VisitParts DEF ShapeInv, FramesOK
<1>3. /\ fs \in Seq(FrameSet) /\ Len(fs) = Len(frames)
      /\ \A n \in 1..Len(fs) : fs[n].func = frames[n].func /\ fs[n].pc = frames[n].pc
  BY VisitFrames
<1>4. ASSUME ret_type' # ret_type
      PROVE  /\ f \in visited /\ ret_type[f] = NoType /\ frames' = fs
             /\ ret_type'[f] \in ReturnTypes(f)
             /\ \A i \in 1..Len(functions) : i # f => ret_type'[i] = ret_type[i]
  <2>1. PICK t \in ReturnTypes(f) : ret_type' = [ret_type EXCEPT ![f] = t]
    BY <1>2, <1>4
  <2>2. t \in Type
    BY <1>1, <2>1, ReturnTypesAreTypes DEF ShapeInv
  <2>3. \A i \in 1..Len(functions) : ret_type'[i] = IF i = f THEN t ELSE ret_type[i]
    BY <1>1, <2>1, <2>2, RetTypeSet DEF ShapeInv
  <2> QED BY <1>1, <1>2, <1>4, <2>1, <2>3
<1>5. Rets
  BY <1>4 DEF Rets
<1>6. ASSUME NEW i \in 1..Len(functions), NEW pc, WalkOK(i, pc) PROVE WalkOK(i, pc)'
  <2>1. Untouched(i)
    BY <1>1 DEF Untouched
  <2>2. ret_type'[i] = ret_type[i] \/ ret_type'[i] \in ReturnTypes(i)
    BY <1>4
  <2> QED BY <1>5, <1>6, <2>1, <2>2, WalkStays
<1>7. ASSUME NEW n \in 1..Len(fs) PROVE WalkOK(fs[n].func, fs[n].pc)'
  <2>1. PICK i, pc : i = fs[n].func /\ pc = fs[n].pc
    OBVIOUS
  <2>2. WalkOK(i, pc) /\ i \in 1..Len(functions)
    BY <1>3, <2>1, FrameFacts DEF Walking
  <2> QED BY <1>6, <2>1, <2>2
<1>8. Fresh'
  <2> SUFFICES ASSUME NEW i \in 1..Len(functions'), i \notin visited'
               PROVE  /\ ret_type'[i] = functions'[i].declared
                      /\ \A k \in Body(i)' : typed'[i][k] = NoType
    BY DEF Fresh, NoType, any_type
  <2>1. i \in 1..Len(functions) /\ i \notin visited /\ i # f
    BY <1>1, <1>2
  <2> QED BY <1>1, <1>4, <2>1 DEF Fresh, Body
<1>9. Walking' /\ \A n \in 1..Len(frames) : frames[n].func \in OnStack' \/ frames[n].func \notin Analyzed
  <2>1. CASE frames' = fs
    <3>1. Walking'
      BY <1>7, <2>1, WalkingFrom
    <3> QED BY <1>3, <2>1, <3>1 DEF OnStack
  <2>2. CASE frames' = Append(fs, Frame(f)) /\ frames' # fs
    <3>1. f \notin visited
      BY <1>2, <2>2
    <3>2. PICK fr \in FrameSet : fr = Frame(f) /\ fr.func = f /\ fr.pc = 1
      BY <1>1, FrameIs
    <3>3. fr \in FrameSet
      OBVIOUS
    <3>4. PICK gs : gs = Append(fs, fr) /\ gs = frames'
      BY <2>2, <3>2
    <3>5. Len(gs) = Len(fs) + 1 /\ gs[Len(fs) + 1] = fr /\ Len(fs) \in Nat
          /\ \A n \in 1..Len(fs) : gs[n] = fs[n]
      <4>1. PICK S : S = FrameSet
        OBVIOUS
      <4>2. fs \in Seq(S) /\ fr \in S
        BY <1>3, <3>3, <4>1
      <4>3. /\ Len(fs) \in Nat /\ Len(Append(fs, fr)) = Len(fs) + 1
            /\ Append(fs, fr)[Len(fs) + 1] = fr
            /\ \A n \in 1..Len(fs) : Append(fs, fr)[n] = fs[n]
        BY <4>2, AppendParts
      <4> QED BY <3>4, <4>3
    <3>6. WalkOK(f, 1)
      <4>1. \A k \in Body(f) : typed[f][k] = NoType /\ ~ (k < 1)
        BY <1>1, <3>1 DEF Fresh, Body
      <4>2. ret_type[f] = functions[f].declared
        BY <1>1, <3>1 DEF Fresh
      <4> QED BY <4>1, <4>2 DEF WalkOK
    <3>7. WalkOK(f, 1)'
      BY <1>1, <1>6, <3>6
    <3>8. \A n \in 1..Len(gs) : WalkOK(gs[n].func, gs[n].pc)'
      <4> SUFFICES ASSUME NEW n \in 1..Len(gs) PROVE WalkOK(gs[n].func, gs[n].pc)'
        OBVIOUS
      <4>1. CASE n = Len(fs) + 1
        BY <3>2, <3>5, <3>7, <4>1
      <4>2. CASE n \in 1..Len(fs)
        BY <1>7, <3>5, <4>2
      <4> QED BY <3>5, <4>1, <4>2
    <3>9. Walking'
      BY <3>4, <3>8, WalkingFrom
    <3>10. \A n \in 1..Len(fs) : n \in 1..Len(gs) /\ gs[n] = fs[n]
      BY <3>5
    <3> QED BY <1>3, <3>4, <3>9, <3>10 DEF OnStack
  <2> QED BY <1>2, <2>1, <2>2
<1>10. Left'
  <2> SUFFICES ASSUME NEW i \in Analyzed', i \notin OnStack' PROVE LeftOK(i)'
    BY DEF Left
  <2>1. i \in visited' /\ i \in 1..Len(functions) /\ ~ IsTemplateFunc(functions[i])
    <3>1. i \in visited' /\ ~ IsTemplateFunc(functions'[i])
      BY DEF Analyzed, IsTemplateFunc
    <3> QED BY <1>1, <1>2, <3>1 DEF ShapeInv, ReachedOK
  <2>2. i \in visited
    <3>1. CASE i = f
      <4>1. ASSUME f \notin visited PROVE FALSE
        <5>1. frames' = Append(fs, Frame(f))
          BY <1>2, <2>1, <3>1, <4>1
        <5>2. PICK fr \in FrameSet : fr = Frame(f) /\ fr.func = f
          BY <1>1, FrameIs
        <5>3. fr \in FrameSet
          OBVIOUS
        <5>4. Len(frames') = Len(fs) + 1 /\ frames'[Len(fs) + 1] = fr /\ Len(fs) \in Nat
          <6>1. PICK S : S = FrameSet
            OBVIOUS
          <6>2. fs \in Seq(S) /\ fr \in S
            BY <1>3, <5>3, <6>1
          <6>3. /\ Len(fs) \in Nat /\ Len(Append(fs, fr)) = Len(fs) + 1
                /\ Append(fs, fr)[Len(fs) + 1] = fr
            BY <6>2, AppendParts
          <6> QED BY <5>1, <5>2, <6>3
        <5>5. Len(fs) + 1 \in 1..Len(frames')
          BY <5>4
        <5>6. frames'[Len(fs) + 1].func \in OnStack'
          BY <5>5 DEF OnStack
        <5> QED BY <3>1, <5>2, <5>4, <5>6
      <4> QED BY <3>1, <4>1
    <3> QED BY <1>2, <2>1, <3>1
  <2>3. i \in Analyzed
    BY <2>1, <2>2 DEF Analyzed
  <2>4. i \notin OnStack
    BY <1>9, <2>3 DEF OnStack
  <2>5. LeftOK(i)
    BY <2>3, <2>4 DEF Left
  <2>6. ret_type'[i] = ret_type[i]
    BY <1>4, <2>1, <2>5 DEF LeftOK, SoundReturns
  <2> QED BY <1>1, <1>5, <2>1, <2>5, <2>6, LeftStays DEF Untouched
<1> QED
  BY <1>8, <1>9, <1>10

(* A statement gets its type, and if it is a call, a callee that has a      *)
(* return type.                                                             *)
LEMMA StatementSound ==
    ASSUME ShapeInv, Grows, Distinct(frames, visited), Fresh, Walking, Left,
           frames # <<>>, Top.pc <= Len(Here.body), NEW t \in Type, NEW c \in 0..Len(functions),
           typed' = TypedAs(t),
           \/ ~ IsCall(Stmt) /\ callee' = callee
           \/ /\ callee' = CalleeAs(c)
              /\ Callable(c) /\ ret_type[c] # NoType /\ t = ret_type[c] /\ Stmt.call # "main",
           functions' = functions, toplevel' = toplevel, ret_type' = ret_type, visited' = visited,
           frames' = Advanced
    PROVE  (Fresh /\ Walking /\ Left)'
<1>1. PICK f, pc, u, v :
         /\ f = Top.func /\ pc = Top.pc /\ u = TypedAs(t) /\ v = CalleeAs(c)
         /\ u \in Seq(Seq(Type)) /\ Len(u) = Len(functions)
         /\ v \in Seq(Seq(Nat)) /\ Len(v) = Len(functions)
         /\ \A i \in 1..Len(functions) :
              /\ Len(u[i]) = Len(typed[i]) /\ Len(v[i]) = Len(callee[i])
              /\ i # f => u[i] = typed[i] /\ v[i] = callee[i]
              /\ \A k \in Body(i) :
                   /\ u[i][k] = IF i = f /\ k = pc THEN t ELSE typed[i][k]
                   /\ v[i][k] = IF i = f /\ k = pc THEN c ELSE callee[i][k]
  BY StatementSet
<1>2. f \in 1..Len(functions) /\ pc \in Nat /\ pc >= 1 /\ Len(functions[f].body) \in Nat
      /\ pc \in Body(f) /\ Stmt = functions[f].body[pc]
  BY <1>1, TopParts DEF Here, Body, Stmt
<1>3. \A i \in 1..Len(functions) : \A k \in Body(i) :
         /\ u[i][k] = IF i = f /\ k = pc THEN t ELSE typed[i][k]
         /\ v[i][k] = IF i = f /\ k = pc THEN c ELSE callee[i][k]
  BY <1>1
<1>5. \A i \in 1..Len(functions) : i # f => u[i] = typed[i] /\ v[i] = callee[i]
  BY <1>1
<1>6. typed' = u /\ (callee' = callee \/ callee' = v)
  BY <1>1
<1>7. \A i \in 1..Len(functions) : i # f => Untouched(i)
  BY <1>5, <1>6 DEF Untouched
<1>8. Rets
  BY DEF Rets
<1>9. /\ Advanced \in Seq(FrameSet) /\ Len(Advanced) = Len(frames) /\ Len(frames) \in Nat \ {0}
      /\ \A n \in 1..(Len(frames) - 1) : Advanced[n] = frames[n]
      /\ Advanced[Len(frames)].func = f /\ Advanced[Len(frames)].pc = pc + 1
  BY <1>1, AdvancedOK
<1>10. PICK last \in Nat : last = Len(frames) /\ last >= 1 /\ frames[last].func = f /\ frames[last].pc = pc
  BY <1>1, <1>9 DEF Top, Last
<1>11. WalkOK(f, pc)
  BY <1>10 DEF Walking
<1>12. WalkOK(f, pc + 1)'
  <2>1. functions'[f] = functions[f] /\ Body(f)' = Body(f)
    BY DEF Body
  <2>2. ASSUME NEW k \in Body(f), k < pc PROVE Passed(f, k)'
    <3>1. Passed(f, k) /\ k # pc
      BY <1>2, <1>11, <2>2 DEF WalkOK, Body
    <3>2. typed'[f][k] = typed[f][k] /\ callee'[f][k] = callee[f][k]
      BY <1>2, <1>3, <1>6, <3>1
    <3> QED BY <1>2, <1>8, <3>1, <3>2, PassedStays
  <2>3. Passed(f, pc)'
    <3>1. SUFFICES ASSUME IsCall(functions[f].body[pc]) PROVE PassedCall(f, pc)'
      BY DEF Passed, IsCall
    <3>2. /\ callee' = v /\ Callable(c) /\ ret_type[c] # NoType /\ t = ret_type[c] /\ Stmt.call # "main"
      BY <1>1, <1>2, <3>1
    <3>3. callee'[f][pc] = c /\ typed'[f][pc] = t
      BY <1>2, <1>3, <1>6, <3>2
    <3>4. Callable(c)'
      BY <3>2, CallableGrows
    <3> QED BY <1>2, <3>2, <3>3, <3>4 DEF PassedCall, Callable, NoType, any_type
  <2>4. ASSUME NEW k \in Body(f), ~ (k < pc + 1) PROVE typed'[f][k] = NoType
    <3>1. ~ (k < pc) /\ k # pc
      BY <1>2, <2>4 DEF Body
    <3>2. typed[f][k] = NoType
      BY <1>11, <3>1 DEF WalkOK
    <3> QED BY <1>2, <1>3, <1>6, <3>1, <3>2
  <2>5. ASSUME NEW k \in Body(f), k < pc + 1 PROVE Passed(f, k)'
    <3>1. k < pc \/ k = pc
      BY <1>2, <2>5 DEF Body
    <3> QED BY <2>2, <2>3, <3>1
  <2>6. ASSUME ret_type[f] # NoType, ret_type[f] # functions[f].declared
        PROVE  ret_type[f] \in ReturnTypes(f)'
    <3>1. PICK k \in Body(f) : IsReturn(functions[f].body[k]) /\ ret_type[f] = typed[f][k]
      BY <1>11, <2>6 DEF WalkOK, ReturnTypes, Body
    <3>2. typed[f][pc] = NoType
      BY <1>2, <1>11 DEF WalkOK
    <3>3. typed'[f][k] = typed[f][k]
      BY <1>2, <1>3, <1>6, <2>6, <3>1, <3>2
    <3> QED BY <3>1, <3>3 DEF ReturnTypes, Body, IsReturn
  <2>7. \A k \in Body(f)' : IF k < pc + 1 THEN Passed(f, k)' ELSE typed'[f][k] = NoType
    BY <2>1, <2>4, <2>5
  <2>8. ret_type'[f] # NoType => ret_type'[f] = functions'[f].declared \/ ret_type'[f] \in ReturnTypes(f)'
    BY <2>6
  <2> QED BY <2>7, <2>8 DEF WalkOK, NoType, any_type
<1>13. Walking'
  <2>1. PICK fs : fs = Advanced
    OBVIOUS
  <2>2. \A n \in 1..Len(fs) : WalkOK(fs[n].func, fs[n].pc)'
    <3> SUFFICES ASSUME NEW n \in 1..Len(fs) PROVE WalkOK(fs[n].func, fs[n].pc)'
      OBVIOUS
    <3>1. CASE n = last
      <4>1. fs[n].func = f /\ fs[n].pc = pc + 1
        BY <1>9, <1>10, <2>1, <3>1
      <4> QED BY <1>12, <4>1
    <3>2. CASE n # last
      <4>1. n \in 1..(Len(frames) - 1) /\ n \in 1..Len(frames) /\ last \in 1..Len(frames)
        BY <1>9, <1>10, <2>1, <3>2
      <4>2. PICK i, p : i = fs[n].func /\ p = fs[n].pc /\ i = frames[n].func /\ p = frames[n].pc
        BY <1>9, <2>1, <4>1
      <4>3. i # f /\ i \in 1..Len(functions)
        BY <1>10, <3>2, <4>1, <4>2, FrameFacts DEF Distinct
      <4>4. WalkOK(i, p)
        BY <4>1, <4>2 DEF Walking
      <4>5. WalkOK(i, p)'
        BY <1>7, <1>8, <4>3, <4>4, WalkStays
      <4> QED BY <4>2, <4>5
    <3> QED BY <3>1, <3>2
  <2> QED BY <2>1, <2>2, WalkingFrom
<1>14. f \in visited
  <2>1. last \in 1..Len(frames)
    BY <1>10
  <2> QED BY <1>10, <2>1, FrameFacts
<1>15. Fresh'
  <2> SUFFICES ASSUME NEW i \in 1..Len(functions'), i \notin visited'
               PROVE  /\ ret_type'[i] = functions'[i].declared
                      /\ \A k \in Body(i)' : typed'[i][k] = NoType
    BY DEF Fresh, NoType, any_type
  <2>1. i \in 1..Len(functions) /\ i \notin visited /\ i # f
    BY <1>14
  <2>2. typed'[i] = typed[i]
    BY <1>7, <2>1 DEF Untouched
  <2> QED BY <2>1, <2>2 DEF Fresh, Body
<1>16. Left'
  <2> SUFFICES ASSUME NEW i \in Analyzed', i \notin OnStack' PROVE LeftOK(i)'
    BY DEF Left
  <2>1. i \in Analyzed /\ i \in 1..Len(functions)
    BY DEF Analyzed, IsTemplateFunc, ShapeInv, ReachedOK
  <2>2. \A n \in 1..Len(frames) : frames[n].func \in OnStack'
    <3> SUFFICES ASSUME NEW n \in 1..Len(frames) PROVE frames[n].func \in OnStack'
      OBVIOUS
    <3>1. frames'[n].func = frames[n].func
      <4>1. n = last \/ n \in 1..(Len(frames) - 1)
        BY <1>9, <1>10
      <4> QED BY <1>9, <1>10, <4>1
    <3>2. n \in 1..Len(frames')
      BY <1>9
    <3> QED BY <3>1, <3>2 DEF OnStack
  <2>3. i \notin OnStack /\ i # f
    <3>1. last \in 1..Len(frames)
      BY <1>10
    <3> QED BY <1>10, <2>2, <3>1 DEF OnStack
  <2>4. LeftOK(i)
    BY <2>1, <2>3 DEF Left
  <2> QED BY <1>7, <1>8, <2>1, <2>3, <2>4, LeftStays
<1> QED
  BY <1>13, <1>15, <1>16

(* The frames are where they were, the tables at most longer.               *)
LEMMA MovedSound ==
    ASSUME ShapeInv, Grows, Fresh, Walking, Left, visited' = visited,
           \A i \in 1..Len(functions) : Untouched(i) /\ ret_type'[i] = ret_type[i],
           \A i \in 1..Len(functions') : i \notin 1..Len(functions) =>
              ret_type'[i] = functions'[i].declared /\ \A k \in 1..Len(functions'[i].body) : typed'[i][k] = NoType,
           NEW fs, frames' = fs, Moved(fs)
    PROVE  (Fresh /\ Walking /\ Left)'
<1>0. /\ Len(fs) = Len(frames)
      /\ \A n \in 1..Len(fs) : fs[n].func = frames[n].func /\ fs[n].pc = frames[n].pc
  BY DEF Moved
<1>1. Rets
  BY DEF Rets
<1>2. Walking'
  <2>1. ASSUME NEW n \in 1..Len(fs) PROVE WalkOK(fs[n].func, fs[n].pc)'
    <3>1. PICK i, pc : i = fs[n].func /\ pc = fs[n].pc /\ i = frames[n].func /\ pc = frames[n].pc
      BY <1>0
    <3>2. WalkOK(i, pc) /\ i \in 1..Len(functions)
      BY <1>0, <3>1, FrameFacts DEF Walking
    <3>3. WalkOK(i, pc)'
      BY <1>1, <3>2, WalkStays
    <3> QED BY <3>1, <3>3
  <2> QED BY <2>1, WalkingFrom
<1>3. Fresh'
  <2> SUFFICES ASSUME NEW i \in 1..Len(functions'), i \notin visited
               PROVE  /\ ret_type'[i] = functions'[i].declared
                      /\ \A k \in Body(i)' : typed'[i][k] = NoType
    BY DEF Fresh, NoType, any_type
  <2>1. CASE i \in 1..Len(functions)
    BY <2>1 DEF Fresh, Body, Untouched, Grows
  <2>2. CASE i \notin 1..Len(functions)
    BY <2>2 DEF Body
  <2> QED BY <2>1, <2>2
<1>4. Left'
  <2> SUFFICES ASSUME NEW i \in Analyzed', i \notin OnStack' PROVE LeftOK(i)'
    BY DEF Left
  <2>1. i \in 1..Len(functions)
    BY DEF Analyzed, ShapeInv, ReachedOK
  <2>2. i \in Analyzed
    BY <2>1 DEF Analyzed, IsTemplateFunc, Grows
  <2>3. i \notin OnStack
    BY <1>0 DEF OnStack
  <2>4. LeftOK(i)
    BY <2>2, <2>3 DEF Left
  <2> QED BY <1>1, <2>1, <2>4, LeftStays
<1> QED
  BY <1>2, <1>3, <1>4

(* Statement by statement, then by the end of the body.                     *)
LEMMA ResolvedSound ==
    ASSUME ShapeInv, Grows, Fresh, Walking, Left, CallResolved
    PROVE  (Fresh /\ Walking /\ Left)'
<1>1. PICK t \in Found : /\ ~ IsTemplateFunc(functions[t])
                         /\ frames' = Replaced([To("resolved") EXCEPT !.target = t])
  BY DEF CallResolved
<1>2. /\ At("stmt") /\ IsCall(Stmt) /\ functions' = functions /\ toplevel' = toplevel /\ visited' = visited
      /\ ret_type' = ret_type /\ typed' = typed /\ callee' = callee
  BY DEF CallResolved
<1>3. Callable(t)
  BY <1>1, <1>2, SelectedCallable
<1>4. t \in 1..Len(functions') /\ Callable(t)' /\ ~ IsTemplateFunc(functions'[t])
  BY <1>2, <1>3 DEF Callable, IsTemplateFunc
<1>5. PICK fs : fs = Replaced([To("resolved") EXCEPT !.target = t])
  OBVIOUS
<1>6. Moved(fs)
  BY <1>2, <1>4, <1>5, TargetOK
<1>7. \A i \in 1..Len(functions) : Untouched(i) /\ ret_type'[i] = ret_type[i]
  BY <1>2 DEF Untouched
<1> QED
  BY <1>1, <1>2, <1>5, <1>6, <1>7, MovedSound

(* So does an instance,                                                     *)
LEMMA InstanceSound ==
    ASSUME ShapeInv, Grows, Fresh, Walking, Left, Instantiate
    PROVE  (Fresh /\ Walking /\ Left)'
<1>1. PICK m \in Nat, f \in Found, d \in FuncDef, ts \in Seq(Type), cs \in Seq(Nat) : Instantiated(m, f, d, ts, cs)
  BY InstantiateTables
<1>2. At("stmt") /\ IsCall(Stmt) /\ visited' = visited
      /\ frames' = Replaced([To("instance") EXCEPT !.target = Len(functions) + 1])
  BY DEF Instantiate
<1>3. PICK t : t = m + 1
  OBVIOUS
<1>4. t \in 1..Len(functions') /\ ~ IsTemplateFunc(functions'[t]) /\ t = Len(functions) + 1
  BY <1>1, <1>3 DEF Instantiated
<1>5. PICK fs : fs = Replaced([To("instance") EXCEPT !.target = t])
  OBVIOUS
<1>6. Moved(fs)
  <2>1. ASSUME NEW stage \in {"instance", "resolved"}, stage = "instance"
        PROVE  Moved(fs)
    <3>1. fs = Replaced([To(stage) EXCEPT !.target = t]) /\ "instance" # "resolved"
      BY <1>5, <2>1
    <3> QED BY <1>2, <1>4, <2>1, <3>1, TargetOK
  <2> QED BY <2>1
<1>7. \A i \in 1..Len(functions) : Untouched(i) /\ ret_type'[i] = ret_type[i]
  BY <1>1 DEF Instantiated, Untouched
<1>8. ASSUME NEW i \in 1..Len(functions'), i \notin 1..Len(functions)
      PROVE  /\ ret_type'[i] = functions'[i].declared
             /\ \A k \in 1..Len(functions'[i].body) : typed'[i][k] = NoType
  <2>1. i = m + 1
    BY <1>1, <1>8 DEF Instantiated
  <2> QED BY <1>1, <2>1 DEF Instantiated
<1>9. frames' = fs
  BY <1>2, <1>4, <1>5
<1> QED
  BY <1>2, <1>6, <1>7, <1>8, <1>9, MovedSound

(* Whether a body is left with a return type that all its returns have.     *)
LEMMA DeducedSound ==
    ASSUME TablesOK, NEW f \in 1..Len(functions), ~ NotDeducible(f)
    PROVE  /\ Deduced(f) # NoType
           /\ \A t \in ReturnTypes(f) : t = Deduced(f)
           /\ \A k \in Body(f) : IsReturn(functions[f].body[k]) => typed[f][k] = Deduced(f)
           /\ functions[f].kind = "proc" => Deduced(f) = unit
           /\ ret_type[f] # NoType => \/ ret_type[f] = Deduced(f)
                                      \/ is_template(ret_type[f])
<1>1. PICK d : d = Deduced(f)
  OBVIOUS
<1>2. PICK RT : RT = ReturnTypes(f)
  OBVIOUS
<1>3. IsFiniteSet(RT) /\ (RT # {} => d \in RT) /\ (RT = {} => d = unit)
  BY <1>1, <1>2, ReturnTypesAreTypes, DeducedIsType
<1>4. /\ NoType \notin RT /\ ~ (Cardinality(RT) > 1)
      /\ ~ (functions[f].kind = "proc" /\ NumReturns(f) > 0 /\ (NumReturns(f) # 1 \/ d # unit))
  BY <1>1, <1>2 DEF NotDeducible
<1>5. \A t \in RT : t = d
  <2> SUFFICES ASSUME NEW t \in RT PROVE t = d
    OBVIOUS
  <2>1. {t, d} \subseteq RT
    BY <1>3
  <2>2. IsFiniteSet({t, d}) /\ Cardinality({t, d}) <= Cardinality(RT) /\ Cardinality({t, d}) \in Nat
        /\ Cardinality(RT) \in Nat
    BY <1>3, <2>1, FS_Subset, FS_CardinalityType
  <2>3. IsFiniteSet({d}) /\ Cardinality({d}) = 1
    BY FS_Singleton
  <2>4. {d} \cup {t} = {t, d}
    OBVIOUS
  <2>5. Cardinality({t, d}) <= 1
    <3>1. PICK c : c = Cardinality({t, d})
      OBVIOUS
    <3>2. PICK r : r = Cardinality(RT)
      OBVIOUS
    <3>3. c \in Nat /\ r \in Nat /\ c <= r /\ ~ (r > 1)
      BY <1>4, <2>2, <3>1, <3>2
    <3> QED BY <3>1, <3>3
  <2> SUFFICES ASSUME t # d PROVE FALSE
    OBVIOUS
  <2>6. t \notin {d}
    OBVIOUS
  <2>7. Cardinality({d} \cup {t}) = Cardinality({d}) + 1
    BY <2>3, <2>6, FS_AddElement
  <2>8. Cardinality({t, d}) = 2
    <3>1. PICK c, e : c = Cardinality({t, d}) /\ e = Cardinality({d})
      OBVIOUS
    <3>2. e = 1
      BY <2>3, <3>1
    <3>3. c = e + 1
      BY <2>4, <2>7, <3>1, Zenon
    <3> QED BY <3>1, <3>2, <3>3
  <2> QED BY <2>5, <2>8
<1>6. d # NoType
  BY <1>3, <1>4 DEF unit, NoType, any_type
<1>7. \A k \in Body(f) : IsReturn(functions[f].body[k]) => typed[f][k] = d
  BY <1>2, <1>5 DEF ReturnTypes, Body
<1>8. functions[f].kind = "proc" => d = unit
  <2> SUFFICES ASSUME functions[f].kind = "proc", d # unit PROVE FALSE
    OBVIOUS
  <2>1. PICK ks : ks = {k \in 1..Len(functions[f].body) : IsReturn(functions[f].body[k])}
    OBVIOUS
  <2>2. IsFiniteSet(ks)
    <3>1. Len(functions[f].body) \in Nat
      BY FunctionParts DEF TablesOK
    <3>2. PICK n \in Nat : n = Len(functions[f].body)
      BY <3>1
    <3>3. IsFiniteSet(1..n)
      BY IntervalFinite, Zenon
    <3>4. ks \subseteq 1..n
      BY <2>1, <3>2
    <3> QED BY <3>3, <3>4, FS_Subset
  <2>3. NumReturns(f) = Cardinality(ks) /\ Cardinality(ks) \in Nat
    BY <2>1, <2>2, FS_CardinalityType DEF NumReturns
  <2>4. ks = {}
    BY <1>4, <2>2, <2>3, FS_EmptySet
  <2>5. RT = {}
    BY <1>2, <2>1, <2>4 DEF ReturnTypes
  <2> QED BY <1>3, <2>5
<1>9. ret_type[f] # NoType => ret_type[f] = d \/ is_template(ret_type[f])
  BY <1>1 DEF NotDeducible
<1> QED
  BY <1>1, <1>2, <1>5, <1>6, <1>7, <1>8, <1>9

(* and a function that is left.                                             *)
LEMMA LeaveSound ==
    ASSUME ShapeInv, Grows, Distinct(frames, visited), Fresh, Walking, Left, failed = 0, failed' = 0, Leave
    PROVE  (Fresh /\ Walking /\ Left)'
<1>1. /\ frames # <<>> /\ frames' = Front(frames) /\ Top.pc > Len(Here.body)
      /\ functions' = functions /\ toplevel' = toplevel /\ typed' = typed /\ callee' = callee /\ visited' = visited
  BY DEF Leave
<1>2. PICK f, pc, last : f = Top.func /\ pc = Top.pc /\ last = Len(frames)
  OBVIOUS
<1>3. f \in 1..Len(functions) /\ pc \in Nat /\ Len(functions[f].body) \in Nat
  BY <1>1, <1>2, TopParts DEF Here
<1>4. PICK d : d = Deduced(f)
  OBVIOUS
<1>5. /\ ~ NotDeducible(f) /\ ret_type' = [ret_type EXCEPT ![f] = d]
      /\ d # unit => Terminated(f)
  BY <1>2, <1>4 DEF Leave
<1>6. d \in Type
  BY <1>3, <1>4, DeducedIsType DEF ShapeInv
<1>7. \A i \in 1..Len(functions) : ret_type'[i] = IF i = f THEN d ELSE ret_type[i]
  BY <1>3, <1>5, <1>6, RetTypeSet DEF ShapeInv
<1>8. /\ d # NoType
      /\ \A t \in ReturnTypes(f) : t = d
      /\ \A k \in Body(f) : IsReturn(functions[f].body[k]) => typed[f][k] = d
      /\ functions[f].kind = "proc" => d = unit
      /\ ret_type[f] # NoType => ret_type[f] = d \/ is_template(ret_type[f])
  BY <1>3, <1>4, <1>5, DeducedSound DEF ShapeInv
<1>9. /\ Front(frames) \in Seq(FrameSet) /\ last \in Nat \ {0} /\ Len(Front(frames)) = last - 1
      /\ \A n \in 1..Len(Front(frames)) : Front(frames)[n] = frames[n] /\ n \in 1..last
  <2>1. frames \in Seq(FrameSet)
    BY DEF ShapeInv, FramesOK
  <2> HIDE DEF FrameSet
  <2> QED BY <1>1, <1>2, <2>1, FrontParts
<1>10. last \in 1..Len(frames) /\ frames[last].func = f /\ frames[last].pc = pc
  BY <1>2, <1>9 DEF Top, Last
<1>11. WalkOK(f, pc) /\ f \in visited
  BY <1>10, FrameFacts DEF Walking
<1>12. \A k \in Body(f) : Passed(f, k)
  <2>1. pc > Len(functions[f].body)
    BY <1>1, <1>2 DEF Here
  <2> QED BY <1>3, <1>11, <2>1 DEF WalkOK, Body
<1>13. Rets
  <2>1. ASSUME ret_type[f] # NoType PROVE ret_type[f] = d \/ TemplateReturn(f)
    <3>1. CASE ret_type[f] = functions[f].declared
      BY <1>8, <2>1, <3>1 DEF TemplateReturn
    <3>2. CASE ret_type[f] \in ReturnTypes(f)
      BY <1>8, <3>2
    <3> QED BY <1>11, <2>1, <3>1, <3>2 DEF WalkOK
  <2> QED BY <1>3, <1>7, <1>8, <2>1 DEF Rets
<1>14. \A i \in 1..Len(functions) : Untouched(i)
  BY <1>1 DEF Untouched
<1>15. LeftOK(f)'
  <2>1. /\ functions'[f] = functions[f] /\ Body(f)' = Body(f)
        /\ \A k \in Body(f) : Passed(f, k) => Passed(f, k)'
    BY <1>3, <1>13, <1>14, UntouchedStays
  <2>2. Terminated(f)' = Terminated(f)
    BY <2>1 DEF Terminated
  <2>3. ret_type'[f] = d /\ typed'[f] = typed[f]
    BY <1>1, <1>3, <1>7
  <2>4. SoundReturns(f)'
    BY <1>5, <1>8, <2>1, <2>2, <2>3 DEF SoundReturns, IsReturn, NoType, unit, any_type
  <2> QED BY <1>12, <2>1, <2>4 DEF LeftOK
<1>16. Walking'
  <2>1. PICK fs : fs = Front(frames)
    OBVIOUS
  <2>2. Len(fs) = last - 1 /\ \A n \in 1..Len(fs) : fs[n] = frames[n] /\ n \in 1..last
    BY <1>9, <2>1
  <2>3. ASSUME NEW n \in 1..Len(fs) PROVE WalkOK(fs[n].func, fs[n].pc)'
    <3>1. n \in 1..Len(frames) /\ n # last
      BY <1>2, <1>9, <2>2
    <3>2. PICK i, p : i = fs[n].func /\ p = fs[n].pc /\ i = frames[n].func /\ p = frames[n].pc
      BY <2>2
    <3>3. i # f /\ i \in 1..Len(functions)
      BY <1>10, <3>1, <3>2, FrameFacts DEF Distinct
    <3>4. WalkOK(i, p)
      BY <3>1, <3>2 DEF Walking
    <3>5. WalkOK(i, p)'
      BY <1>7, <1>13, <1>14, <3>3, <3>4, WalkStays
    <3> QED BY <3>2, <3>5
  <2> QED BY <1>1, <2>1, <2>3, WalkingFrom
<1>17. Fresh'
  <2> SUFFICES ASSUME NEW i \in 1..Len(functions'), i \notin visited'
               PROVE  /\ ret_type'[i] = functions'[i].declared
                      /\ \A k \in Body(i)' : typed'[i][k] = NoType
    BY DEF Fresh, NoType, any_type
  <2>1. i \in 1..Len(functions) /\ i \notin visited /\ i # f
    BY <1>1, <1>11
  <2> QED BY <1>1, <1>7, <2>1 DEF Fresh, Body
<1>18. Left'
  <2> SUFFICES ASSUME NEW i \in Analyzed', i \notin OnStack' PROVE LeftOK(i)'
    BY DEF Left
  <2>1. i \in Analyzed /\ i \in 1..Len(functions)
    BY <1>1 DEF Analyzed, IsTemplateFunc, ShapeInv, ReachedOK
  <2>2. CASE i = f
    BY <1>15, <2>2
  <2>3. CASE i # f
    <3>1. i \notin OnStack
      <4> SUFFICES ASSUME NEW n \in 1..Len(frames), frames[n].func = i PROVE FALSE
        BY DEF OnStack
      <4>1. n # last
        BY <1>10, <2>3
      <4>2. n \in 1..Len(Front(frames))
        BY <1>2, <1>9, <4>1
      <4>3. n \in 1..Len(frames') /\ frames'[n].func = i
        BY <1>1, <1>9, <4>2
      <4> QED BY <4>3 DEF OnStack
    <3>2. LeftOK(i)
      BY <2>1, <3>1 DEF Left
    <3> QED BY <1>7, <1>13, <1>14, <2>1, <2>3, <3>2, LeftStays
  <2> QED BY <2>2, <2>3
<1> QED
  BY <1>16, <1>17, <1>18

(* SoundInv holds at the start.                                             *)
LEMMA InitSound == Init => SoundInv
<1> SUFFICES ASSUME Init PROVE Fresh /\ Walking /\ Left
  BY DEF SoundInv
<1>1. ASSUME NEW i \in 1..Len(functions)
      PROVE  ret_type[i] = functions[i].declared /\ \A k \in Body(i) : typed[i][k] = NoType
  BY DEF Init, Body
<1>2. Fresh
  BY <1>1 DEF Fresh
<1>3. Walking
  BY DEF Init, Walking
<1>4. Left
  BY DEF Init, Left, Analyzed
<1> QED
  BY <1>2, <1>3, <1>4

(* As long as nothing has failed, every step keeps SoundInv.                *)
LEMMA NextSound ==
    ShapeInv /\ StackInv /\ SoundInv /\ [Next]_vars => SoundInv'
<1> SUFFICES ASSUME ShapeInv, StackInv, SoundInv, [Next]_vars, failed' = 0
             PROVE  (Fresh /\ Walking /\ Left)'
  BY DEF SoundInv
<1>1. Grows /\ failed \in Nat
  BY StepGrows DEF ShapeInv, FramesOK
<1>2. failed = 0
  BY <1>1 DEF Grows
<1>3. Fresh /\ Walking /\ Left
  BY <1>2 DEF SoundInv
<1>4. Distinct(frames, visited)
  BY DEF StackInv
<1>5. CASE WalkNext \/ WalkInstance \/ WalkCallee
  <2>1. PICK f, fs : VisitOf(f, fs)
    BY <1>5, StepVisits
  <2> QED BY <1>1, <1>2, <1>3, <2>1, VisitSound
<1>6. CASE Value
  <2>1. At("stmt") /\ ~ IsCall(Stmt) /\ frames # <<>> /\ Top.pc <= Len(Here.body)
    BY <1>6 DEF Value, At
  <2>2. Top.func \in 1..Len(functions) /\ Top.pc \in 1..Len(Here.body) /\ Len(functions) \in Nat
    <3>1. functions \in Seq(FuncDef)
      BY DEF ShapeInv, TablesOK
    <3>2. Len(functions) \in Nat
      <4> HIDE DEF FuncDef
      <4> QED BY <3>1
    <3> QED BY <2>1, <3>2, OperandsConcrete DEF ShapeInv
  <2>3. Len(Stmt.args) = 1
    BY <2>1, <2>2 DEF ShapeInv, TablesOK, IsFunction, Stmt, Here
  <2>4. TypeHere(Stmt.args[1]) \in Type
    BY <2>1, <2>3, OperandsConcrete DEF ShapeInv
  <2>5. PICK t \in Type : t = TypeHere(Stmt.args[1])
    BY <2>4
  <2>6. /\ typed' = TypedAs(t) /\ callee' = callee /\ functions' = functions /\ toplevel' = toplevel
        /\ ret_type' = ret_type /\ visited' = visited /\ frames' = Advanced
    BY <1>6, <2>5 DEF Value, TypedAs, EntryAs
  <2>7. 0 \in 0..Len(functions)
    BY <2>2
  <2> QED BY <1>1, <1>3, <1>4, <2>1, <2>6, <2>7, StatementSound
<1>7. CASE CallUnresolved \/ CallFails
  BY <1>2, <1>7 DEF CallUnresolved, CallFails
<1>8. CASE CallResolved
  BY <1>1, <1>3, <1>8, ResolvedSound
<1>9. CASE Instantiate
  BY <1>1, <1>3, <1>9, InstanceSound
<1>10. CASE CallReturns
  <2>1. /\ frames # <<>> /\ Top.pc <= Len(Here.body) /\ Top.stage \in {"resolved", "walked"}
        /\ ret_type[Top.target] # NoType
    BY <1>10 DEF CallReturns, At
  <2>2. Top.target \in 1..Len(functions) /\ Callable(Top.target)
    BY <2>1, TopParts DEF FrameOK
  <2>3. ret_type[Top.target] \in Type /\ Top.target \in 0..Len(functions)
    BY <2>2, ReturnTypesAreTypes DEF ShapeInv
  <2>4. PICK c \in 0..Len(functions) : c = Top.target
    BY <2>3
  <2>5. PICK t \in Type : t = ret_type[c]
    BY <2>3, <2>4
  <2>6. /\ typed' = TypedAs(t) /\ callee' = CalleeAs(c) /\ functions' = functions /\ toplevel' = toplevel
        /\ ret_type' = ret_type /\ visited' = visited /\ frames' = Advanced
    BY <1>10, <2>4, <2>5 DEF CallReturns, TypedAs, CalleeAs, EntryAs
  <2>7. Stmt.call # "main"
    BY <1>2, <1>10 DEF CallReturns
  <2> QED BY <1>1, <1>3, <1>4, <2>1, <2>2, <2>4, <2>5, <2>6, <2>7, StatementSound
<1>11. CASE Leave
  BY <1>1, <1>2, <1>3, <1>4, <1>11, LeaveSound
<1>12. CASE Finish \/ Done \/ UNCHANGED vars
  <2>1. /\ functions' = functions /\ toplevel' = toplevel /\ typed' = typed /\ callee' = callee
        /\ ret_type' = ret_type /\ visited' = visited /\ frames' = frames
    BY <1>12 DEF Finish, Done, vars
  <2> QED BY <1>3, <2>1 DEF Fresh, Walking, Left, WalkOK, LeftOK, Passed, PassedCall, Callable, OnStack,
                            Analyzed, SoundReturns, ReturnTypes, Terminated, Body, TemplateReturn
<1> QED
  BY <1>5, <1>6, <1>7, <1>8, <1>9, <1>10, <1>11, <1>12 DEF Next, Step

(* In an accepted program every call of an analyzed function has a callee   *)
(* that was analyzed too, and the return type the callee has in the end;    *)
(* and a function returns, on every path, what all its returns have.  Each  *)
(* function comes to this when it is left (Left), on the calls it has       *)
(* passed in the walk (Walking); a recursive call may have guessed its      *)
(* return type, but only from its returns (WalkOK).                         *)
THEOREM AcceptedTypesSound == Spec => []SoundTypes
<1> DEFINE Inv == ShapeInv /\ StackInv /\ SoundInv /\ Ending
<1>1. Init => Inv
  <2> SUFFICES ASSUME Init PROVE Ending
    BY InitShape, InitStack, InitSound
  <2> QED BY DEF Init, Ending
<1>2. Inv /\ [Next]_vars => Inv'
  BY NextShape, StepStack, NextSound, NextEnding
<1>3. Inv => SoundTypes
  <2> SUFFICES ASSUME ShapeInv, SoundInv, Ending, verdict = "accepted", NEW i \in Analyzed
               PROVE  /\ SoundReturns(i)
                      /\ \A k \in Body(i) : IsCall(functions[i].body[k]) => SoundCall(i, k)
    BY DEF SoundTypes
  <2>1. frames = <<>> /\ walked = toplevel /\ Left
    BY DEF Ending, SoundInv
  <2>2. OnStack = {}
    BY <2>1 DEF OnStack
  <2>3. LeftOK(i)
    BY <2>1, <2>2 DEF Left
  <2>4. ASSUME NEW k \in Body(i), IsCall(functions[i].body[k]) PROVE SoundCall(i, k)
    <3>1. PassedCall(i, k)
      BY <2>3, <2>4 DEF LeftOK, Passed
    <3>2. PICK g : g = callee[i][k]
      OBVIOUS
    <3>3. /\ Callable(g) /\ (TemplateReturn(g) \/ typed[i][k] = ret_type[g])
          /\ functions[i].body[k].call # "main"
      BY <3>1, <3>2 DEF PassedCall
    <3>6. g \in 1..Len(functions) /\ ~ IsTemplateFunc(functions[g]) /\ (g \in visited \/ g <= toplevel)
      <4>1. Callable(g)
        BY <3>3
      <4> QED BY <4>1 DEF Callable
    <3>4. g \in visited
      <4>1. g \in 1..Len(functions) /\ (g \in visited \/ g <= walked)
        BY <2>1, <3>6
      <4>2. walked \in Nat
        <5>1. functions \in Seq(FuncDef)
          BY DEF ShapeInv, TablesOK
        <5>2. Len(functions) \in Nat
          <6> HIDE DEF FuncDef
          <6> QED BY <5>1
        <5> QED BY <5>2 DEF ShapeInv, ReachedOK
      <4>3. g \in visited \/ g \in 1..walked
        BY <4>1, <4>2
      <4> QED BY <4>3 DEF ShapeInv, ReachedOK
    <3>5. g \in Analyzed
      BY <3>4, <3>6 DEF Analyzed
    <3> QED BY <3>2, <3>3, <3>5 DEF SoundCall
  <2> QED BY <2>3, <2>4 DEF LeftOK
<1> QED
  BY <1>1, <1>2, <1>3, PTL DEF Spec

-----------------------------------------------------------------------------
(* The call of the statement that is reached is resolved among functions    *)
(* whose parameters are types, for arguments that are not templates.        *)
LEMMA StatementSelects ==
    ASSUME ShapeInv, At("stmt")
    PROVE  Selects(functions, Stmt.call, ArgTypes)
<1>1. Type = TypeOver(Bases)
  BY DEF Type, TypeOver
<1>2. /\ ArgTypes \in Seq(Type) /\ Len(ArgTypes) = Len(Stmt.args)
      /\ \A n \in 1..Len(ArgTypes) : ~ is_template(ArgTypes[n])
  BY OperandsConcrete DEF ShapeInv
<1>3. \A i \in 1..Len(functions) : functions[i].params \in Seq(Type)
  BY FunctionParts DEF ShapeInv, TablesOK
<1>4. Len(functions) \in Nat
  <2>1. functions \in Seq(FuncDef)
    BY DEF ShapeInv, TablesOK
  <2> HIDE DEF FuncDef
  <2> QED BY <2>1
<1>5. PICK args, name : args = ArgTypes /\ name = Stmt.call
  OBVIOUS
<1>6. PICK B : B = Bases
  OBVIOUS
<1>7. /\ args \in Seq(TypeOver(B)) /\ \A n \in 1..Len(args) : ~ is_template(args[n])
      /\ \A i \in 1..Len(functions) : functions[i].params \in Seq(TypeOver(B))
  BY <1>1, <1>2, <1>3, <1>5, <1>6
<1>8. Selects(functions, name, args)
  BY <1>4, <1>7, CallSelectsMostSpecific
<1> QED
  BY <1>5, <1>8

(* A template that a call selects has no instance for its arguments yet:    *)
(* that would be more specific.                                             *)
LEMMA SelectedIsNew ==
    ASSUME ShapeInv, At("stmt"), NEW f \in Found, IsTemplateFunc(functions[f]), NEW j \in 1..Len(functions)
    PROVE  ~ (functions[j].name = functions[f].name /\ functions[j].params = ArgTypes)
<1> SUFFICES ASSUME functions[j].name = functions[f].name, functions[j].params = ArgTypes PROVE FALSE
  OBVIOUS
<1>1. PICK args, name : args = ArgTypes /\ name = Stmt.call
  OBVIOUS
<1>2. f \in 1..Len(functions) /\ functions[f].name = name /\ Len(functions[f].params) = Len(args)
  BY <1>1, FoundParts
<1>3. \A n \in 1..Len(args) : ~ is_template(args[n])
  BY <1>1, OperandsConcrete DEF ShapeInv
<1>4. Selects(functions, name, args) /\ f \in resolve_func(functions, name, args)
  BY <1>1, StatementSelects DEF Found
<1>5. Accepts(functions[j], name, args)
  BY <1>1, <1>2 DEF Accepts, Takes
<1>6. Accepts(functions[f], name, args)
  BY <1>4 DEF Selects
<1>7. PICK k \in 1..Len(args) : is_template(functions[f].params[k])
  BY <1>2 DEF IsTemplateFunc
<1>8. MoreSpecific(functions[j], functions[f])
  <2>1. functions[j].params # functions[f].params
    BY <1>1, <1>3, <1>7
  <2>2. \A n \in 1..Len(args) : functions[f].params[n] = args[n] \/ ParamBelow(args[n], functions[f].params[n])
    BY <1>6 DEF Accepts, Takes, ParamBelow
  <2> QED BY <1>1, <2>1, <2>2 DEF MoreSpecific
<1> QED
  BY <1>4, <1>5, <1>8 DEF Selects

(* An instance is only made when no earlier one takes the same arguments.   *)
LEMMA NextInstantiated == ShapeInv /\ InstantiatedOnce /\ [Next]_vars => InstantiatedOnce'
<1> SUFFICES ASSUME ShapeInv, InstantiatedOnce, [Next]_vars PROVE InstantiatedOnce'
  OBVIOUS
<1>1. CASE functions' = functions
  BY <1>1 DEF InstantiatedOnce
<1>2. CASE Instantiate
  <2>1. PICK m \in Nat, g \in Found, e \in FuncDef, ts \in Seq(Type), cs \in Seq(Nat) : Instantiated(m, g, e, ts, cs)
    BY <1>2, InstantiateTables
  <2>2. PICK f \in Found :
           /\ Found = {f} /\ IsTemplateFunc(functions[f])
           /\ functions' = Append(functions, [functions[f] EXCEPT !.params = ArgTypes])
    BY <1>2 DEF Instantiate
  <2>3. PICK d : d = [functions[f] EXCEPT !.params = ArgTypes]
    OBVIOUS
  <2>4. At("stmt")
    BY <1>2 DEF Instantiate
  <2>5. d.params = ArgTypes /\ d.name = functions[f].name
    BY <2>3, <2>4, InstanceParts DEF ShapeInv
  <2>6. /\ m = Len(functions) /\ Len(functions') = m + 1 /\ \A i \in 1..m : functions'[i] = functions[i]
    BY <2>1 DEF Instantiated
  <2>7. functions'[m + 1] = d
    <3>1. PICK S : functions \in Seq(S)
      BY DEF ShapeInv, TablesOK
    <3> QED BY <2>2, <2>3, <2>6, <3>1
  <2>8. \A j \in 1..m : ~ (functions[j].name = d.name /\ functions[j].params = d.params)
    BY <2>2, <2>4, <2>5, <2>6, SelectedIsNew
  <2>9. \A i \in 1..(m + 1) : i \in 1..m \/ i = m + 1
    BY <2>1
  <2>10. ASSUME NEW i \in 1..(m + 1), NEW j \in 1..(m + 1),
                functions'[i].name = functions'[j].name, functions'[i].params = functions'[j].params
         PROVE  i = j
    <3>1. CASE i \in 1..m /\ j \in 1..m
      BY <2>6, <2>10, <3>1 DEF InstantiatedOnce
    <3>2. CASE i \in 1..m /\ j = m + 1
      BY <2>6, <2>7, <2>8, <2>10, <3>2
    <3>3. CASE i = m + 1 /\ j \in 1..m
      BY <2>6, <2>7, <2>8, <2>10, <3>3
    <3> QED BY <2>9, <3>1, <3>2, <3>3
  <2> QED BY <2>6, <2>10 DEF InstantiatedOnce
<1> QED
  BY <1>1, <1>2 DEF Next, Step, WalkNext, Value, CallUnresolved, CallResolved, WalkInstance, WalkCallee,
                    CallFails, CallReturns, Leave, Finish, Done, vars

(* Every call that is reached selects a most specific function that accepts *)
(* its arguments, in every table the walk builds; and so a template is      *)
(* never instantiated twice for the same argument types, since the instance *)
(* would have been selected.                                                *)
THEOREM EveryCallSelects == Spec => []CallsSelect
<1>1. Init => ShapeInv /\ InstantiatedOnce
  <2> SUFFICES ASSUME Init PROVE InstantiatedOnce
    BY InitShape
  <2> QED BY ProgramsAssumption DEF Init, IsProgram, InstantiatedOnce
<1>2. ShapeInv /\ InstantiatedOnce /\ [Next]_vars => (ShapeInv /\ InstantiatedOnce)'
  BY NextShape, NextInstantiated
<1>3. ShapeInv /\ InstantiatedOnce => CallsSelect
  BY StatementSelects DEF CallsSelect
<1> QED
  BY <1>1, <1>2, <1>3, PTL DEF Spec
=============================================================================
