----------------------------- MODULE ProofLemmas -----------------------------
(***************************************************************************)
(* Facts about least elements and sequences that the proofs of several     *)
(* components need.                                                        *)
(***************************************************************************)
EXTENDS Integers, Sequences, FiniteSets, SequencesExt, SequenceTheorems,
        WellFoundedInduction, TLAPS

(* The least element of a set of natural numbers.  A statement about all    *)
(* numbers follows when the set of its counterexamples has no least member. *)
LEMMA MinNat ==
  ASSUME NEW S \in SUBSET Nat, S # {}
  PROVE  Min(S) \in S /\ \A y \in S : Min(S) <= y
<1>1. PICK x \in S : \A y \in S : ~(<<y, x>> \in OpToRel(<, Nat))
  BY NatLessThanWellFounded, WFMin
<1>2. \A y, z \in Nat : y < z => <<y, z>> \in OpToRel(<, Nat)
  BY DEF OpToRel
<1>3. \A y \in S : ~(y < x)
  BY <1>1, <1>2
<1>4. \A y \in S : x <= y
  BY <1>3
<1> QED
  BY <1>4 DEF Min

(* A set of natural numbers that has 0 and the successors of its members    *)
(* has all of them: induction for a property that is given as a set.        *)
LEMMA SetInduction ==
  ASSUME NEW S, 0 \in S, \A n \in Nat : n \in S => n + 1 \in S
  PROVE  Nat \subseteq S
<1> DEFINE B == Nat \ S
<1>1. SUFFICES ASSUME B # {} PROVE FALSE
  OBVIOUS
<1>2. PICK n \in B : \A y \in B : n <= y
  BY <1>1, MinNat
<1>3. n - 1 \in Nat /\ n - 1 \notin B
  BY <1>2
<1>4. n - 1 + 1 \in S
  BY <1>3
<1> QED
  BY <1>2, <1>4

(* FlattenSeq undoes the splitting of a sequence into its elements.         *)
LEMMA FlattenSingletons ==
  ASSUME NEW T, NEW s \in Seq(T), s # <<>>
  PROVE  FlattenSeq([i \in 1..Len(s) |-> <<s[i]>>]) = s
<1> DEFINE n == Len(s)
           q == [i \in 1..n |-> <<s[i]>>]
           Is(f) == f = [i \in 1..n |-> IF i = 1 THEN q[i] ELSE f[i - 1] \o q[i]]
           g == [i \in 1..n |-> SubSeq(s, 1, i)]
<1>1. n \in Nat \ {0} /\ q \in Seq(Seq(T)) /\ Len(q) = n
  BY EmptySeq, ElementOfSeq, LenProperties
<1>2. SubSeq(s, 1, n) = s
  BY <1>1, SubSeqFull
<1>3. \A i \in 1..n : i # 1 => SubSeq(s, 1, i) = SubSeq(s, 1, i - 1) \o <<s[i]>>
  <2> SUFFICES ASSUME NEW i \in 1..n, i # 1
               PROVE  SubSeq(s, 1, i) = SubSeq(s, 1, i - 1) \o <<s[i]>>
    OBVIOUS
  <2> QED
    BY <1>1, SubSeqRecursiveSecond
<1>4. SubSeq(s, 1, 1) = <<s[1]>>
  <2>1. 1 \in 1..n /\ s[1] \in T /\ <<s[1]>> \in Seq(T)
    BY <1>1, ElementOfSeq
  <2>2. SubSeq(s, 1, 1) \in Seq(T) /\ Len(SubSeq(s, 1, 1)) = 1 /\ SubSeq(s, 1, 1)[1] = s[1]
    BY <2>1, SubSeqProperties
  <2>3. Len(<<s[1]>>) = 1 /\ <<s[1]>>[1] = s[1]
    OBVIOUS
  <2> DEFINE t == <<s[1]>>
             u == SubSeq(s, 1, 1)
  <2>4. t \in Seq(T) /\ u \in Seq(T) /\ Len(t) = 1 /\ Len(u) = 1 /\ t[1] = u[1]
    BY <2>1, <2>2, <2>3
  <2> HIDE DEF t, u
  <2>5. \A i \in 1..Len(t) : t[i] = u[i]
    BY <2>4
  <2>6. t = u
    BY <2>4, <2>5, SeqEqual
  <2> QED
    BY <2>6 DEF t, u
<1>5. Is(g)
  <2>1. ASSUME NEW i \in 1..n
        PROVE  g[i] = IF i = 1 THEN q[i] ELSE g[i - 1] \o q[i]
    <3>1. CASE i = 1
      BY <1>4, <3>1
    <3>2. CASE i # 1
      <4>1. i - 1 \in 1..n
        BY <1>1, <3>2
      <4> QED
        BY <1>3, <3>2, <4>1
    <3> QED
      BY <3>1, <3>2
  <2> HIDE DEF q
  <2> QED
    BY <2>1
<1>6. ASSUME NEW f, Is(f) PROVE f[n] = s
  <2> DEFINE S == {i \in Nat : i + 1 \in 1..n => f[i + 1] = SubSeq(s, 1, i + 1)}
  <2>1. f[1] = q[1]
    BY <1>1, <1>6
  <2>2. \A i \in 1..n : i # 1 => f[i] = f[i - 1] \o q[i]
    BY <1>6
  <2>3. 0 \in S
    BY <1>1, <1>4, <2>1
  <2>4. \A i \in Nat : i \in S => i + 1 \in S
    <3> SUFFICES ASSUME NEW i \in Nat, i \in S, i + 1 + 1 \in 1..n
                 PROVE  f[i + 1 + 1] = SubSeq(s, 1, i + 1 + 1)
      OBVIOUS
    <3>1. i + 1 \in 1..n /\ i + 1 + 1 - 1 = i + 1 /\ i + 1 + 1 # 1
      BY <1>1
    <3>2. f[i + 1 + 1] = f[i + 1] \o <<s[i + 1 + 1]>>
      BY <2>2, <3>1
    <3>3. f[i + 1] = SubSeq(s, 1, i + 1)
      BY <3>1
    <3> QED
      BY <1>3, <3>1, <3>2, <3>3
  <2> HIDE DEF S
  <2>5. n - 1 \in S
    BY <1>1, <2>3, <2>4, SetInduction
  <2> QED
    BY <1>1, <1>2, <2>5 DEF S
<1> HIDE DEF n, g
<1>7. Len(q) = n /\ n # 0
  BY <1>1
<1>8. FlattenSeq(q) = (CHOOSE f : Is(f))[n]
  BY <1>7 DEF FlattenSeq
<1> HIDE DEF Is
<1> QED
  BY <1>5, <1>6, <1>8 DEF n

(* A prefix, element by element.                                            *)
LEMMA PrefixElements ==
  ASSUME NEW T, NEW s \in Seq(T), NEW t \in Seq(T)
  PROVE  /\ IsPrefix(s, t) <=> Len(s) <= Len(t) /\ \A i \in 1..Len(s) : s[i] = t[i]
         /\ IsStrictPrefix(s, t) <=> Len(s) < Len(t) /\ \A i \in 1..Len(s) : s[i] = t[i]
<1> DEFINE n == Len(s)
           u == SubSeq(t, 1, n)
<1>1. n \in Nat /\ Len(t) \in Nat /\ SubSeq(s, 1, n) = s
  BY LenProperties, SubSeqFull
<1>2. IsPrefix(s, t) <=> n <= Len(t) /\ s = u
  BY <1>1 DEF IsPrefix
<1>3. ASSUME n <= Len(t)
      PROVE  u \in Seq(T) /\ Len(u) = n /\ \A i \in 1..n : u[i] = t[i]
  <2>1. \A i \in 1..n : t[i] \in T
    BY <1>1, <1>3, ElementOfSeq
  <2> HIDE DEF n
  <2>2. /\ SubSeq(t, 1, n) \in Seq(T)
        /\ Len(SubSeq(t, 1, n)) = IF 1 <= n THEN n - 1 + 1 ELSE 0
        /\ \A i \in 1..(n - 1 + 1) : SubSeq(t, 1, n)[i] = t[1 + i - 1]
    BY <1>1, <2>1, SubSeqProperties
  <2> QED
    BY <1>1, <2>2
<1> HIDE DEF u
<1>4. IsPrefix(s, t) <=> n <= Len(t) /\ \A i \in 1..n : s[i] = t[i]
  <2>1. ASSUME n <= Len(t), \A i \in 1..n : s[i] = t[i] PROVE s = u
    BY <1>3, <2>1, SeqEqual
  <2> QED
    BY <1>2, <1>3, <2>1
<1>5. ASSUME Len(s) = Len(t), \A i \in 1..n : s[i] = t[i] PROVE s = t
  BY <1>5, SeqEqual
<1> QED
  BY <1>1, <1>4, <1>5 DEF IsStrictPrefix

(* f[i] is the concatenation of the first i sequences of q.                 *)
Flattens(q, n, f) == f = [i \in 1..n |-> IF i = 1 THEN q[i] ELSE f[i - 1] \o q[i]]

(* Such a function exists, and its values are sequences.                    *)
LEMMA FlattensExists ==
  ASSUME NEW T, NEW q \in Seq(Seq(T)), NEW n \in 0..Len(q)
  PROVE  \E f : Flattens(q, n, f) /\ \A i \in 1..n : f[i] \in Seq(T)
<1> DEFINE S == {k \in Nat : k <= Len(q) =>
                    \E f : Flattens(q, k, f) /\ \A i \in 1..k : f[i] \in Seq(T)}
<1>1. Len(q) \in Nat /\ \A i \in 1..Len(q) : q[i] \in Seq(T)
  BY LenProperties, ElementOfSeq
<1>2. 0 \in S
  <2>1. Flattens(q, 0, [i \in 1..0 |-> <<>>])
    BY DEF Flattens
  <2> QED BY <2>1
<1>3. ASSUME NEW k \in Nat, k \in S, k + 1 <= Len(q)
      PROVE  \E f : Flattens(q, k + 1, f) /\ \A i \in 1..(k + 1) : f[i] \in Seq(T)
  <2>1. PICK f : Flattens(q, k, f) /\ \A i \in 1..k : f[i] \in Seq(T)
    BY <1>1, <1>3
  <2> DEFINE g == [i \in 1..(k + 1) |->
                     IF i <= k THEN f[i] ELSE IF i = 1 THEN q[i] ELSE f[i - 1] \o q[i]]
  <2>2. ASSUME NEW i \in 1..(k + 1)
        PROVE  g[i] = (IF i = 1 THEN q[i] ELSE g[i - 1] \o q[i]) /\ g[i] \in Seq(T)
    <3>1. i # 1 => i - 1 \in 1..(k + 1) /\ i - 1 <= k /\ g[i - 1] = f[i - 1] /\ f[i - 1] \in Seq(T)
      BY <1>3, <2>1
    <3>2. q[i] \in Seq(T)
      BY <1>1, <1>3
    <3>3. i # 1 => f[i - 1] \o q[i] \in Seq(T)
      BY <3>1, <3>2, ConcatProperties
    <3>4. CASE i <= k
      <4>1. i \in 1..k
        BY <3>4
      <4>2. f[i] = IF i = 1 THEN q[i] ELSE f[i - 1] \o q[i]
        BY <2>1, <4>1 DEF Flattens
      <4> QED BY <2>1, <3>1, <3>4, <4>1, <4>2
    <3>5. CASE i = k + 1
      <4>1. ~(i <= k)
        BY <3>5, <1>3
      <4> QED BY <3>1, <3>2, <3>3, <4>1
    <3> QED BY <3>4, <3>5
  <2>3. g = [i \in 1..(k + 1) |-> g[i]]
    OBVIOUS
  <2> HIDE DEF g
  <2>4. Flattens(q, k + 1, g)
    BY <2>2, <2>3 DEF Flattens
  <2> QED BY <2>2, <2>4
<1>4. \A k \in Nat : k \in S => k + 1 \in S
  BY <1>3
<1> HIDE DEF S
<1>5. Nat \subseteq S
  BY <1>2, <1>4, SetInduction
<1>6. n \in Nat /\ n <= Len(q)
  BY <1>1
<1> QED
  BY <1>5, <1>6 DEF S

(* Two of them agree as far as their sequences do.                          *)
LEMMA FlattensUnique ==
  ASSUME NEW p, NEW q, NEW m \in Nat, NEW n \in Nat, NEW f, NEW g,
         m <= n, \A i \in 1..m : p[i] = q[i], Flattens(p, m, f), Flattens(q, n, g)
  PROVE  \A i \in 1..m : f[i] = g[i]
<1> DEFINE S == {k \in Nat : k + 1 \in 1..m => f[k + 1] = g[k + 1]}
<1>1. \A i \in 1..m : f[i] = IF i = 1 THEN p[i] ELSE f[i - 1] \o p[i]
  BY DEF Flattens
<1>2. \A i \in 1..m : g[i] = IF i = 1 THEN q[i] ELSE g[i - 1] \o q[i]
  <2>1. \A i \in 1..n : g[i] = IF i = 1 THEN q[i] ELSE g[i - 1] \o q[i]
    BY DEF Flattens
  <2> QED BY <2>1
<1>3. 0 \in S
  BY <1>1, <1>2
<1>4. ASSUME NEW k \in Nat, k \in S, k + 1 + 1 \in 1..m
      PROVE  f[k + 1 + 1] = g[k + 1 + 1]
  <2>1. k + 1 \in 1..m /\ k + 1 + 1 - 1 = k + 1 /\ k + 1 + 1 # 1
    BY <1>4
  <2>2. f[k + 1] = g[k + 1]
    BY <1>4, <2>1
  <2>3. PICK j \in 1..m : j = k + 1 + 1
    BY <1>4
  <2>4. j - 1 = k + 1 /\ j # 1
    BY <2>1, <2>3
  <2>5. f[j] = f[k + 1] \o p[j] /\ g[j] = g[k + 1] \o q[j]
    BY <1>1, <1>2, <2>4
  <2> QED BY <2>2, <2>3, <2>5
<1>5. \A k \in Nat : k \in S => k + 1 \in S
  BY <1>4
<1>6. \A i \in 1..m : i - 1 \in Nat /\ i - 1 + 1 = i
  OBVIOUS
<1> HIDE DEF S
<1>7. \A i \in 1..m : i - 1 \in S
  BY <1>3, <1>5, <1>6, SetInduction
<1> QED
  BY <1>6, <1>7 DEF S

(* In particular when one sequence is appended.                             *)
LEMMA FlattensOneMore ==
  ASSUME NEW p, NEW q, NEW m \in Nat, NEW f, NEW g,
         \A i \in 1..m : p[i] = q[i], Flattens(p, m, f), Flattens(q, m + 1, g)
  PROVE  \A i \in 1..m : f[i] = g[i]
<1>1. PICK n \in Nat : n = m + 1
  OBVIOUS
<1>2. m <= n /\ Flattens(q, n, g)
  BY <1>1
<1> QED
  BY <1>2, FlattensUnique

(* Flattening one sequence more appends its elements.                       *)
LEMMA FlattenAppend ==
  ASSUME NEW T, NEW q \in Seq(Seq(T)), NEW x \in Seq(T)
  PROVE  /\ FlattenSeq(q) \in Seq(T)
         /\ FlattenSeq(Append(q, x)) = FlattenSeq(q) \o x
<1>1. PICK n \in Nat : n = Len(q)
  BY LenProperties
<1>2. PICK r : r = Append(q, x)
  OBVIOUS
<1>3. /\ r \in Seq(Seq(T)) /\ Len(r) = n + 1 /\ r[n + 1] = x
      /\ \A i \in 1..n : q[i] = r[i]
  BY <1>1, <1>2, AppendProperties
<1>4. PICK f : f = CHOOSE h : Flattens(q, n, h)
  OBVIOUS
<1>5. PICK g : g = CHOOSE h : Flattens(r, n + 1, h)
  OBVIOUS
<1>6. n # 0 => FlattenSeq(q) = f[n]
  BY <1>1, <1>4 DEF FlattenSeq, Flattens
<1>7. FlattenSeq(r) = g[n + 1]
  <2>1. Len(r) = n + 1 /\ n + 1 # 0
    BY <1>3
  <2> QED BY <1>5, <2>1 DEF FlattenSeq, Flattens
<1>8. Flattens(q, n, f) /\ \A i \in 1..n : f[i] \in Seq(T)
  <2>1. PICK h : Flattens(q, n, h) /\ \A i \in 1..n : h[i] \in Seq(T)
    BY <1>1, FlattensExists
  <2>2. Flattens(q, n, f)
    BY <1>4, <2>1
  <2>3. \A i \in 1..n : f[i] = h[i]
    BY <2>1, <2>2, FlattensUnique
  <2> QED BY <2>1, <2>2, <2>3
<1>9. Flattens(r, n + 1, g)
  <2>1. \E h : Flattens(r, n + 1, h)
    BY <1>3, FlattensExists
  <2> QED BY <1>5, <2>1
<1>10. \A i \in 1..n : f[i] = g[i]
  <2>1. \A i \in 1..n : q[i] = r[i]
    BY <1>3
  <2> QED BY <1>8, <1>9, <2>1, FlattensOneMore
<1>11. g[n + 1] = IF n + 1 = 1 THEN x ELSE g[n] \o x
  <2>1. n + 1 \in 1..(n + 1) /\ n + 1 - 1 = n
    OBVIOUS
  <2>2. \A i \in 1..(n + 1) : g[i] = IF i = 1 THEN r[i] ELSE g[i - 1] \o r[i]
    BY <1>9 DEF Flattens
  <2> QED BY <1>3, <2>1, <2>2
<1>12. CASE n = 0
  <2>1. q = <<>>
    BY <1>1, <1>12, EmptySeq
  <2>2. FlattenSeq(q) = <<>>
    BY <2>1, <1>1, <1>12 DEF FlattenSeq
  <2> QED BY <1>2, <1>7, <1>11, <1>12, <2>2, ConcatEmptySeq, EmptySeq
<1>13. CASE n # 0
  <2>1. n \in 1..n /\ n + 1 # 1
    BY <1>13
  <2>2. FlattenSeq(q) = f[n] /\ f[n] \in Seq(T) /\ f[n] = g[n]
    BY <1>6, <1>8, <1>10, <1>13, <2>1
  <2>3. FlattenSeq(r) = FlattenSeq(q) \o x
    BY <1>7, <1>11, <2>1, <2>2
  <2> QED BY <1>2, <2>2, <2>3
<1> QED
  BY <1>12, <1>13
=============================================================================
