------------------------------ MODULE ListProofs -----------------------------
(***************************************************************************)
(* What the other proofs need of numbers and lists: induction in the form  *)
(* that first-order provers can use, Min and Max, FlattenSeq, and what is  *)
(* done to a sequence of any kind of things.                               *)
(***************************************************************************)
EXTENDS Integers, Sequences, FiniteSets, SequencesExt, SequenceTheorems, FiniteSetTheorems,
        NaturalsInduction, WellFoundedInduction, TLAPS

(***************************************************************************)
(* Induction over lists: a set of numbers that is not empty has a least    *)
(* one, so a claim about all lengths has a least counterexample or none.   *)
(***************************************************************************)
LEMMA LeastOf ==
  ASSUME NEW T, T \subseteq Nat, T # {}
  PROVE  \E x \in T : \A y \in T : x <= y
<1>1. IsWellFoundedOn(OpToRel(<, Nat), Nat)
  BY NatLessThanWellFounded
<1>2. PICK x \in T : \A y \in T : ~(<<y, x>> \in OpToRel(<, Nat))
  BY <1>1, WFMin
<1>3. \A y \in T : ~(y < x)
  BY <1>2 DEF OpToRel
<1> QED
  BY <1>3

\* The steps to a claim about all lengths up to n: it holds of 0, and of a length if of the one before.
LEMMA UpTo ==
  ASSUME NEW n \in Nat, NEW Good, 0 \in Good, \A k \in 1..n : k - 1 \in Good => k \in Good
  PROVE  0..n \subseteq Good
<1> DEFINE Bad == (0..n) \ Good
<1> SUFFICES ASSUME Bad # {} PROVE FALSE
  OBVIOUS
<1>0. Bad \subseteq Nat
  OBVIOUS
<1>1. PICK x \in Bad : \A y \in Bad : x <= y
  <2> HIDE DEF Bad
  <2> QED
    BY <1>0, LeastOf
<1>2. x \in 1..n /\ x - 1 \in 0..n /\ x - 1 \in Int
  BY <1>1
<1>3. x - 1 \notin Good
  BY <1>1, <1>2
<1>4. x - 1 \in Bad /\ ~(x <= x - 1)
  BY <1>2, <1>3
<1> QED
  BY <1>1, <1>4

\* Min and Max of the numbers in a range.
LEMMA MinMax ==
  ASSUME NEW n \in Nat, NEW S, S \subseteq 1..n, S # {}
  PROVE  /\ Min(S) \in S /\ \A y \in S : Min(S) <= y
         /\ Max(S) \in S /\ \A y \in S : Max(S) >= y
<1>0. S \subseteq Nat
  OBVIOUS
<1>1. \E x \in S : \A y \in S : x <= y
  BY <1>0, LeastOf
<1>2. \E x \in S : \A y \in S : x >= y
  <2> DEFINE T == {n - y : y \in S}
  <2>1. T \subseteq Nat /\ T # {}
    <3>1. \A y \in S : n - y \in Nat
      OBVIOUS
    <3> QED
      BY <3>1
  <2>2. PICK t \in T : \A y \in T : t <= y
    <3> HIDE DEF T
    <3> QED
      BY <2>1, LeastOf
  <2>3. PICK x \in S : t = n - x
    BY <2>2
  <2>4. ASSUME NEW y \in S PROVE x >= y
    <3>1. n - y \in T
      OBVIOUS
    <3>2. n - x <= n - y /\ x \in Int /\ y \in Int
      BY <2>2, <2>3, <3>1
    <3> QED
      BY <3>2
  <2> QED
    BY <2>4
<1> QED
  BY <1>1, <1>2 DEF Min, Max

\* A bound of a set that is in it is its Min, or its Max.
LEMMA MinMaxAre ==
  ASSUME NEW n \in Nat, NEW S, S \subseteq 1..n, NEW x \in S
  PROVE  /\ (\A y \in S : x <= y) => Min(S) = x
         /\ (\A y \in S : x >= y) => Max(S) = x
<1>1. /\ Min(S) \in S /\ \A y \in S : Min(S) <= y
      /\ Max(S) \in S /\ \A y \in S : Max(S) >= y
  BY MinMax
<1>2. PICK min \in S, max \in S : min = Min(S) /\ max = Max(S)
  BY <1>1
<1>3. min \in Int /\ max \in Int /\ x \in Int /\ min <= x /\ max >= x
  BY <1>1, <1>2
<1>4. (\A y \in S : x <= y) => min = x
  BY <1>3
<1>5. (\A y \in S : x >= y) => max = x
  BY <1>3
<1> QED
  BY <1>2, <1>4, <1>5

(***************************************************************************)
(* FlattenSeq                                                              *)
(***************************************************************************)
\* f is what FlattenSeq has after each of the first n lists of s.
Flattened(f, s, n) == f = [i \in 1..n |-> IF i = 1 THEN s[i] ELSE f[i - 1] \o s[i]]

\* The fold has a value for each piece: by induction over the pieces.
LEMMA FlattenExists ==
  ASSUME NEW S, NEW s \in Seq(Seq(S)), NEW n \in 0..Len(s)
  PROVE  \E f \in [1..n -> Seq(S)] : Flattened(f, s, n)
<1> DEFINE Good == {k \in 0..Len(s) : \E f \in [1..k -> Seq(S)] : Flattened(f, s, k)}
<1>0. Len(s) \in Nat /\ \A k \in 1..Len(s) : s[k] \in Seq(S)
  BY LenProperties, ElementOfSeq
<1>1. 0 \in Good
  <2>1. [i \in 1..0 |-> << >>] \in [1..0 -> Seq(S)]
    OBVIOUS
  <2>2. Flattened([i \in 1..0 |-> << >>], s, 0)
    BY DEF Flattened
  <2>3. \E f \in [1..0 -> Seq(S)] : Flattened(f, s, 0)
    BY <2>1, <2>2
  <2>4. 0 \in 0..Len(s)
    BY <1>0
  <2> QED
    BY <2>3, <2>4
<1>2. ASSUME NEW k \in 1..Len(s), k - 1 \in Good PROVE k \in Good
  <2>1. PICK f \in [1..(k - 1) -> Seq(S)] : Flattened(f, s, k - 1)
    BY <1>2
  <2> DEFINE g == [i \in 1..k |-> IF i < k THEN f[i] ELSE IF k = 1 THEN s[1] ELSE f[k - 1] \o s[k]]
  <2>2. g \in [1..k -> Seq(S)]
    <3>1. k # 1 => f[k - 1] \o s[k] \in Seq(S)
      BY <1>0, ConcatProperties
    <3> QED
      BY <1>0, <3>1
  <2>3. ASSUME NEW i \in 1..k PROVE g[i] = IF i = 1 THEN s[i] ELSE g[i - 1] \o s[i]
    <3>1. CASE i < k
      <4>1. i \in 1..(k - 1) /\ (i # 1 => i - 1 \in 1..(k - 1) /\ i - 1 < k /\ i - 1 \in 1..k)
        BY <1>0, <3>1
      <4>2. f[i] = IF i = 1 THEN s[i] ELSE f[i - 1] \o s[i]
        BY <2>1, <4>1 DEF Flattened
      <4> QED
        BY <3>1, <4>1, <4>2
    <3>2. CASE i = k
      <4>1. k # 1 => k - 1 \in 1..k /\ k - 1 < k
        BY <1>0
      <4> QED
        BY <3>2, <4>1
    <3> QED
      BY <3>1, <3>2
  <2>4. Flattened(g, s, k)
    BY <2>2, <2>3 DEF Flattened
  <2>5. \E h \in [1..k -> Seq(S)] : Flattened(h, s, k)
    BY <2>2, <2>4
  <2> QED
    BY <1>0, <2>5
<1> HIDE DEF Good
<1>3. 0..Len(s) \subseteq Good
  BY <1>0, <1>1, <1>2, UpTo
<1> QED
  BY <1>3 DEF Good

\* The first n of s and t are the same.
Alike(s, t, n) == \A i \in 1..n : s[i] = t[i]

\* Lists that begin alike are flattened alike as far as they do.
LEMMA FlattenAgrees ==
  ASSUME NEW n \in Nat, NEW m \in Nat, n <= m, NEW s, NEW t, Alike(s, t, n),
         NEW f, Flattened(f, s, n), NEW g, Flattened(g, t, m)
  PROVE  Alike(f, g, n)
<1> DEFINE Good == {k \in 0..n : k = 0 \/ f[k] = g[k]}
<1>1. 0 \in Good
  OBVIOUS
<1>2. ASSUME NEW k \in 1..n, k - 1 \in Good PROVE k \in Good
  <2>1. f[k] = IF k = 1 THEN s[k] ELSE f[k - 1] \o s[k]
    BY DEF Flattened
  <2>2. g[k] = IF k = 1 THEN t[k] ELSE g[k - 1] \o t[k]
    <3>1. k \in 1..m
      OBVIOUS
    <3> QED
      BY <3>1 DEF Flattened
  <2>3. k # 1 => f[k - 1] = g[k - 1]
    BY <1>2
  <2> QED
    BY <2>1, <2>2, <2>3 DEF Alike
<1>3. 0..n \subseteq Good
  <2> HIDE DEF Good
  <2> QED
    BY <1>1, <1>2, UpTo
<1> QED
  BY <1>3 DEF Alike

\* What FlattenSeq returns is at the end of it, whichever function that is.
LEMMA FlattenIs ==
  ASSUME NEW S, NEW s \in Seq(Seq(S)), Len(s) # 0
  PROVE  \E f \in [1..Len(s) -> Seq(S)] : Flattened(f, s, Len(s)) /\ FlattenSeq(s) = f[Len(s)]
<1>1. Len(s) \in 0..Len(s) /\ Len(s) \in 1..Len(s) /\ Len(s) \in Nat
  BY LenProperties
<1> DEFINE f == CHOOSE f : Flattened(f, s, Len(s))
<1>2. PICK h \in [1..Len(s) -> Seq(S)] : Flattened(h, s, Len(s))
  BY <1>1, FlattenExists
<1>3. Flattened(f, s, Len(s))
  BY <1>2
<1>4. FlattenSeq(s) = f[Len(s)]
  BY DEF FlattenSeq, Flattened
<1> HIDE DEF f
<1>5. Alike(h, f, Len(s))
  <2>1. Alike(s, s, Len(s)) /\ Len(s) <= Len(s)
    BY <1>1 DEF Alike
  <2> QED
    BY <1>1, <1>2, <1>3, <2>1, FlattenAgrees
<1> QED
  BY <1>1, <1>2, <1>4, <1>5 DEF Alike

\* No list, flattened, is no list; a list behind others stays behind them.
LEMMA FlattenAppend ==
  ASSUME NEW S, NEW s \in Seq(Seq(S)), NEW x \in Seq(S)
  PROVE  /\ FlattenSeq(s) \in Seq(S)
         /\ FlattenSeq(Append(s, x)) = FlattenSeq(s) \o x
<1> DEFINE t == Append(s, x)
           n == Len(s)
<1>1. /\ t \in Seq(Seq(S)) /\ Len(t) = n + 1 /\ t[n + 1] = x
      /\ n \in Nat /\ \A i \in 1..n : t[i] = s[i]
  BY AppendProperties, LenProperties
<1> HIDE DEF t, n
<1>2. PICK g \in [1..(n + 1) -> Seq(S)] : Flattened(g, t, n + 1) /\ FlattenSeq(t) = g[n + 1]
  <2>1. Len(t) # 0
    BY <1>1
  <2>2. \E g \in [1..Len(t) -> Seq(S)] : Flattened(g, t, Len(t)) /\ FlattenSeq(t) = g[Len(t)]
    BY <1>1, <2>1, FlattenIs
  <2> QED
    BY <1>1, <2>2
<1>3. g[n + 1] = IF n = 0 THEN x ELSE g[n] \o x
  <2>1. n + 1 \in 1..(n + 1) /\ (n + 1) - 1 = n /\ (n + 1 = 1 <=> n = 0)
    BY <1>1
  <2>2. g[n + 1] = IF n + 1 = 1 THEN t[n + 1] ELSE g[(n + 1) - 1] \o t[n + 1]
    BY <1>2, <2>1 DEF Flattened
  <2> QED
    BY <1>1, <2>1, <2>2
<1>4. CASE n = 0
  <2>1. s = << >> /\ FlattenSeq(s) = << >>
    BY <1>4, EmptySeq DEF FlattenSeq, n
  <2>2. << >> \o x = x /\ << >> \in Seq(S)
    BY ConcatEmptySeq, EmptySeq
  <2> QED
    BY <1>1, <1>2, <1>3, <1>4, <2>1, <2>2 DEF t
<1>5. CASE n # 0
  <2>1. PICK f \in [1..n -> Seq(S)] : Flattened(f, s, n) /\ FlattenSeq(s) = f[n]
    BY <1>5, FlattenIs DEF n
  <2>2. Alike(f, g, n)
    <3> DEFINE m == n + 1
    <3>1. n \in Nat /\ m \in Nat /\ n <= m /\ Alike(s, t, n)
      BY <1>1 DEF Alike
    <3>2. Flattened(f, s, n) /\ Flattened(g, t, m)
      BY <1>2, <2>1
    <3> HIDE DEF m
    <3> QED
      BY <3>1, <3>2, FlattenAgrees
  <2>3. n \in 1..n
    BY <1>1, <1>5
  <2> QED
    BY <1>2, <1>3, <1>5, <2>1, <2>2, <2>3 DEF t, Alike
<1> QED
  BY <1>4, <1>5

(***************************************************************************)
(* Sequences, whatever they are of                                         *)
(***************************************************************************)
\* A sequence of some kind.
IsSeq(s) == s \in Seq({s[i] : i \in 1..Len(s)})

\* A sequence over any set is one.
LEMMA InSeq ==
  ASSUME NEW S, NEW s \in Seq(S)
  PROVE  IsSeq(s)
<1>1. Len(s) \in Nat /\ DOMAIN s = 1..Len(s) /\ s = [i \in 1..Len(s) |-> s[i]]
  BY LenProperties
<1>2. s \in [1..Len(s) -> {s[i] : i \in 1..Len(s)}]
  BY <1>1
<1> QED
  BY <1>1, <1>2, SeqDef DEF IsSeq

\* The empty sequence is one.
LEMMA EmptyAny == IsSeq(<< >>) /\ Len(<< >>) = 0
BY EmptySeq, InSeq

\* What Append does to it.
LEMMA AppendAny ==
  ASSUME NEW s, IsSeq(s), NEW e
  PROVE  /\ IsSeq(Append(s, e)) /\ Len(s) \in Nat /\ Len(Append(s, e)) = Len(s) + 1
         /\ Append(s, e)[Len(s) + 1] = e /\ \A i \in 1..Len(s) : Append(s, e)[i] = s[i]
<1> DEFINE S == {s[i] : i \in 1..Len(s)} \cup {e}
<1>1. s \in Seq(S) /\ e \in S
  BY SeqMonotonic DEF IsSeq
<1> HIDE DEF S
<1>2. Append(s, e) \in Seq(S)
  BY <1>1
<1>3. IsSeq(Append(s, e))
  BY <1>2, InSeq
<1>4. /\ Len(s) \in Nat /\ Len(Append(s, e)) = Len(s) + 1
      /\ Append(s, e)[Len(s) + 1] = e /\ \A i \in 1..Len(s) : Append(s, e)[i] = s[i]
  BY <1>1, AppendProperties, LenProperties
<1> QED
  BY <1>3, <1>4

\* What Head and Tail take of it.
LEMMA TailAny ==
  ASSUME NEW s, IsSeq(s), s # << >>
  PROVE  /\ IsSeq(Tail(s)) /\ Len(s) \in Nat \ {0} /\ Len(Tail(s)) = Len(s) - 1
         /\ Head(s) = s[1] /\ \A i \in 1..(Len(s) - 1) : Tail(s)[i] = s[i + 1]
<1> DEFINE S == {s[i] : i \in 1..Len(s)}
<1>1. s \in Seq(S)
  BY DEF IsSeq
<1> HIDE DEF S
<1>2. Tail(s) \in Seq(S)
  BY <1>1
<1>3. IsSeq(Tail(s))
  BY <1>2, InSeq
<1>4. Len(s) \in Nat \ {0} /\ Len(Tail(s)) = Len(s) - 1 /\ Head(s) = s[1]
  BY <1>1
<1>5. \A i \in 1..(Len(s) - 1) : Tail(s)[i] = s[i + 1]
  BY <1>1
<1> QED
  BY <1>3, <1>4, <1>5

\* What a change of one element leaves.
LEMMA ExceptAny ==
  ASSUME NEW s, IsSeq(s), NEW n \in 1..Len(s), NEW e, NEW t, t = [s EXCEPT ![n] = e]
  PROVE  /\ IsSeq(t) /\ Len(s) \in Nat /\ Len(t) = Len(s)
         /\ t[n] = e /\ \A i \in 1..Len(s) : i # n => t[i] = s[i]
<1> DEFINE S == {s[i] : i \in 1..Len(s)} \cup {e}
<1>1. s \in Seq(S) /\ e \in S
  BY SeqMonotonic DEF IsSeq
<1> HIDE DEF S
<1>2. t \in Seq(S) /\ Len(t) = Len(s)
  BY <1>1, ExceptSeq, LenProperties
<1>3. IsSeq(t)
  BY <1>2, InSeq
<1>4. Len(s) \in Nat /\ t[n] = e /\ \A i \in 1..Len(s) : i # n => t[i] = s[i]
  BY <1>1, LenProperties
<1> QED
  BY <1>2, <1>3, <1>4

\* A sum of two tags, cut to the width of a tag.
LEMMA SmallMod ==
  ASSUME NEW m \in Nat \ {0}, NEW a \in 0..(2 * m - 1)
  PROVE  a % m = IF a < m THEN a ELSE a - m
<1>1. a % m \in 0..(m - 1) /\ a = m * (a \div m) + (a % m) /\ a \div m \in Int
  OBVIOUS
<1>2. a \div m < 2
  <2> SUFFICES ASSUME a \div m >= 2 PROVE FALSE
    BY <1>1
  <2>1. m * (a \div m) >= m * 2
    BY <1>1
  <2> QED
    BY <1>1, <2>1
<1>3. a \div m >= 0
  <2> SUFFICES ASSUME a \div m <= -1 PROVE FALSE
    BY <1>1
  <2>1. m * (a \div m) <= m * (-1)
    BY <1>1
  <2> QED
    BY <1>1, <2>1
<1>4. CASE a \div m = 0
  BY <1>1, <1>4
<1>5. CASE a \div m = 1
  BY <1>1, <1>5
<1> QED
  BY <1>1, <1>2, <1>3, <1>4, <1>5
==============================================================================
