---------------------------- MODULE P9ClientProofs ---------------------------
(***************************************************************************)
(* Theorems about P9Client, for any calls, any answers, any number of tags *)
(* and any number of replies too many below that: first the codec, what a  *)
(* decoder makes of what was encoded; then the stream, which calls the     *)
(* frames in it belong to; then the calls, which are those of P9Calls.     *)
(***************************************************************************)
EXTENDS P9Client, ListProofs

(***************************************************************************)
(* The codec: cursors in a body                                            *)
(***************************************************************************)
\* The body x has the cells of e behind its first pos.
Holds(x, pos, e) == pos + Len(e) <= Len(x) /\ \A j \in 1..Len(e) : x[pos + j] = e[j]

\* A cursor behind the first pos cells of x, for which x ends at lim.
Stands(c, x, pos, lim) ==
  /\ DOMAIN c = {"ok", "got", "rest"} /\ c.ok = TRUE /\ IsSeq(c.got)
  /\ pos \in Nat /\ pos <= lim /\ c.rest = SubSeq(x, pos + 1, lim)

\* What is before such a cursor.
Before(c, x, pos, lim) ==
  /\ c.rest \in Seq(Nat) /\ Len(c.rest) = lim - pos
  /\ \A i \in 1..(lim - pos) : c.rest[i] = x[pos + i]
  /\ c.rest = << >> <=> pos = lim
  /\ pos # lim => Head(c.rest) = x[pos + 1] /\ x[pos + 1] \in Nat

\* A cursor that stands somewhere has the cells up to lim before it.
LEMMA RestIs ==
  ASSUME NEW x \in Seq(Nat), NEW lim \in 0..Len(x), NEW pos \in Nat, NEW c, Stands(c, x, pos, lim)
  PROVE  Before(c, x, pos, lim)
<1>1. Len(x) \in Nat /\ pos <= lim /\ lim \in Nat /\ c.rest = SubSeq(x, pos + 1, lim)
  BY LenProperties DEF Stands
<1>2. \A i \in (pos + 1)..lim : x[i] \in Nat
  BY <1>1, ElementOfSeq
<1>3. /\ c.rest \in Seq(Nat) /\ Len(c.rest) = lim - pos
      /\ \A i \in 1..(lim - pos) : c.rest[i] = x[pos + i]
  <2>1. /\ SubSeq(x, pos + 1, lim) \in Seq(Nat)
        /\ Len(SubSeq(x, pos + 1, lim)) = IF pos + 1 <= lim THEN lim - (pos + 1) + 1 ELSE 0
        /\ \A i \in 1..((lim - (pos + 1)) + 1) : SubSeq(x, pos + 1, lim)[i] = x[((pos + 1) + i) - 1]
    BY <1>1, <1>2, SubSeqProperties
  <2>2. (lim - (pos + 1)) + 1 = lim - pos /\ (pos + 1 <= lim \/ lim - pos = 0)
    BY <1>1
  <2>3. \A i \in 1..(lim - pos) : ((pos + 1) + i) - 1 = pos + i
    BY <1>1
  <2> QED
    BY <1>1, <2>1, <2>2, <2>3
<1>4. c.rest = << >> <=> pos = lim
  BY <1>1, <1>3, EmptySeq
<1>5. pos # lim => Head(c.rest) = x[pos + 1] /\ x[pos + 1] \in Nat
  <2> SUFFICES ASSUME pos # lim PROVE Head(c.rest) = x[pos + 1] /\ x[pos + 1] \in Nat
    OBVIOUS
  <2>1. 1 \in 1..(lim - pos) /\ pos + 1 \in (pos + 1)..lim
    BY <1>1
  <2>2. Head(c.rest) = c.rest[1]
    BY <1>3, <1>4
  <2> QED
    BY <1>2, <1>3, <2>1, <2>2
<1> QED
  BY <1>3, <1>4, <1>5 DEF Before

\* Taking n cells moves the cursor on by n.
LEMMA TakeMovesOn ==
  ASSUME NEW x \in Seq(Nat), NEW lim \in 0..Len(x), NEW pos \in Nat, NEW c, Stands(c, x, pos, lim),
         NEW n \in Nat, pos + n <= lim, NEW v
  PROVE  Stands(Take(c, v, n), x, pos + n, lim) /\ Take(c, v, n).got = Append(c.got, v)
<1>1. Len(x) \in Nat /\ pos <= lim /\ lim \in Nat
  BY LenProperties DEF Stands
<1>2. /\ c.rest \in Seq(Nat) /\ Len(c.rest) = lim - pos
      /\ \A i \in 1..(lim - pos) : c.rest[i] = x[pos + i]
  <2>1. Before(c, x, pos, lim)
    BY RestIs
  <2> QED
    BY <2>1 DEF Before
<1>3. SubSeq(c.rest, n + 1, Len(c.rest)) = SubSeq(x, (pos + n) + 1, lim)
  <2> DEFINE k == lim - (pos + n)
             a == SubSeq(c.rest, n + 1, lim - pos)
             b == SubSeq(x, (pos + n) + 1, lim)
  <2>1. k \in Nat /\ ((lim - pos) - (n + 1)) + 1 = k /\ (lim - ((pos + n) + 1)) + 1 = k
        /\ (n + 1 <= lim - pos <=> k # 0) /\ ((pos + n) + 1 <= lim <=> k # 0)
        /\ n + 1 \in Int /\ lim - pos \in Int /\ (pos + n) + 1 \in Int
    BY <1>1
  <2>2. \A i \in (n + 1)..(lim - pos) : c.rest[i] \in Nat
    <3>1. \A i \in (n + 1)..(lim - pos) : i \in 1..Len(c.rest)
      BY <1>1, <1>2
    <3> QED
      BY <1>2, <3>1, ElementOfSeq
  <2>3. \A i \in ((pos + n) + 1)..lim : x[i] \in Nat
    BY <1>1, ElementOfSeq
  <2>4. a \in Seq(Nat) /\ Len(a) = k /\ \A i \in 1..k : a[i] = c.rest[((n + 1) + i) - 1]
    <3>1. /\ SubSeq(c.rest, n + 1, lim - pos) \in Seq(Nat)
          /\ Len(SubSeq(c.rest, n + 1, lim - pos)) = IF n + 1 <= lim - pos THEN ((lim - pos) - (n + 1)) + 1 ELSE 0
          /\ \A i \in 1..(((lim - pos) - (n + 1)) + 1) : SubSeq(c.rest, n + 1, lim - pos)[i] = c.rest[((n + 1) + i) - 1]
      BY <2>1, <2>2, SubSeqProperties
    <3> QED
      BY <2>1, <3>1
  <2>5. b \in Seq(Nat) /\ Len(b) = k /\ \A i \in 1..k : b[i] = x[(((pos + n) + 1) + i) - 1]
    <3>1. /\ SubSeq(x, (pos + n) + 1, lim) \in Seq(Nat)
          /\ Len(SubSeq(x, (pos + n) + 1, lim)) = IF (pos + n) + 1 <= lim THEN (lim - ((pos + n) + 1)) + 1 ELSE 0
          /\ \A i \in 1..((lim - ((pos + n) + 1)) + 1) : SubSeq(x, (pos + n) + 1, lim)[i] = x[(((pos + n) + 1) + i) - 1]
      BY <1>1, <2>1, <2>3, SubSeqProperties
    <3> QED
      BY <2>1, <3>1
  <2>6. ASSUME NEW i \in 1..k PROVE a[i] = b[i]
    <3>1. ((n + 1) + i) - 1 = n + i /\ (((pos + n) + 1) + i) - 1 = pos + (n + i) /\ n + i \in 1..(lim - pos)
      BY <1>1, <2>1
    <3> QED
      BY <1>2, <2>4, <2>5, <3>1
  <2> HIDE DEF a, b, k
  <2>7. a = b
    BY <2>4, <2>5, <2>6, SeqEqual
  <2> QED
    BY <1>2, <2>7 DEF a, b
<1>4. pos + n \in Nat /\ IsSeq(Append(c.got, v))
  BY AppendAny DEF Stands
<1> QED
  BY <1>3, <1>4 DEF Stands, Take

\* A number that can be read is the next cell.
LEMMA NumberRead ==
  ASSUME NEW x \in Seq(Nat), NEW lim \in 0..Len(x), NEW pos \in Nat, NEW c, Stands(c, x, pos, lim),
         DecodeNumber(c).ok
  PROVE  /\ pos < lim /\ x[pos + 1] \in Nat
         /\ Stands(DecodeNumber(c), x, pos + 1, lim) /\ DecodeNumber(c).got = Append(c.got, x[pos + 1])
<1>1. c.rest # << >> /\ DecodeNumber(c) = Take(c, Head(c.rest), 1)
  BY DEF DecodeNumber, Short
<1>2. pos < lim /\ pos + 1 <= lim /\ Head(c.rest) = x[pos + 1] /\ x[pos + 1] \in Nat
  <2>1. Before(c, x, pos, lim) /\ pos <= lim
    BY RestIs DEF Stands
  <2>2. lim \in Nat
    BY LenProperties
  <2> QED
    BY <1>1, <2>1, <2>2 DEF Before
<1> QED
  BY <1>1, <1>2, TakeMovesOn

\* A list that can be read are as many cells as the next one says.
LEMMA CountedRead ==
  ASSUME NEW x \in Seq(Nat), NEW lim \in 0..Len(x), NEW pos \in Nat, NEW c, Stands(c, x, pos, lim),
         NEW n \in Nat, pos < lim => x[pos + 1] = n, DecodeCounted(c).ok
  PROVE  /\ pos + 1 + n <= lim
         /\ Stands(DecodeCounted(c), x, pos + 1 + n, lim)
         /\ DecodeCounted(c).got = Append(c.got, SubSeq(x, pos + 2, pos + 1 + n))
<1>1. Len(x) \in Nat /\ pos <= lim /\ lim \in Nat
  BY LenProperties DEF Stands
<1>2. /\ c.rest # << >> /\ ~(Len(c.rest) < 1 + Head(c.rest))
      /\ DecodeCounted(c) = Take(c, SubSeq(c.rest, 2, Head(c.rest) + 1), Head(c.rest) + 1)
  BY DEF DecodeCounted, Short
<1>3. /\ Head(c.rest) = n /\ Len(c.rest) = lim - pos /\ c.rest \in Seq(Nat)
      /\ \A i \in 1..(lim - pos) : c.rest[i] = x[pos + i]
  <2>1. /\ Len(c.rest) = lim - pos /\ c.rest \in Seq(Nat)
        /\ \A i \in 1..(lim - pos) : c.rest[i] = x[pos + i]
        /\ c.rest = << >> <=> pos = lim
        /\ pos # lim => Head(c.rest) = x[pos + 1]
    <3>1. Before(c, x, pos, lim)
      BY RestIs
    <3> QED
      BY <3>1 DEF Before
  <2>2. pos # lim /\ pos < lim
    BY <1>1, <1>2, <2>1
  <2> QED
    BY <2>1, <2>2
<1>4. n + 1 \in Nat /\ pos + (n + 1) <= lim /\ pos + (n + 1) = pos + 1 + n
  <2>1. ~(lim - pos < 1 + n)
    BY <1>2, <1>3
  <2> QED
    BY <1>1, <2>1
<1>5. SubSeq(c.rest, 2, n + 1) = SubSeq(x, pos + 2, pos + 1 + n)
  <2> DEFINE a == SubSeq(c.rest, 2, n + 1)
             b == SubSeq(x, pos + 2, pos + 1 + n)
  <2>1. /\ ((n + 1) - 2) + 1 = n /\ ((pos + 1 + n) - (pos + 2)) + 1 = n
        /\ (2 <= n + 1 <=> n # 0) /\ (pos + 2 <= pos + 1 + n <=> n # 0)
        /\ 2 \in Int /\ n + 1 \in Int /\ pos + 2 \in Int /\ pos + 1 + n \in Int
    BY <1>1
  <2>2. \A i \in 2..(n + 1) : c.rest[i] \in Nat
    <3>1. \A i \in 2..(n + 1) : i \in 1..Len(c.rest)
      BY <1>1, <1>3, <1>4
    <3> QED
      BY <1>3, <3>1, ElementOfSeq
  <2>3. \A i \in (pos + 2)..(pos + 1 + n) : x[i] \in Nat
    <3>1. \A i \in (pos + 2)..(pos + 1 + n) : i \in 1..Len(x)
      BY <1>1, <1>3, <1>4
    <3> QED
      BY <3>1, ElementOfSeq
  <2>4. a \in Seq(Nat) /\ Len(a) = n /\ \A i \in 1..n : a[i] = c.rest[(2 + i) - 1]
    BY <1>3, <2>1, <2>2, SubSeqProperties
  <2>5. b \in Seq(Nat) /\ Len(b) = n /\ \A i \in 1..n : b[i] = x[((pos + 2) + i) - 1]
    <3> DEFINE hi == pos + 1 + n
    <3>1. hi \in Int /\ (hi - (pos + 2)) + 1 = n /\ (pos + 2 <= hi <=> n # 0) /\ \A i \in (pos + 2)..hi : x[i] \in Nat
      BY <2>1, <2>3
    <3> HIDE DEF hi
    <3>2. /\ SubSeq(x, pos + 2, hi) \in Seq(Nat)
          /\ Len(SubSeq(x, pos + 2, hi)) = IF pos + 2 <= hi THEN (hi - (pos + 2)) + 1 ELSE 0
          /\ \A i \in 1..((hi - (pos + 2)) + 1) : SubSeq(x, pos + 2, hi)[i] = x[((pos + 2) + i) - 1]
      BY <2>1, <3>1, SubSeqProperties
    <3>3. b = SubSeq(x, pos + 2, hi)
      BY DEF hi
    <3> HIDE DEF b
    <3> QED
      BY <3>1, <3>2, <3>3
  <2>6. ASSUME NEW i \in 1..n PROVE a[i] = b[i]
    <3>1. (2 + i) - 1 = i + 1 /\ ((pos + 2) + i) - 1 = pos + (i + 1) /\ i + 1 \in 1..(lim - pos)
      BY <1>1, <1>4
    <3> HIDE DEF a, b
    <3>2. a[i] = c.rest[i + 1]
      BY <2>4, <3>1
    <3>3. b[i] = x[pos + (i + 1)]
      BY <2>5, <3>1
    <3>4. c.rest[i + 1] = x[pos + (i + 1)]
      BY <1>3, <3>1
    <3> QED
      BY <3>2, <3>3, <3>4
  <2> HIDE DEF a, b
  <2>7. a = b
    BY <2>4, <2>5, <2>6, SeqEqual
  <2> QED
    BY <2>7 DEF a, b
<1>6. DecodeCounted(c) = Take(c, SubSeq(x, pos + 2, pos + 1 + n), n + 1)
  BY <1>2, <1>3, <1>5
<1> HIDE DEF Stands
<1>7. ASSUME NEW v, NEW k, k = n + 1
      PROVE  Stands(Take(c, v, k), x, pos + k, lim) /\ Take(c, v, k).got = Append(c.got, v)
  <2>1. k \in Nat /\ pos + k <= lim
    BY <1>4, <1>7
  <2> HIDE <1>7
  <2> QED
    BY <2>1, TakeMovesOn
<1> QED
  BY <1>4, <1>6, <1>7

\* What is behind a in x when a \o b is.
LEMMA HoldsConcat ==
  ASSUME NEW x \in Seq(Nat), NEW pos \in Nat, NEW a \in Seq(Nat), NEW b \in Seq(Nat), Holds(x, pos, a \o b)
  PROVE  Holds(x, pos, a) /\ Holds(x, pos + Len(a), b)
<1>1. /\ Len(a) \in Nat /\ Len(b) \in Nat /\ Len(x) \in Nat /\ Len(a \o b) = Len(a) + Len(b)
      /\ \A i \in 1..(Len(a) + Len(b)) : (a \o b)[i] = IF i <= Len(a) THEN a[i] ELSE b[i - Len(a)]
  BY ConcatProperties, LenProperties
<1>2. PICK m \in Nat, n \in Nat : m = Len(a) /\ n = Len(b)
  BY <1>1
<1>3. pos + (m + n) <= Len(x) /\ \A j \in 1..(m + n) : x[pos + j] = (a \o b)[j]
  BY <1>1, <1>2 DEF Holds
<1>4. Holds(x, pos, a)
  <2>1. pos + m <= Len(x)
    BY <1>1, <1>3
  <2>2. ASSUME NEW j \in 1..m PROVE x[pos + j] = a[j]
    <3>1. j \in 1..(m + n) /\ j <= m
      OBVIOUS
    <3> QED
      BY <1>1, <1>2, <1>3, <3>1
  <2> QED
    BY <1>2, <2>1, <2>2 DEF Holds
<1>5. Holds(x, pos + m, b)
  <2>1. (pos + m) + n <= Len(x)
    BY <1>1, <1>3
  <2>2. ASSUME NEW j \in 1..n PROVE x[(pos + m) + j] = b[j]
    <3>1. m + j \in 1..(m + n) /\ ~(m + j <= m) /\ (m + j) - m = j /\ (pos + m) + j = pos + (m + j)
      OBVIOUS
    <3>2. (a \o b)[m + j] = b[j]
      BY <1>1, <1>2, <3>1
    <3> QED
      BY <1>3, <3>1, <3>2
  <2> QED
    BY <1>2, <2>1, <2>2 DEF Holds
<1> QED
  BY <1>2, <1>4, <1>5

\* A list behind its length is read as it is.
LEMMA ListRead ==
  ASSUME NEW x \in Seq(Nat), NEW lim \in 0..Len(x), NEW pos \in Nat, NEW c, Stands(c, x, pos, lim),
         NEW v \in Seq(Nat), Holds(x, pos, <<Len(v)>> \o v), DecodeCounted(c).ok
  PROVE  /\ Stands(DecodeCounted(c), x, pos + Len(<<Len(v)>> \o v), lim)
         /\ DecodeCounted(c).got = Append(c.got, v)
<1>1. Len(v) \in Nat /\ <<Len(v)>> \in Seq(Nat) /\ Len(<<Len(v)>>) = 1 /\ <<Len(v)>>[1] = Len(v) /\ Len(x) \in Nat
  BY LenProperties
<1>2. PICK n \in Nat : n = Len(v)
  BY <1>1
<1>3. Holds(x, pos, <<n>>) /\ Holds(x, pos + 1, v) /\ Len(<<n>> \o v) = 1 + n
  <2> DEFINE a == <<n>>
  <2>1. a \in Seq(Nat) /\ Len(a) = 1
    OBVIOUS
  <2>2. Holds(x, pos, a \o v)
    BY <1>2
  <2> HIDE DEF a
  <2>3. Holds(x, pos, a) /\ Holds(x, pos + Len(a), v)
    BY <2>1, <2>2, HoldsConcat
  <2>4. \A s, t \in Seq(Nat) : Len(s \o t) = Len(s) + Len(t)
    BY ConcatProperties
  <2>5. Len(a \o v) = Len(a) + Len(v)
    BY <2>1, <2>4
  <2> QED
    BY <1>2, <2>1, <2>3, <2>5 DEF a
<1>4. x[pos + 1] = n
  BY <1>3 DEF Holds
<1>5. /\ pos + 1 + n <= lim
      /\ Stands(DecodeCounted(c), x, pos + 1 + n, lim)
      /\ DecodeCounted(c).got = Append(c.got, SubSeq(x, pos + 2, pos + 1 + n))
  BY <1>4, CountedRead
<1>6. SubSeq(x, pos + 2, pos + 1 + n) = v
  <2> DEFINE b == SubSeq(x, pos + 2, pos + 1 + n)
  <2>1. /\ ((pos + 1 + n) - (pos + 2)) + 1 = n /\ (pos + 2 <= pos + 1 + n <=> n # 0)
        /\ pos + 2 \in Int /\ pos + 1 + n \in Int
    OBVIOUS
  <2>2. \A i \in (pos + 2)..(pos + 1 + n) : x[i] \in Nat
    <3>1. \A i \in (pos + 2)..(pos + 1 + n) : i \in 1..Len(x)
      BY <1>1, <1>5
    <3> QED
      BY <3>1, ElementOfSeq
  <2>3. b \in Seq(Nat) /\ Len(b) = n /\ \A i \in 1..n : b[i] = x[((pos + 2) + i) - 1]
    BY <2>1, <2>2, SubSeqProperties
  <2>4. ASSUME NEW i \in 1..n PROVE b[i] = v[i]
    <3>1. ((pos + 2) + i) - 1 = (pos + 1) + i
      OBVIOUS
    <3>2. x[(pos + 1) + i] = v[i]
      BY <1>2, <1>3 DEF Holds
    <3> QED
      BY <2>3, <3>1, <3>2
  <2> HIDE DEF b
  <2>5. b = v
    BY <1>2, <2>3, <2>4, SeqEqual
  <2> QED
    BY <2>5 DEF b
<1>7. pos + Len(<<Len(v)>> \o v) = pos + 1 + n
  BY <1>2, <1>3
<1> QED
  BY <1>5, <1>6, <1>7

\* The pieces of e are in x behind its first pos cells, each behind the one before.
Laid(x, pos, e, end) ==
  /\ end \in [0..Len(e) -> Nat] /\ end[0] = 0 /\ end[Len(e)] = Len(FlattenSeq(e))
  /\ \A i \in 1..Len(e) : end[i] = end[i - 1] + Len(e[i]) /\ Holds(x, pos + end[i - 1], e[i])

\* Where the pieces of a flattened list are.
LEMMA FlattenHolds ==
  ASSUME NEW x \in Seq(Nat), NEW pos \in Nat, NEW e \in Seq(Seq(Nat)), Holds(x, pos, FlattenSeq(e))
  PROVE  FlattenSeq(e) \in Seq(Nat) /\ \E end : Laid(x, pos, e, end)
<1>1. Len(e) \in Nat /\ \A i \in 1..Len(e) : e[i] \in Seq(Nat)
  BY LenProperties, ElementOfSeq
<1>2. CASE Len(e) = 0
  <2> DEFINE end == [i \in 0..0 |-> 0]
  <2>1. FlattenSeq(e) = << >> /\ Len(<< >>) = 0 /\ << >> \in Seq(Nat)
    BY <1>2, EmptySeq DEF FlattenSeq
  <2>2. end \in [0..Len(e) -> Nat] /\ end[0] = 0 /\ end[Len(e)] = Len(FlattenSeq(e))
    BY <1>2, <2>1
  <2>3. 1..Len(e) = {}
    BY <1>2
  <2> HIDE DEF end
  <2>4. Laid(x, pos, e, end)
    BY <2>2, <2>3 DEF Laid
  <2> QED
    BY <2>1, <2>4
<1>3. CASE Len(e) # 0
  <2>1. PICK n \in Nat : n = Len(e) /\ n # 0
    BY <1>1, <1>3
  <2>2. PICK f \in [1..n -> Seq(Nat)] : Flattened(f, e, n) /\ FlattenSeq(e) = f[n]
    BY <1>3, <2>1, FlattenIs
  <2>3. \A i \in 1..n : f[i] = (IF i = 1 THEN e[i] ELSE f[i - 1] \o e[i]) /\ f[i] \in Seq(Nat) /\ Len(f[i]) \in Nat
    BY <2>2, LenProperties DEF Flattened
  <2> DEFINE Good == {k \in 0..(n - 1) : Holds(x, pos, f[n - k])}
  <2>4. n - 1 \in Nat /\ 0 \in Good
    BY <2>1, <2>2
  <2>5. ASSUME NEW k \in 1..(n - 1), k - 1 \in Good PROVE k \in Good
    <3>1. /\ n - k \in 1..n /\ n - (k - 1) \in 1..n /\ n - (k - 1) # 1 /\ (n - (k - 1)) - 1 = n - k /\ k \in 0..(n - 1)
      BY <2>1
    <3>2. f[n - (k - 1)] = f[n - k] \o e[n - (k - 1)]
      BY <2>3, <3>1
    <3>3. Holds(x, pos, f[n - (k - 1)])
      BY <2>5
    <3>4. f[n - k] \in Seq(Nat) /\ e[n - (k - 1)] \in Seq(Nat)
      BY <1>1, <2>1, <2>3, <3>1
    <3>5. Holds(x, pos, f[n - k])
      BY <3>2, <3>3, <3>4, HoldsConcat
    <3> QED
      BY <3>1, <3>5
  <2>6. ASSUME NEW i \in 1..n PROVE Holds(x, pos, f[i])
    <3>1. 0..(n - 1) \subseteq Good
      <4> HIDE DEF Good
      <4> QED
        BY <2>4, <2>5, UpTo
    <3>2. n - i \in 0..(n - 1) /\ n - (n - i) = i
      BY <2>1
    <3> QED
      BY <3>1, <3>2
  <2> DEFINE end == [i \in 0..n |-> IF i = 0 THEN 0 ELSE Len(f[i])]
  <2>7. end \in [0..n -> Nat] /\ end[0] = 0 /\ end[n] = Len(FlattenSeq(e))
    BY <2>1, <2>2, <2>3
  <2>8. ASSUME NEW i \in 1..n
        PROVE  end[i] = end[i - 1] + Len(e[i]) /\ Holds(x, pos + end[i - 1], e[i])
    <3>1. e[i] \in Seq(Nat) /\ Len(e[i]) \in Nat /\ end[i] = Len(f[i]) /\ i - 1 \in 0..n
      BY <1>1, <2>1, LenProperties
    <3>2. CASE i = 1
      <4>1. f[i] = e[i] /\ i - 1 = 0
        <5>1. f[i] = e[i]
          BY <2>3, <3>2
        <5>2. i - 1 = 0
          BY <3>2
        <5> QED
          BY <5>1, <5>2
      <4>2. end[0] = 0
        BY <2>7
      <4> HIDE DEF end
      <4>3. end[i] = 0 + Len(e[i]) /\ pos + 0 = pos
        BY <3>1, <4>1
      <4> QED
        BY <2>6, <4>1, <4>2, <4>3
    <3>3. CASE i # 1
      <4>1. i - 1 \in 1..n /\ i - 1 # 0
        BY <3>3
      <4>2. f[i] = f[i - 1] \o e[i] /\ f[i - 1] \in Seq(Nat) /\ end[i - 1] = Len(f[i - 1])
        BY <2>3, <3>1, <3>3, <4>1
      <4>3. Len(f[i - 1] \o e[i]) = Len(f[i - 1]) + Len(e[i])
        BY <3>1, <4>2, ConcatProperties
      <4>4. Holds(x, pos, f[i - 1] \o e[i])
        BY <2>6, <4>2
      <4>5. Holds(x, pos + Len(f[i - 1]), e[i])
        BY <3>1, <4>2, <4>4, HoldsConcat
      <4> QED
        BY <3>1, <4>2, <4>3, <4>5
    <3> QED
      BY <3>2, <3>3
  <2>9. FlattenSeq(e) \in Seq(Nat)
    BY <2>1, <2>2
  <2> HIDE DEF end
  <2>10. Laid(x, pos, e, end)
    BY <2>1, <2>7, <2>8 DEF Laid
  <2> QED
    BY <2>9, <2>10
<1> QED
  BY <1>2, <1>3

(***************************************************************************)
(* The codec: the strings of a Twalk or of a stat                          *)
(***************************************************************************)
\* A length that is not cut.
LEMMA Length16Is ==
  ASSUME NEW n \in Nat
  PROVE  Length16(n) \in Nat /\ Length16(n) < LengthModulus /\ (n < LengthModulus => Length16(n) = n)
<1>1. LengthModulus \in Nat \ {0}
  BY CodecAssumption
<1>2. n % LengthModulus \in 0..(LengthModulus - 1)
  BY <1>1
<1>3. n < LengthModulus => n % LengthModulus = n
  <2> SUFFICES ASSUME n < LengthModulus PROVE n % LengthModulus = n
    OBVIOUS
  <2>1. n \in 0..(2 * LengthModulus - 1)
    BY <1>1
  <2> QED
    BY <1>1, <2>1, SmallMod
<1> QED
  BY <1>1, <1>2, <1>3 DEF Length16

\* What EncodeStrings puts together is a list of cells.
LEMMA StringsAre ==
  ASSUME NEW s, s \in Seq(Seq(Nat))
  PROVE  /\ EncodeStrings(s) = FlattenSeq([i \in 1..Len(s) |-> EncodeString(s[i])])
         /\ [i \in 1..Len(s) |-> EncodeString(s[i])] \in Seq(Seq(Nat))
         /\ EncodeStrings(s) \in Seq(Nat)
<1>1. Len(s) \in Nat /\ \A i \in 1..Len(s) : s[i] \in Seq(Nat)
  BY LenProperties, ElementOfSeq
<1>2. ASSUME NEW i \in 1..Len(s) PROVE EncodeString(s[i]) \in Seq(Nat)
  <2>1. s[i] \in Seq(Nat) /\ Len(s[i]) \in Nat
    BY <1>1, LenProperties
  <2>2. Length16(Len(s[i])) \in Nat
    BY <2>1, Length16Is
  <2>3. <<Length16(Len(s[i]))>> \in Seq(Nat)
    BY <2>2
  <2> QED
    BY <2>1, <2>3, ConcatProperties DEF EncodeString
<1>3. [i \in 1..Len(s) |-> EncodeString(s[i])] \in Seq(Seq(Nat))
  <2> DEFINE f == [i \in 1..Len(s) |-> EncodeString(s[i])]
  <2>1. f = [i \in 1..Len(s) |-> f[i]] /\ \A i \in 1..Len(s) : f[i] \in Seq(Nat)
    BY <1>2
  <2> HIDE DEF f
  <2>2. f \in Seq(Seq(Nat))
    <3>1. PICK n \in Nat : n = Len(s)
      BY <1>1
    <3>2. f \in [1..n -> Seq(Nat)]
      BY <2>1, <3>1
    <3> QED
      BY <3>2, SeqDef
  <2> QED
    BY <2>2 DEF f
<1>4. FlattenSeq([i \in 1..Len(s) |-> EncodeString(s[i])]) \in Seq(Nat)
  <2>1. << >> \in Seq(Nat)
    BY EmptySeq
  <2> QED
    BY <1>3, <2>1, FlattenAppend
<1> QED
  BY <1>3, <1>4 DEF EncodeStrings

\* f is what Strings has read after each of n strings.
StringsRead(f, n, c) == f = [i \in 0..n |-> IF i = 0 THEN c ELSE DecodeString(f[i - 1])]

\* Strings is defined by recursion; that there is such a function goes by induction.
LEMMA StringsExist ==
  ASSUME NEW n \in Nat, NEW c
  PROVE  \E f : StringsRead(f, n, c)
<1> DEFINE Good == {k \in 0..n : \E f : StringsRead(f, k, c)}
<1>1. 0 \in Good
  <2> DEFINE f == [i \in 0..0 |-> c]
  <2>1. StringsRead(f, 0, c)
    BY DEF StringsRead
  <2>2. \E h : StringsRead(h, 0, c)
    BY <2>1
  <2> QED
    BY <2>2
<1>2. ASSUME NEW k \in 1..n, k - 1 \in Good PROVE k \in Good
  <2>1. PICK f : StringsRead(f, k - 1, c)
    BY <1>2
  <2> DEFINE g == [i \in 0..k |-> IF i < k THEN f[i] ELSE DecodeString(f[k - 1])]
  <2>2. ASSUME NEW i \in 0..k PROVE g[i] = IF i = 0 THEN c ELSE DecodeString(g[i - 1])
    <3>1. CASE i < k
      <4>1. i \in 0..(k - 1) /\ (i # 0 => i - 1 \in 0..(k - 1) /\ i - 1 < k /\ i - 1 \in 0..k)
        BY <3>1
      <4>2. f[i] = IF i = 0 THEN c ELSE DecodeString(f[i - 1])
        BY <2>1, <4>1 DEF StringsRead
      <4> QED
        BY <3>1, <4>1, <4>2
    <3>2. CASE i = k
      <4>1. k # 0 /\ k - 1 \in 0..k /\ k - 1 < k /\ ~(k < k)
        OBVIOUS
      <4> QED
        BY <3>2, <4>1
    <3> QED
      BY <3>1, <3>2
  <2>3. StringsRead(g, k, c)
    BY <2>2 DEF StringsRead
  <2>4. \E h : StringsRead(h, k, c)
    BY <2>3
  <2> QED
    BY <2>4
<1> HIDE DEF Good
<1>3. 0..n \subseteq Good
  BY <1>1, <1>2, UpTo
<1> QED
  BY <1>3 DEF Good

\* What Strings reads step by step.
LEMMA StringsIs ==
  ASSUME NEW n \in Nat, NEW c
  PROVE  \E f : StringsRead(f, n, c) /\ Strings(n, c) = f[n]
<1> DEFINE f == CHOOSE f : StringsRead(f, n, c)
<1>1. StringsRead(f, n, c)
  BY StringsExist
<1>2. Strings(n, c) = f[n]
  BY DEF Strings, StringsRead
<1> QED
  BY <1>1, <1>2

\* Strings whose lengths are not cut are read as they are, or not all of them are.
LEMMA AllStringsRead ==
  ASSUME NEW x \in Seq(Nat), NEW lim \in 0..Len(x), NEW pos \in Nat, NEW c, Stands(c, x, pos, lim), c.got = << >>,
         NEW s \in Seq(Seq(Nat)), \A i \in 1..Len(s) : Len(s[i]) < LengthModulus,
         Holds(x, pos, EncodeStrings(s)), Strings(Len(s), c).ok
  PROVE  /\ Stands(Strings(Len(s), c), x, pos + Len(EncodeStrings(s)), lim)
         /\ Strings(Len(s), c).got = s
<1> DEFINE e == [i \in 1..Len(s) |-> EncodeString(s[i])]
<1>1. PICK n \in Nat : n = Len(s)
  BY LenProperties
<1>2. \A i \in 1..n : s[i] \in Seq(Nat) /\ Len(s[i]) \in Nat
  BY <1>1, ElementOfSeq, LenProperties
<1>3. EncodeStrings(s) = FlattenSeq(e) /\ e \in Seq(Seq(Nat)) /\ Len(e) = n
  <2>1. EncodeStrings(s) = FlattenSeq(e) /\ e \in Seq(Seq(Nat))
    BY StringsAre
  <2>2. Len(e) = n
    BY <1>1
  <2> QED
    BY <2>1, <2>2
<1>4. \A i \in 1..n : e[i] = <<Len(s[i])>> \o s[i]
  BY <1>1, <1>2, Length16Is DEF EncodeString
<1> HIDE DEF e
<1>5. PICK end \in [0..n -> Nat] :
        /\ end[0] = 0 /\ end[n] = Len(EncodeStrings(s))
        /\ \A i \in 1..n : end[i] = end[i - 1] + Len(e[i]) /\ Holds(x, pos + end[i - 1], e[i])
  <2>1. Holds(x, pos, FlattenSeq(e))
    BY <1>3
  <2>2. e \in Seq(Seq(Nat))
    BY <1>3
  <2>3. PICK d : Laid(x, pos, e, d)
    BY <2>1, <2>2, FlattenHolds
  <2> QED
    BY <1>3, <2>3 DEF Laid
<1>6. PICK f : StringsRead(f, n, c) /\ Strings(n, c) = f[n]
  BY StringsIs
<1> DEFINE Right(i) == /\ Stands(f[i], x, pos + end[i], lim)
                       /\ Len(f[i].got) = i /\ \A j \in 1..i : f[i].got[j] = s[j]
           Good == {i \in 0..n : f[i].ok => Right(i)}
<1>7. 0 \in Good
  <2>1. f[0] = c
    BY <1>6 DEF StringsRead
  <2>2. pos + end[0] = pos /\ Len(c.got) = 0
    BY <1>5, EmptySeq
  <2>3. Right(0)
    BY <2>1, <2>2
  <2> HIDE DEF Right
  <2> QED
    BY <2>3
<1>8. ASSUME NEW i \in 1..n, i - 1 \in Good PROVE i \in Good
  <2> SUFFICES ASSUME f[i].ok PROVE Right(i)
    BY <1>8
  <2>1. f[i] = DecodeString(f[i - 1])
    BY <1>6 DEF StringsRead
  <2>2. f[i - 1].ok /\ f[i] = DecodeCounted(f[i - 1])
    BY <2>1 DEF DecodeString, Short
  <2> DEFINE d == f[i - 1]
  <2>3. PICK at \in Nat : at = pos + end[i - 1]
    <3>1. i - 1 \in 0..n
      OBVIOUS
    <3>2. end[i - 1] \in Nat
      BY <3>1
    <3> QED
      BY <3>2
  <2>4. Stands(d, x, at, lim) /\ Len(d.got) = i - 1 /\ \A j \in 1..(i - 1) : d.got[j] = s[j]
    BY <1>8, <2>2, <2>3
  <2>5. Holds(x, at, <<Len(s[i])>> \o s[i]) /\ s[i] \in Seq(Nat) /\ DecodeCounted(d).ok
    BY <1>2, <1>4, <1>5, <2>2, <2>3
  <2>6. /\ Stands(DecodeCounted(d), x, at + Len(<<Len(s[i])>> \o s[i]), lim)
        /\ DecodeCounted(d).got = Append(d.got, s[i])
    <3> DEFINE v == s[i]
    <3>1. Stands(d, x, at, lim) /\ Holds(x, at, <<Len(v)>> \o v) /\ v \in Seq(Nat) /\ DecodeCounted(d).ok
      BY <2>4, <2>5
    <3> HIDE DEF d, v
    <3>2. /\ Stands(DecodeCounted(d), x, at + Len(<<Len(v)>> \o v), lim)
          /\ DecodeCounted(d).got = Append(d.got, v)
      BY <3>1, ListRead
    <3> QED
      BY <3>2 DEF v
  <2>7. at + Len(<<Len(s[i])>> \o s[i]) = pos + end[i]
    <3>1. end[i] = end[i - 1] + Len(<<Len(s[i])>> \o s[i]) /\ end[i] \in Nat /\ end[i - 1] \in Nat
      <4>1. i \in 0..n /\ i - 1 \in 0..n
        OBVIOUS
      <4>2. end[i] \in Nat /\ end[i - 1] \in Nat
        BY <4>1
      <4> QED
        BY <1>4, <1>5, <4>2
    <3>2. PICK k \in Nat : k = Len(<<Len(s[i])>> \o s[i])
      <4>1. \A a, b \in Seq(Nat) : Len(a \o b) = Len(a) + Len(b)
        BY ConcatProperties
      <4>2. <<Len(s[i])>> \in Seq(Nat) /\ s[i] \in Seq(Nat) /\ Len(<<Len(s[i])>>) = 1 /\ Len(s[i]) \in Nat
        BY <1>2
      <4> QED
        BY <4>1, <4>2
    <3>3. PICK m \in Nat, l \in Nat : m = end[i] /\ l = end[i - 1]
      BY <3>1
    <3>4. m = l + k /\ at = pos + l
      BY <2>3, <3>1, <3>2, <3>3
    <3>5. at + k = pos + m
      BY <3>4
    <3> QED
      BY <3>2, <3>3, <3>5
  <2>8. Len(Append(d.got, s[i])) = i /\ \A j \in 1..i : Append(d.got, s[i])[j] = s[j]
    <3>1. /\ Len(Append(d.got, s[i])) = Len(d.got) + 1 /\ Append(d.got, s[i])[Len(d.got) + 1] = s[i]
          /\ \A j \in 1..Len(d.got) : Append(d.got, s[i])[j] = d.got[j]
      <4> HIDE DEF d
      <4>1. IsSeq(d.got)
        BY <2>4 DEF Stands
      <4> QED
        BY <4>1, AppendAny
    <3>2. (i - 1) + 1 = i /\ \A j \in 1..i : j \in 1..(i - 1) \/ j = i
      OBVIOUS
    <3> QED
      BY <2>4, <3>1, <3>2
  <2> QED
    BY <2>2, <2>3, <2>6, <2>7, <2>8
<1>9. f[n].ok => Right(n)
  <2> HIDE DEF Right
  <2>1. 0..n \subseteq Good
    <3> HIDE DEF Good
    <3> QED
      BY <1>7, <1>8, UpTo
  <2> QED
    BY <2>1
<1>10. Right(n)
  BY <1>1, <1>6, <1>9
<1>11. f[n].got = s
  <2>1. f[n].got = [i \in 1..n |-> f[n].got[i]]
    <3>1. f[n].got \in Seq({f[n].got[i] : i \in 1..Len(f[n].got)}) /\ Len(f[n].got) = n
      BY <1>10 DEF Stands, IsSeq
    <3> QED
      BY <3>1, LenProperties
  <2>2. s = [i \in 1..n |-> s[i]]
    BY <1>1, LenProperties
  <2> QED
    BY <1>10, <2>1, <2>2
<1> QED
  BY <1>1, <1>5, <1>6, <1>10, <1>11

(***************************************************************************)
(* The codec: the fields                                                   *)
(***************************************************************************)
\* The kinds of fields.
Kinds == {"number", "string", "names", "qids", "stat", "data"}

\* The parts of a stat, and how long it is in a body.
LEMMA StatIs ==
  ASSUME NEW v, IsValue("stat", v)
  PROVE  /\ v = [fixed |-> v.fixed, strings |-> v.strings] /\ v.fixed \in Nat
         /\ v.strings \in Seq(Seq(Nat)) /\ Len(v.strings) = 4
         /\ StatBuf(v) = <<v.fixed>> \o EncodeStrings(v.strings) /\ StatBuf(v) \in Seq(Nat)
         /\ Len(StatBuf(v)) = 1 + Len(EncodeStrings(v.strings)) /\ Len(EncodeStrings(v.strings)) \in Nat
<1>1. v \in Stat /\ Len(v.strings) = 4
  BY DEF IsValue
<1>2. v = [fixed |-> v.fixed, strings |-> v.strings] /\ v.fixed \in Nat /\ v.strings \in Seq(Seq(Nat))
  BY <1>1 DEF Stat
<1>3. EncodeStrings(v.strings) \in Seq(Nat) /\ Len(EncodeStrings(v.strings)) \in Nat
  BY <1>2, StringsAre, LenProperties
<1>4. <<v.fixed>> \in Seq(Nat) /\ Len(<<v.fixed>>) = 1
  BY <1>2
<1>5. /\ <<v.fixed>> \o EncodeStrings(v.strings) \in Seq(Nat)
      /\ Len(<<v.fixed>> \o EncodeStrings(v.strings)) = 1 + Len(EncodeStrings(v.strings))
  <2>1. \A s, t \in Seq(Nat) : s \o t \in Seq(Nat) /\ Len(s \o t) = Len(s) + Len(t)
    BY ConcatProperties
  <2> QED
    BY <1>3, <1>4, <2>1
<1> QED
  BY <1>1, <1>2, <1>3, <1>5 DEF StatBuf

\* The encoding puts one cell before a list.
LEMMA Prefixed ==
  ASSUME NEW n \in Nat, NEW s \in Seq(Nat)
  PROVE  <<n>> \o s \in Seq(Nat) /\ Len(<<n>> \o s) = 1 + Len(s) /\ Len(s) \in Nat
<1>1. \A a, b \in Seq(Nat) : a \o b \in Seq(Nat) /\ Len(a \o b) = Len(a) + Len(b)
  BY ConcatProperties
<1>2. <<n>> \in Seq(Nat) /\ Len(<<n>>) = 1
  OBVIOUS
<1> QED
  BY <1>1, <1>2, LenProperties

\* The cell before a list, and the list behind it.
LEMMA PrefixHolds ==
  ASSUME NEW x \in Seq(Nat), NEW pos \in Nat, NEW n \in Nat, NEW s \in Seq(Nat), Holds(x, pos, <<n>> \o s)
  PROVE  x[pos + 1] = n /\ Holds(x, pos + 1, s)
<1> DEFINE a == <<n>>
<1>1. a \in Seq(Nat) /\ Len(a) = 1 /\ a[1] = n
  OBVIOUS
<1>2. Holds(x, pos, a \o s)
  OBVIOUS
<1> HIDE DEF a
<1>3. Holds(x, pos, a) /\ Holds(x, pos + Len(a), s)
  BY <1>1, <1>2, HoldsConcat
<1>4. 1 \in 1..Len(a)
  BY <1>1
<1> QED
  BY <1>1, <1>3, <1>4 DEF Holds

\* What is encoded of a value is a list of cells.
LEMMA FieldIsSeq ==
  ASSUME NEW kind \in Kinds, NEW v, IsValue(kind, v)
  PROVE  EncodeField(kind, v) \in Seq(Nat)
<1>1. CASE kind = "number"
  BY <1>1 DEF EncodeField, IsValue
<1>2. CASE kind \in {"string", "qids", "data"}
  <2>1. v \in Seq(Nat) /\ Len(v) \in Nat
    BY <1>2, LenProperties DEF IsValue
  <2>2. EncodeField(kind, v) \in {<<Length16(Len(v))>> \o v, <<Len(v)>> \o v}
    BY <1>2 DEF EncodeField, EncodeString
  <2>3. Length16(Len(v)) \in Nat
    BY <2>1, Length16Is
  <2>4. \A n \in Nat : <<n>> \o v \in Seq(Nat)
    BY <2>1, Prefixed
  <2> QED
    BY <2>1, <2>2, <2>3, <2>4
<1>3. CASE kind = "names"
  <2>1. v \in Seq(Seq(Nat)) /\ EncodeField(kind, v) = <<Length16(Len(v))>> \o EncodeStrings(v)
    BY <1>3 DEF IsValue, EncodeField
  <2>2. Len(v) \in Nat /\ EncodeStrings(v) \in Seq(Nat)
    BY <2>1, StringsAre, LenProperties
  <2> QED
    BY <2>1, <2>2, Length16Is, Prefixed
<1>4. CASE kind = "stat"
  <2>1. StatBuf(v) \in Seq(Nat) /\ Len(StatBuf(v)) \in Nat
    BY <1>4, StatIs, LenProperties
  <2>2. EncodeField(kind, v) = <<Length16(Len(StatBuf(v)))>> \o StatBuf(v)
    BY <1>4 DEF EncodeField, EncodeStat
  <2> QED
    BY <2>1, <2>2, Length16Is, Prefixed
<1> QED
  BY <1>1, <1>2, <1>3, <1>4 DEF Kinds

\* The names of a Twalk are read as they are, or not all of them are.
LEMMA NamesRead ==
  ASSUME NEW x \in Seq(Nat), NEW lim \in 0..Len(x), NEW pos \in Nat, NEW c, Stands(c, x, pos, lim),
         NEW v \in Seq(Seq(Nat)), \A i \in 1..Len(v) : Len(v[i]) < LengthModulus,
         Holds(x, pos, <<Len(v)>> \o EncodeStrings(v)), DecodeNames(c).ok
  PROVE  /\ Stands(DecodeNames(c), x, pos + Len(<<Len(v)>> \o EncodeStrings(v)), lim)
         /\ DecodeNames(c).got = Append(c.got, v)
<1>1. Len(x) \in Nat /\ pos <= lim /\ lim \in Nat /\ lim <= Len(x) /\ c.rest = SubSeq(x, pos + 1, lim)
  BY LenProperties DEF Stands
<1>2. PICK e \in Seq(Nat), n \in Nat : e = EncodeStrings(v) /\ n = Len(v)
  BY StringsAre, LenProperties
<1>3. Len(<<n>> \o e) = 1 + Len(e) /\ Len(e) \in Nat /\ x[pos + 1] = n /\ Holds(x, pos + 1, e)
  <2>1. Holds(x, pos, <<n>> \o e)
    BY <1>2
  <2> QED
    BY <2>1, Prefixed, PrefixHolds
<1> DEFINE names == Strings(Head(c.rest), Cursor(Tail(c.rest)))
<1>4. c.rest # << >> /\ names.ok /\ DecodeNames(c) = [names EXCEPT !.got = Append(c.got, names.got)]
  BY DEF DecodeNames, Short
<1>5. pos # lim /\ Head(c.rest) = n
  <2>1. Before(c, x, pos, lim)
    BY RestIs
  <2> QED
    BY <1>1, <1>3, <1>4, <2>1 DEF Before
<1>6. PICK d : d = Cursor(Tail(c.rest))
  OBVIOUS
<1>7. d.got = << >> /\ Stands(d, x, pos + 1, lim)
  <2>1. pos + 1 \in 1..Len(x) /\ lim \in (pos + 1)..Len(x)
    BY <1>1, <1>5
  <2>2. Tail(SubSeq(x, pos + 1, lim)) = SubSeq(x, (pos + 1) + 1, lim)
    BY <2>1, HeadTailOfSubSeq
  <2>3. d = [ok |-> TRUE, got |-> << >>, rest |-> SubSeq(x, (pos + 1) + 1, lim)]
    BY <1>1, <1>6, <2>2 DEF Cursor
  <2>4. IsSeq(<< >>)
    BY EmptyAny
  <2> QED
    BY <2>1, <2>3, <2>4 DEF Stands
<1>8. Stands(names, x, (pos + 1) + Len(e), lim) /\ names.got = v
  <2>1. PICK k \in Nat : k = pos + 1
    OBVIOUS
  <2>2. Stands(d, x, k, lim) /\ Holds(x, k, EncodeStrings(v)) /\ Strings(Len(v), d).ok
    BY <1>2, <1>3, <1>4, <1>5, <1>6, <1>7, <2>1
  <2>3. /\ Stands(Strings(Len(v), d), x, k + Len(EncodeStrings(v)), lim)
        /\ Strings(Len(v), d).got = v
    BY <1>7, <2>2, AllStringsRead
  <2> QED
    BY <1>2, <1>5, <1>6, <2>1, <2>3
<1>9. IsSeq(Append(c.got, v))
  BY AppendAny DEF Stands
<1> HIDE DEF names
<1>10. /\ Stands([names EXCEPT !.got = Append(c.got, names.got)], x, (pos + 1) + Len(e), lim)
       /\ [names EXCEPT !.got = Append(c.got, names.got)].got = Append(c.got, v)
  BY <1>8, <1>9 DEF Stands
<1>11. (pos + 1) + Len(e) = pos + Len(<<Len(v)>> \o EncodeStrings(v))
  BY <1>2, <1>3
<1> QED
  BY <1>4, <1>10, <1>11

\* A length that is cut is not longer.
LEMMA CutIsShorter ==
  ASSUME NEW n \in Nat
  PROVE  Length16(n) <= n
<1>1. LengthModulus \in Nat \ {0}
  BY CodecAssumption
<1>2. n < LengthModulus => Length16(n) = n
  BY Length16Is
<1>3. Length16(n) \in Nat /\ Length16(n) < LengthModulus
  BY Length16Is
<1> QED
  BY <1>1, <1>2, <1>3

\* Whoever has read all the strings had a cursor that was all right.
LEMMA FourStringsRead ==
  ASSUME NEW c, Strings(4, c).ok
  PROVE  c.ok
<1>1. PICK f : StringsRead(f, 4, c) /\ Strings(4, c) = f[4]
  BY StringsIs
<1>2. f[0] = c /\ \A i \in 1..4 : f[i] = DecodeString(f[i - 1])
  BY <1>1 DEF StringsRead
<1>3. ASSUME NEW i \in 1..4, f[i].ok PROVE f[i - 1].ok
  BY <1>2, <1>3 DEF DecodeString, Short
<1> QED
  BY <1>1, <1>2, <1>3

\* A stat whose strings are counted right is read as it is, unless its own length is cut:
\* then its strings do not end where the length says, and it is refused.
LEMMA StatRead ==
  ASSUME NEW x \in Seq(Nat), NEW lim \in 0..Len(x), NEW pos \in Nat, NEW c, Stands(c, x, pos, lim),
         NEW v, IsValue("stat", v), Counted("stat", v),
         Holds(x, pos, EncodeStat(v)), DecodeStat(c).ok
  PROVE  /\ Stands(DecodeStat(c), x, pos + Len(EncodeStat(v)), lim)
         /\ DecodeStat(c).got = Append(c.got, v)
         /\ ~(Len(StatBuf(v)) >= LengthModulus)
<1>1. PICK buf \in Seq(Nat), e \in Seq(Nat), k \in Nat, l \in Nat :
        buf = StatBuf(v) /\ e = EncodeStrings(v.strings) /\ k = Len(buf) /\ l = Length16(k)
  BY StatIs, StringsAre, LenProperties, Length16Is
<1>2. /\ v = [fixed |-> v.fixed, strings |-> v.strings] /\ v.fixed \in Nat
      /\ v.strings \in Seq(Seq(Nat)) /\ Len(v.strings) = 4
      /\ buf = <<v.fixed>> \o e /\ k = 1 + Len(e) /\ Len(e) \in Nat
  BY <1>1, StatIs
<1>3. l <= k /\ (l = k => k < LengthModulus) /\ EncodeStat(v) = <<l>> \o buf
  <2>1. l <= k /\ l < LengthModulus
    BY <1>1, CutIsShorter, Length16Is
  <2> QED
    BY <1>1, <2>1 DEF EncodeStat
<1>4. Len(<<l>> \o buf) = 1 + k /\ x[pos + 1] = l /\ Holds(x, pos + 1, buf)
  <2>1. Holds(x, pos, <<l>> \o buf)
    BY <1>3
  <2> QED
    BY <1>1, <2>1, Prefixed, PrefixHolds
<1>5. PICK outer, fixed, start, inner :
        /\ outer = DecodeCounted(c) /\ fixed = DecodeNumber(Cursor(Last(outer.got)))
        /\ start = [fixed EXCEPT !.got = << >>] /\ inner = Strings(4, start)
  OBVIOUS
<1>6. /\ outer.ok /\ inner.ok
      /\ DecodeStat(c) = [outer EXCEPT !.got = Append(c.got, [fixed |-> Head(fixed.got), strings |-> inner.got])]
  BY <1>5 DEF DecodeStat, Short
<1>7. /\ Stands(outer, x, pos + 1 + l, lim) /\ outer.got = Append(c.got, SubSeq(x, pos + 2, pos + 1 + l))
      /\ pos + 1 + l <= lim
  <2>1. DecodeCounted(c).ok
    BY <1>5, <1>6
  <2>2. pos < lim => x[pos + 1] = l
    BY <1>4
  <2>3. /\ Stands(DecodeCounted(c), x, pos + 1 + l, lim)
        /\ DecodeCounted(c).got = Append(c.got, SubSeq(x, pos + 2, pos + 1 + l))
        /\ pos + 1 + l <= lim
    BY <2>1, <2>2, CountedRead
  <2> QED
    BY <1>5, <2>3
<1>8. Last(outer.got) = SubSeq(buf, 1, l)
  <2>1. IsSeq(c.got)
    BY DEF Stands
  <2>2. Last(outer.got) = SubSeq(x, pos + 2, pos + 1 + l)
    <3> DEFINE y == SubSeq(x, pos + 2, pos + 1 + l)
    <3>1. outer.got = Append(c.got, y)
      BY <1>7
    <3> HIDE DEF y
    <3>2. Len(Append(c.got, y)) = Len(c.got) + 1 /\ Append(c.got, y)[Len(c.got) + 1] = y
      BY <2>1, AppendAny
    <3>3. Last(outer.got) = y
      BY <3>1, <3>2 DEF Last
    <3> QED
      BY <3>3 DEF y
  <2>3. SubSeq(x, pos + 2, pos + 1 + l) = SubSeq(buf, 1, l)
    <3> DEFINE a == SubSeq(x, pos + 2, pos + 1 + l)
               b == SubSeq(buf, 1, l)
    <3>0. Len(x) \in Nat /\ lim <= Len(x)
      BY LenProperties
    <3>1. /\ ((pos + 1 + l) - (pos + 2)) + 1 = l /\ (l - 1) + 1 = l
          /\ (1 <= l <=> l # 0) /\ (pos + 2 <= pos + 1 + l <=> l # 0)
          /\ pos + 2 \in Int /\ pos + 1 + l \in Int
      OBVIOUS
    <3>2. \A i \in (pos + 2)..(pos + 1 + l) : x[i] \in Nat
      <4>1. \A i \in (pos + 2)..(pos + 1 + l) : i \in 1..Len(x)
        BY <1>7, <3>0
      <4> QED
        BY <4>1, ElementOfSeq
    <3>3. \A i \in 1..l : buf[i] \in Nat
      BY <1>1, <1>3, ElementOfSeq
    <3>4. a \in Seq(Nat) /\ Len(a) = l /\ \A i \in 1..l : a[i] = x[((pos + 2) + i) - 1]
      BY <3>1, <3>2, SubSeqProperties
    <3>5. b \in Seq(Nat) /\ Len(b) = l /\ \A i \in 1..l : b[i] = buf[(1 + i) - 1]
      <4>1. /\ SubSeq(buf, 1, l) \in Seq(Nat)
            /\ Len(SubSeq(buf, 1, l)) = IF 1 <= l THEN (l - 1) + 1 ELSE 0
            /\ \A i \in 1..((l - 1) + 1) : SubSeq(buf, 1, l)[i] = buf[(1 + i) - 1]
        BY <3>3, SubSeqProperties
      <4> QED
        BY <3>1, <4>1
    <3>6. ASSUME NEW i \in 1..l PROVE a[i] = b[i]
      <4>1. ((pos + 2) + i) - 1 = (pos + 1) + i /\ (1 + i) - 1 = i /\ i \in 1..k
        BY <1>3
      <4>2. x[(pos + 1) + i] = buf[i]
        BY <1>1, <1>4, <4>1 DEF Holds
      <4> QED
        BY <3>4, <3>5, <4>1, <4>2
    <3> HIDE DEF a, b
    <3>7. a = b
      BY <3>4, <3>5, <3>6, SeqEqual
    <3> QED
      BY <3>7 DEF a, b
  <2> QED
    BY <2>2, <2>3
<1>9. PICK d : d = Cursor(Last(outer.got))
  OBVIOUS
<1>10. d.got = << >> /\ Stands(d, buf, 0, l) /\ l \in 0..Len(buf)
  <2>1. d = [ok |-> TRUE, got |-> << >>, rest |-> SubSeq(buf, 0 + 1, l)]
    BY <1>8, <1>9 DEF Cursor
  <2> QED
    BY <1>1, <1>3, <2>1, EmptyAny DEF Stands
<1>11. start.ok /\ start = [fixed EXCEPT !.got = << >>] /\ fixed = DecodeNumber(d)
  BY <1>5, <1>6, <1>9, FourStringsRead
<1>12. fixed.ok
  <2> SUFFICES ASSUME ~fixed.ok PROVE FALSE
    OBVIOUS
  <2>1. fixed \in {Short, Take(d, Head(d.rest), 1)}
    BY <1>11 DEF DecodeNumber
  <2>2. DOMAIN fixed = {"ok", "got", "rest"}
    BY <2>1 DEF Short, Take
  <2> QED
    BY <1>11, <2>2
<1>13. Stands(fixed, buf, 1, l) /\ fixed.got = Append(<< >>, v.fixed)
  <2>1. Holds(buf, 0, <<v.fixed>> \o e)
    BY <1>1, <1>2 DEF Holds
  <2>2. buf[0 + 1] = v.fixed
    BY <1>2, <2>1, PrefixHolds
  <2>3. DecodeNumber(d).ok
    BY <1>11, <1>12
  <2>4. Stands(DecodeNumber(d), buf, 0 + 1, l) /\ DecodeNumber(d).got = Append(d.got, buf[0 + 1])
    <3>1. PICK z \in Nat : z = 0
      OBVIOUS
    <3>2. Stands(d, buf, z, l) /\ l \in 0..Len(buf)
      BY <1>10, <3>1
    <3>3. Stands(DecodeNumber(d), buf, z + 1, l) /\ DecodeNumber(d).got = Append(d.got, buf[z + 1])
      BY <2>3, <3>2, NumberRead
    <3> QED
      BY <3>1, <3>3
  <2> QED
    BY <1>10, <1>11, <2>2, <2>4
<1>14. Stands(start, buf, 1, l) /\ start.got = << >>
  <2>1. IsSeq(<< >>)
    BY EmptyAny
  <2> QED
    BY <1>11, <1>13, <2>1 DEF Stands
<1>15. Holds(buf, 1, EncodeStrings(v.strings))
  <2>1. Holds(buf, 0, <<v.fixed>> \o e)
    BY <1>1, <1>2 DEF Holds
  <2>2. Holds(buf, 0 + 1, e)
    BY <1>2, <2>1, PrefixHolds
  <2> QED
    BY <1>1, <2>2
<1>16. Stands(inner, buf, 1 + Len(e), l) /\ inner.got = v.strings
  <2>1. \A i \in 1..Len(v.strings) : Len(v.strings[i]) < LengthModulus
    BY DEF Counted
  <2>2. Strings(Len(v.strings), start).ok
    BY <1>2, <1>5, <1>6
  <2>3. /\ Stands(Strings(Len(v.strings), start), buf, 1 + Len(EncodeStrings(v.strings)), l)
        /\ Strings(Len(v.strings), start).got = v.strings
    <3>1. PICK z \in Nat, s \in Seq(Seq(Nat)) : z = 1 /\ s = v.strings
      BY <1>2
    <3>2. /\ Stands(start, buf, z, l) /\ l \in 0..Len(buf) /\ Holds(buf, z, EncodeStrings(s))
          /\ Strings(Len(s), start).ok /\ \A i \in 1..Len(s) : Len(s[i]) < LengthModulus
      BY <1>10, <1>14, <1>15, <2>1, <2>2, <3>1
    <3>3. /\ Stands(Strings(Len(s), start), buf, z + Len(EncodeStrings(s)), l)
          /\ Strings(Len(s), start).got = s
      BY <1>14, <3>2, AllStringsRead
    <3> QED
      BY <3>1, <3>3
  <2> QED
    BY <1>1, <1>2, <1>5, <2>3
<1>17. l = k /\ ~(k >= LengthModulus)
  <2>1. 1 + Len(e) <= l
    BY <1>16 DEF Stands
  <2> QED
    BY <1>2, <1>3, <2>1, CodecAssumption
<1>18. DecodeStat(c) = [outer EXCEPT !.got = Append(c.got, v)]
  <2>1. Head(fixed.got) = v.fixed
    BY <1>13
  <2> QED
    BY <1>2, <1>6, <1>16, <2>1
<1>19. pos + Len(EncodeStat(v)) = pos + 1 + l
  BY <1>3, <1>4, <1>17
<1>20. IsSeq(Append(c.got, v))
  BY AppendAny DEF Stands
<1>21. /\ Stands([outer EXCEPT !.got = Append(c.got, v)], x, pos + 1 + l, lim)
       /\ [outer EXCEPT !.got = Append(c.got, v)].got = Append(c.got, v)
  BY <1>7, <1>20 DEF Stands
<1> QED
  BY <1>1, <1>17, <1>18, <1>19, <1>21

\* Of a field that is counted right, a decoder reads what was encoded, or nothing.
LEMMA FieldRead ==
  ASSUME NEW x \in Seq(Nat), NEW lim \in 0..Len(x), NEW pos \in Nat, NEW c, Stands(c, x, pos, lim),
         NEW kind \in Kinds, NEW v, IsValue(kind, v), Counted(kind, v),
         Holds(x, pos, EncodeField(kind, v)), DecodeField(c, kind).ok
  PROVE  /\ Stands(DecodeField(c, kind), x, pos + Len(EncodeField(kind, v)), lim)
         /\ DecodeField(c, kind).got = Append(c.got, v)
         /\ kind = "stat" => ~(Len(StatBuf(v)) >= LengthModulus)
<1>1. c.ok
  BY DEF Stands
<1>2. CASE kind = "number"
  <2>1. v \in Nat /\ EncodeField(kind, v) = <<v>> /\ Len(<<v>>) = 1 /\ <<v>>[1] = v
    BY <1>2 DEF IsValue, EncodeField
  <2>2. DecodeField(c, kind) = DecodeNumber(c)
    BY <1>1, <1>2 DEF DecodeField
  <2>3. x[pos + 1] = v
    <3>1. 1 \in 1..Len(<<v>>)
      BY <2>1
    <3> QED
      BY <2>1, <3>1 DEF Holds
  <2>4. Stands(DecodeNumber(c), x, pos + 1, lim) /\ DecodeNumber(c).got = Append(c.got, x[pos + 1])
    BY <2>2, NumberRead
  <2> QED
    BY <1>2, <2>1, <2>2, <2>3, <2>4
<1>3. CASE kind \in {"string", "qids", "data"}
  <2>1. v \in Seq(Nat) /\ Len(v) \in Nat /\ (kind # "data" => Len(v) < LengthModulus)
    BY <1>3, LenProperties DEF IsValue, Counted
  <2>2. EncodeField(kind, v) = <<Len(v)>> \o v
    <3>1. CASE kind = "data"
      BY <3>1 DEF EncodeField
    <3>2. CASE kind # "data"
      <4>1. Length16(Len(v)) = Len(v)
        BY <2>1, <3>2, Length16Is
      <4>2. EncodeField(kind, v) = <<Length16(Len(v))>> \o v
        BY <1>3, <3>2 DEF EncodeField, EncodeString
      <4> QED
        BY <4>1, <4>2
    <3> QED
      BY <3>1, <3>2
  <2>3. DecodeField(c, kind) = DecodeCounted(c)
    BY <1>1, <1>3 DEF DecodeField
  <2>4. Holds(x, pos, <<Len(v)>> \o v) /\ DecodeCounted(c).ok
    BY <2>2, <2>3
  <2>5. /\ Stands(DecodeCounted(c), x, pos + Len(<<Len(v)>> \o v), lim)
        /\ DecodeCounted(c).got = Append(c.got, v)
    BY <2>1, <2>4, ListRead
  <2> QED
    BY <1>3, <2>2, <2>3, <2>5
<1>4. CASE kind = "names"
  <2>1. v \in Seq(Seq(Nat)) /\ Len(v) < LengthModulus /\ \A i \in 1..Len(v) : Len(v[i]) < LengthModulus
    BY <1>4 DEF IsValue, Counted
  <2>2. EncodeField(kind, v) = <<Len(v)>> \o EncodeStrings(v)
    <3>1. Length16(Len(v)) = Len(v)
      BY <2>1, LenProperties, Length16Is
    <3> QED
      BY <1>4, <3>1 DEF EncodeField
  <2>3. DecodeField(c, kind) = DecodeNames(c)
    BY <1>1, <1>4 DEF DecodeField
  <2>4. Holds(x, pos, <<Len(v)>> \o EncodeStrings(v)) /\ DecodeNames(c).ok
    BY <2>2, <2>3
  <2>5. /\ Stands(DecodeNames(c), x, pos + Len(<<Len(v)>> \o EncodeStrings(v)), lim)
        /\ DecodeNames(c).got = Append(c.got, v)
    BY <2>1, <2>4, NamesRead
  <2> QED
    BY <1>4, <2>2, <2>3, <2>5
<1>5. CASE kind = "stat"
  <2>1. EncodeField(kind, v) = EncodeStat(v)
    BY <1>5 DEF EncodeField
  <2>2. DecodeField(c, kind) = DecodeStat(c)
    BY <1>1, <1>5 DEF DecodeField
  <2>3. Holds(x, pos, EncodeStat(v)) /\ DecodeStat(c).ok /\ IsValue("stat", v) /\ Counted("stat", v)
    BY <1>5, <2>1, <2>2
  <2>4. /\ Stands(DecodeStat(c), x, pos + Len(EncodeStat(v)), lim)
        /\ DecodeStat(c).got = Append(c.got, v)
        /\ ~(Len(StatBuf(v)) >= LengthModulus)
    BY <2>3, StatRead
  <2> QED
    BY <2>1, <2>2, <2>4
<1> QED
  BY <1>2, <1>3, <1>4, <1>5 DEF Kinds

(***************************************************************************)
(* The codec: whole bodies                                                 *)
(***************************************************************************)
\* f is what Decode has read after each of n fields.
FieldsRead(f, format, n, c) == f = [i \in 0..n |-> IF i = 0 THEN c ELSE DecodeField(f[i - 1], format[i])]

\* Decode is defined by recursion; that there is such a function goes by induction.
LEMMA FieldsExist ==
  ASSUME NEW n \in Nat, NEW format, NEW c
  PROVE  \E f : FieldsRead(f, format, n, c)
<1> DEFINE Good == {k \in 0..n : \E f : FieldsRead(f, format, k, c)}
<1>1. 0 \in Good
  <2> DEFINE f == [i \in 0..0 |-> c]
  <2>1. FieldsRead(f, format, 0, c)
    BY DEF FieldsRead
  <2>2. \E h : FieldsRead(h, format, 0, c)
    BY <2>1
  <2> QED
    BY <2>2
<1>2. ASSUME NEW k \in 1..n, k - 1 \in Good PROVE k \in Good
  <2>1. PICK f : FieldsRead(f, format, k - 1, c)
    BY <1>2
  <2> DEFINE g == [i \in 0..k |-> IF i < k THEN f[i] ELSE DecodeField(f[k - 1], format[k])]
  <2>2. ASSUME NEW i \in 0..k PROVE g[i] = IF i = 0 THEN c ELSE DecodeField(g[i - 1], format[i])
    <3>1. CASE i < k
      <4>1. i \in 0..(k - 1) /\ (i # 0 => i - 1 \in 0..(k - 1) /\ i - 1 < k /\ i - 1 \in 0..k)
        BY <3>1
      <4>2. f[i] = IF i = 0 THEN c ELSE DecodeField(f[i - 1], format[i])
        BY <2>1, <4>1 DEF FieldsRead
      <4> QED
        BY <3>1, <4>1, <4>2
    <3>2. CASE i = k
      <4>1. k # 0 /\ k - 1 \in 0..k /\ k - 1 < k /\ ~(k < k)
        OBVIOUS
      <4> QED
        BY <3>2, <4>1
    <3> QED
      BY <3>1, <3>2
  <2>3. FieldsRead(g, format, k, c)
    BY <2>2 DEF FieldsRead
  <2>4. \E h : FieldsRead(h, format, k, c)
    BY <2>3
  <2> QED
    BY <2>4
<1> HIDE DEF Good
<1>3. 0..n \subseteq Good
  BY <1>1, <1>2, UpTo
<1> QED
  BY <1>3 DEF Good

\* What Decode reads field by field.
LEMMA DecodeIs ==
  ASSUME NEW format, Len(format) \in Nat, NEW body
  PROVE  \E f : FieldsRead(f, format, Len(format), Cursor(body)) /\ Decode(format, body) = f[Len(format)]
<1> DEFINE f == CHOOSE f : FieldsRead(f, format, Len(format), Cursor(body))
<1>1. FieldsRead(f, format, Len(format), Cursor(body))
  BY FieldsExist
<1>2. Decode(format, body) = f[Len(format)]
  BY DEF Decode, FieldsRead
<1> QED
  BY <1>1, <1>2

\* What the other end reads of a body that is counted right, if it can read it at all.
LEMMA BodyRead ==
  ASSUME NEW format \in Seq(Kinds), NEW values, Fit(format, values), AllCounted(format, values),
         Read(format, values).ok
  PROVE  /\ Read(format, values).got = values
         /\ \A i \in 1..Len(format) : format[i] = "stat" => ~(Len(StatBuf(values[i])) >= LengthModulus)
<1> DEFINE e == [i \in 1..Len(format) |-> EncodeField(format[i], values[i])]
           x == Encode(format, values)
<1>1. PICK n \in Nat : n = Len(format)
  BY LenProperties
<1>2. \A i \in 1..n : format[i] \in Kinds /\ IsValue(format[i], values[i]) /\ Counted(format[i], values[i])
  BY <1>1, ElementOfSeq DEF Fit, AllCounted
<1>3. e \in Seq(Seq(Nat)) /\ Len(e) = n /\ x = FlattenSeq(e) /\ \A i \in 1..n : e[i] = EncodeField(format[i], values[i])
  <2>1. e = [i \in 1..n |-> e[i]] /\ \A i \in 1..n : e[i] \in Seq(Nat) /\ e[i] = EncodeField(format[i], values[i])
    BY <1>1, <1>2, FieldIsSeq
  <2>2. x = FlattenSeq(e)
    BY DEF Encode
  <2> HIDE DEF e, x
  <2>3. e \in Seq(Seq(Nat))
    <3>1. e \in [1..n -> Seq(Nat)]
      BY <2>1
    <3> QED
      BY <3>1, SeqDef
  <2>4. Len(e) = n
    BY <2>1
  <2> QED
    BY <2>1, <2>2, <2>3, <2>4
<1>4. x \in Seq(Nat) /\ Len(x) \in Nat
  <2>1. << >> \in Seq(Nat)
    BY EmptySeq
  <2> HIDE DEF e
  <2>2. FlattenSeq(e) \in Seq(Nat)
    BY <1>3, <2>1, FlattenAppend
  <2> QED
    BY <1>3, <2>2, LenProperties
<1>5. PICK f : FieldsRead(f, format, n, Cursor(x)) /\ Read(format, values) = f[n]
  BY <1>1, DecodeIs DEF Read
<1> HIDE DEF e, x
<1>6. PICK end \in [0..n -> Nat] :
        /\ end[0] = 0
        /\ \A i \in 1..n : end[i] = end[i - 1] + Len(e[i]) /\ Holds(x, end[i - 1], e[i])
  <2>1. Holds(x, 0, FlattenSeq(e))
    BY <1>3, <1>4 DEF Holds
  <2>2. PICK z \in Nat : z = 0
    OBVIOUS
  <2>6. Holds(x, z, FlattenSeq(e))
    BY <2>1, <2>2
  <2>3. PICK d : Laid(x, z, e, d)
    <3>1. e \in Seq(Seq(Nat)) /\ x \in Seq(Nat)
      BY <1>3, <1>4
    <3> QED
      BY <2>6, <3>1, FlattenHolds
  <2>4. /\ d \in [0..n -> Nat] /\ d[0] = 0
        /\ \A i \in 1..n : d[i] = d[i - 1] + Len(e[i]) /\ Holds(x, z + d[i - 1], e[i])
    BY <1>3, <2>3 DEF Laid
  <2>5. \A i \in 1..n : z + d[i - 1] = d[i - 1]
    <3>1. \A i \in 1..n : i - 1 \in 0..n
      OBVIOUS
    <3> QED
      BY <2>2, <2>4, <3>1
  <2> QED
    BY <2>4, <2>5
<1> DEFINE NotCut(i) == format[i] = "stat" => ~(Len(StatBuf(values[i])) >= LengthModulus)
           Right(i) == /\ Stands(f[i], x, end[i], Len(x)) /\ Len(f[i].got) = i
                       /\ \A j \in 1..i : f[i].got[j] = values[j] /\ NotCut(j)
           Good == {i \in 0..n : f[i].ok => Right(i)}
<1> HIDE DEF NotCut
<1>7. 0 \in Good
  <2>1. f[0] = Cursor(x)
    BY <1>5 DEF FieldsRead
  <2>2. SubSeq(x, 1, Len(x)) = x
    BY <1>4, SubSeqFull
  <2>3. Stands(Cursor(x), x, 0, Len(x)) /\ Len(Cursor(x).got) = 0
    BY <1>4, <2>2, EmptyAny DEF Stands, Cursor
  <2>4. Right(0)
    BY <1>6, <2>1, <2>3
  <2> HIDE DEF Right
  <2> QED
    BY <2>4
<1>8. ASSUME NEW i \in 1..n, i - 1 \in Good PROVE i \in Good
  <2> SUFFICES ASSUME f[i].ok PROVE Right(i)
    BY <1>8
  <2>1. PICK d, kind, v : d = f[i - 1] /\ kind = format[i] /\ v = values[i]
    OBVIOUS
  <2>2. f[i] = DecodeField(d, kind)
    BY <1>5, <2>1 DEF FieldsRead
  <2>3. d.ok /\ DecodeField(d, kind).ok
    <3>1. ASSUME ~d.ok PROVE DecodeField(d, kind) = Short
      BY <3>1 DEF DecodeField
    <3>2. ~Short.ok
      BY DEF Short
    <3> QED
      BY <2>2, <3>1, <3>2
  <2>4. Right(i - 1)
    BY <1>8, <2>1, <2>3
  <2>5. PICK at \in Nat : at = end[i - 1]
    <3>1. i - 1 \in 0..n
      OBVIOUS
    <3> QED
      BY <3>1
  <2>6. Stands(d, x, at, Len(x)) /\ Len(d.got) = i - 1 /\ \A j \in 1..(i - 1) : d.got[j] = values[j] /\ NotCut(j)
    BY <2>1, <2>4, <2>5
  <2>7. kind \in Kinds /\ IsValue(kind, v) /\ Counted(kind, v) /\ Holds(x, at, EncodeField(kind, v))
    BY <1>2, <1>3, <1>6, <2>1, <2>5
  <2>8. Len(x) \in 0..Len(x)
    BY <1>4
  <2>9. /\ Stands(DecodeField(d, kind), x, at + Len(EncodeField(kind, v)), Len(x))
        /\ DecodeField(d, kind).got = Append(d.got, v)
        /\ kind = "stat" => ~(Len(StatBuf(v)) >= LengthModulus)
    BY <1>4, <2>3, <2>6, <2>7, <2>8, FieldRead
  <2>10. at + Len(EncodeField(kind, v)) = end[i]
    BY <1>3, <1>6, <2>1, <2>5
  <2>11. Len(Append(d.got, v)) = i /\ \A j \in 1..i : Append(d.got, v)[j] = values[j] /\ NotCut(j)
    <3>0. IsSeq(d.got)
      BY <2>6 DEF Stands
    <3>1. /\ Len(Append(d.got, v)) = Len(d.got) + 1 /\ Append(d.got, v)[Len(d.got) + 1] = v
          /\ \A j \in 1..Len(d.got) : Append(d.got, v)[j] = d.got[j]
      BY <3>0, AppendAny
    <3>2. (i - 1) + 1 = i /\ \A j \in 1..i : j \in 1..(i - 1) \/ j = i
      OBVIOUS
    <3>3. NotCut(i)
      BY <2>1, <2>9 DEF NotCut
    <3> QED
      BY <2>1, <2>6, <3>1, <3>2, <3>3
  <2> QED
    BY <2>2, <2>9, <2>10, <2>11
<1>9. Right(n)
  <2> HIDE DEF Right
  <2>1. 0..n \subseteq Good
    <3> HIDE DEF Good
    <3> QED
      BY <1>7, <1>8, UpTo
  <2> QED
    BY <1>5, <2>1
<1>10. f[n].got = values
  <2>1. f[n].got = [i \in 1..n |-> f[n].got[i]]
    <3>1. f[n].got \in Seq({f[n].got[i] : i \in 1..Len(f[n].got)}) /\ Len(f[n].got) = n
      BY <1>9 DEF Stands, IsSeq
    <3> QED
      BY <3>1, LenProperties
  <2>2. values = [i \in 1..n |-> values[i]]
    BY <1>1 DEF Fit
  <2> QED
    BY <1>9, <2>1, <2>2
<1> QED
  BY <1>1, <1>5, <1>9, <1>10 DEF NotCut

\* What a message consists of are kinds of fields.
LEMMA FormatsAre ==
  /\ \A type \in DOMAIN RequestFormat : RequestFormat[type] \in Seq(Kinds)
  /\ \A type \in DOMAIN ReplyFormat : ReplyFormat[type] \in Seq(Kinds)
<1> DEFINE F == {<< >>, <<"number">>, <<"data">>, <<"qids">>, <<"stat">>, <<"number", "string">>, <<"number", "number">>,
                 <<"number", "stat">>, <<"number", "string", "string">>, <<"number", "number", "names">>,
                 <<"number", "number", "number">>, <<"number", "number", "data">>,
                 <<"number", "number", "string", "string">>, <<"number", "string", "number", "number">>}
<1>1. F \subseteq Seq(Kinds)
  <2>1. \A a, b, c, d \in Kinds :
          /\ << >> \in Seq(Kinds) /\ <<a>> \in Seq(Kinds) /\ <<a, b>> \in Seq(Kinds)
          /\ <<a, b, c>> \in Seq(Kinds) /\ <<a, b, c, d>> \in Seq(Kinds)
    OBVIOUS
  <2> QED
    BY <2>1 DEF Kinds
<1>2. \A type \in DOMAIN RequestFormat : RequestFormat[type] \in F
  BY DEF RequestFormat
<1>3. \A type \in DOMAIN ReplyFormat : ReplyFormat[type] \in F
  BY DEF ReplyFormat
<1> HIDE DEF F
<1> QED
  BY <1>1, <1>2, <1>3

\* What is asked and answered fits the formats.
LEMMA ValuesFit ==
  /\ \A req \in Requests :
       /\ req.type \in DOMAIN RequestFormat /\ RequestFormat[req.type] \in Seq(Kinds)
       /\ Fit(RequestFormat[req.type], req.values)
       /\ RequestRead[req] = Read(RequestFormat[req.type], req.values)
  /\ \A type \in DOMAIN Answers : \A values \in Answers[type] :
       /\ type \in DOMAIN ReplyFormat /\ ReplyFormat[type] \in Seq(Kinds)
       /\ Fit(ReplyFormat[type], values)
       /\ AnswerRead[type][values] = Read(ReplyFormat[type], values)
<1>1. \A req \in Requests : RequestRead[req] = Read(RequestFormat[req.type], req.values)
  BY DEF RequestRead
<1>2. \A type \in DOMAIN Answers : \A values \in Answers[type] : AnswerRead[type][values] = Read(ReplyFormat[type], values)
  BY DEF AnswerRead
<1> QED
  BY <1>1, <1>2, ClientAssumption, FormatsAre

\* Whatever is asked and answered: a body whose strings, names and qids are counted right is
\* read as what it was, or the other end cannot read it.  This is of EncodeString,
\* DecodeCounted and the others as they are, for all values and any width of a length.
THEOREM BodiesRoundTrip == RoundTrips
<1>1. ASSUME NEW req \in Requests, AllCounted(RequestFormat[req.type], req.values), RequestRead[req].ok
      PROVE  RequestRead[req].got = req.values
  <2>1. PICK format, values : format = RequestFormat[req.type] /\ values = req.values
    OBVIOUS
  <2>2. format \in Seq(Kinds) /\ Fit(format, values) /\ AllCounted(format, values) /\ RequestRead[req] = Read(format, values)
    BY <1>1, <2>1, ValuesFit
  <2>3. Read(format, values).ok
    BY <1>1, <2>2
  <2>4. Read(format, values).got = values
    BY <2>2, <2>3, BodyRead
  <2> QED
    BY <2>1, <2>2, <2>4
<1>2. ASSUME NEW type \in DOMAIN Answers, NEW values \in Answers[type],
             AllCounted(ReplyFormat[type], values), AnswerRead[type][values].ok
      PROVE  AnswerRead[type][values].got = values
  <2>1. PICK format : format = ReplyFormat[type]
    OBVIOUS
  <2>2. format \in Seq(Kinds) /\ Fit(format, values) /\ AllCounted(format, values) /\ AnswerRead[type][values] = Read(format, values)
    BY <1>2, <2>1, ValuesFit
  <2>3. Read(format, values).ok
    BY <1>2, <2>2
  <2>4. Read(format, values).got = values
    BY <2>2, <2>3, BodyRead
  <2> QED
    BY <2>2, <2>4
<1> QED
  BY <1>1, <1>2 DEF RoundTrips

(***************************************************************************)
(* The stream: what each variable holds, and the order of the replies      *)
(***************************************************************************)
Waiting == IF pc = "waiting" THEN 1 ELSE 0

\* the entry of a call in the history
EntryFields == {"req", "done", "out", "value"}

\* The tag of a frame is as far behind next_tag as its call is behind the next one.
Tagged(call, tag) ==
  /\ call \in 1..This /\ tag \in 0..(TagModulus - 1)
  /\ tag - (next_tag - 1 - (This - call)) \in {0, TagModulus}

Shapes ==
  /\ IsSeq(toServer) /\ IsSeq(toClient) /\ IsSeq(log)
  /\ \A n \in 1..This : DOMAIN log[n] = EntryFields

\* While the connection lives, the calls that are not served are those in the stream, the
\* last ones.
RequestsInOrder ==
  up => /\ \A i \in 1..Len(toServer) :
             Tagged(toServer[i].call, toServer[i].tag) /\ toServer[i].call = This - Len(toServer) + i
        /\ \A n \in 1..This : log[n].done = << >> <=> n > This - Len(toServer)

\* Replies are behind by no more than was sent twice, and leave out no call.
RepliesInOrder ==
  /\ \A i \in 1..Len(toClient) :
       Tagged(toClient[i].call, toClient[i].tag) /\ This - strays - Waiting + i <= toClient[i].call
  /\ \A i, j \in 1..Len(toClient) : i <= j => toClient[j].call <= toClient[i].call + (j - i)

\* After a reply with a wrong tag, the next one is always to an earlier call.
Behind ==
  (\E n \in 1..This : log[n].out = "mismatched")
    => strays > 0 /\ \A i \in 1..Len(toClient) : toClient[i].call < This - Waiting + i

IInv == TypeOK /\ Shapes /\ RequestsInOrder /\ RepliesInOrder /\ Behind /\ NeverBackInStep

\* What the invariant says of the numbers.
LEMMA Numbers ==
  ASSUME IInv
  PROVE  /\ TagModulus \in Nat \ {0} /\ MaxStrays \in Nat /\ MaxStrays < TagModulus
         /\ strays \in 0..MaxStrays /\ next_tag \in 0..(TagModulus - 1)
         /\ This \in Nat /\ Len(toServer) \in Nat /\ Len(toClient) \in Nat
         /\ Waiting \in {0, 1} /\ pc \in {"idle", "waiting"}
         /\ (up => Len(toServer) + Len(toClient) = strays + Waiting)
         /\ (Waiting = 1 <=> pc = "waiting")
         /\ (pc = "waiting" <=> This > 0 /\ log[This].out = "open")
<1>1. This \in Nat /\ Len(toServer) \in Nat /\ Len(toClient) \in Nat
  BY LenProperties DEF IInv, Shapes, IsSeq, This
<1>2. log # << >> <=> This > 0
  BY <1>1, EmptyAny, TailAny DEF IInv, Shapes, This
<1> QED
  BY <1>1, <1>2, ClientAssumption DEF IInv, TypeOK, Waiting

\* A frame is tagged like the call that waits exactly if it is that of this call.
LEMMA TagTells ==
  ASSUME IInv, NEW call, NEW tag, Tagged(call, tag), This - call < TagModulus
  PROVE  tag = MyTag <=> call = This
<1>0. /\ TagModulus \in Nat \ {0} /\ next_tag \in 0..(TagModulus - 1) /\ This \in Nat
      /\ This - call < TagModulus
  BY Numbers
<1> DEFINE sum == next_tag + TagModulus - 1
<1>1. sum \in 0..(2 * TagModulus - 1) /\ sum = next_tag + TagModulus - 1 /\ MyTag = sum % TagModulus
  BY <1>0 DEF MyTag
<1> HIDE DEF sum
<1>2. MyTag = IF sum < TagModulus THEN sum ELSE sum - TagModulus
  BY <1>0, <1>1, SmallMod
<1>3. MyTag = IF next_tag = 0 THEN TagModulus - 1 ELSE next_tag - 1
  BY <1>0, <1>1, <1>2
<1>4. /\ call \in 1..This /\ tag \in 0..(TagModulus - 1)
      /\ \/ tag = next_tag - 1 - (This - call)
         \/ tag = next_tag - 1 - (This - call) + TagModulus
  BY <1>0 DEF Tagged
<1> QED
  BY <1>0, <1>3, <1>4

\* A call has the next tag, and its entry is the last one.
LEMMA CallKeepsIInv ==
  ASSUME IInv, NEW req \in Requests, Call(req)
  PROVE  IInv'
<1>1. /\ TagModulus \in Nat \ {0} /\ next_tag \in 0..(TagModulus - 1)
      /\ This \in Nat /\ Len(toServer) \in Nat /\ Len(toClient) \in Nat
      /\ strays \in Nat /\ strays < TagModulus
  BY Numbers
<1>2. PICK call, tag : call = This + 1 /\ tag = next_tag
  OBVIOUS
<1>3. PICK frame : frame = [type |-> req.type, tag |-> next_tag, call |-> This + 1, read |-> RequestRead[req],
                         refusable |-> Refusable[req], clean |-> AllCounted(RequestFormat[req.type], req.values)]
  OBVIOUS
<1>4. PICK entry : entry = [req |-> req, done |-> << >>, out |-> "open", value |-> << >>]
  OBVIOUS
<1>5. /\ entry.req = req /\ entry.done = << >> /\ entry.out = "open" /\ DOMAIN entry = EntryFields
      /\ frame.tag = tag /\ frame.call = call
  BY <1>2, <1>3, <1>4 DEF EntryFields
<1>6. /\ pc = "idle" /\ pc' = "waiting" /\ UNCHANGED <<toClient, up, strays>>
      /\ next_tag' = NextTag(next_tag) /\ log' = Append(log, entry)
      /\ toServer' = IF up THEN Append(toServer, frame) ELSE toServer
  BY <1>3, <1>4 DEF Call
<1>7. Waiting' = 1 /\ Waiting = 0
  BY <1>6 DEF Waiting
<1>8. /\ IsSeq(log') /\ This' = This + 1 /\ log'[This'] = entry
      /\ \A n \in 1..This : log'[n] = log[n]
  BY <1>6, AppendAny DEF IInv, Shapes, This
<1>9. up => /\ IsSeq(toServer') /\ Len(toServer') = Len(toServer) + 1
            /\ toServer'[Len(toServer) + 1] = frame
            /\ \A i \in 1..Len(toServer) : toServer'[i] = toServer[i]
  BY <1>6, AppendAny DEF IInv, Shapes
<1>10. next_tag' = IF next_tag + 1 = TagModulus THEN 0 ELSE next_tag + 1
  <2>1. PICK sum : sum = next_tag + 1
    OBVIOUS
  <2>2. sum \in 0..(2 * TagModulus - 1) /\ next_tag' = sum % TagModulus
    BY <1>1, <1>6, <2>1 DEF NextTag
  <2>3. sum % TagModulus = IF sum < TagModulus THEN sum ELSE sum - TagModulus
    BY <1>1, <2>2, SmallMod
  <2> QED
    BY <1>1, <2>1, <2>2, <2>3
<1>11. ASSUME NEW c, NEW t, Tagged(c, t), This - c < TagModulus - 1
       PROVE  Tagged(c, t)'
  BY <1>1, <1>8, <1>10, <1>11 DEF Tagged
<1>12. Tagged(call, tag)'
  BY <1>1, <1>2, <1>8, <1>10 DEF Tagged
<1>13. RequestsInOrder'
  <2> SUFFICES ASSUME up PROVE RequestsInOrder'
    BY <1>6 DEF RequestsInOrder
  <2>1. Len(toServer) <= strays
    BY <1>1, <1>7, Numbers
  <2>6. Len(toServer') = Len(toServer) + 1
    BY <1>9
  <2>7. This' = This + 1 /\ This' - Len(toServer') = This - Len(toServer) /\ Len(toServer') \in Nat \ {0}
    BY <1>1, <1>8, <2>6
  <2>2. \A i \in 1..Len(toServer) :
          Tagged(toServer[i].call, toServer[i].tag)' /\ toServer'[i].call = This' - Len(toServer') + i
    <3> SUFFICES ASSUME NEW i \in 1..Len(toServer)
                 PROVE  Tagged(toServer[i].call, toServer[i].tag)' /\ toServer'[i].call = This' - Len(toServer') + i
      OBVIOUS
    <3>1. PICK c, t : c = toServer[i].call /\ t = toServer[i].tag
      OBVIOUS
    <3>2. toServer'[i].call = c /\ toServer'[i].tag = t
      BY <1>9, <3>1
    <3>3. Tagged(c, t) /\ c = This - Len(toServer) + i
      BY <3>1 DEF IInv, RequestsInOrder
    <3>4. c \in 1..This /\ c = This' - Len(toServer') + i
      BY <2>7, <3>3 DEF Tagged
    <3>5. This - c < TagModulus - 1
      BY <1>1, <2>1, <3>3, <3>4
    <3>6. Tagged(c, t)'
      BY <1>11, <3>3, <3>5
    <3> QED
      BY <3>2, <3>4, <3>6
  <2>3. Tagged(toServer[Len(toServer)].call, toServer[Len(toServer)].tag)'
    BY <1>1, <1>5, <1>9, <1>12
  <2>4. toServer'[Len(toServer')].call = This' - Len(toServer') + Len(toServer')
    BY <1>1, <1>2, <1>5, <1>8, <1>9
  <2>5. \A n \in 1..This' : log'[n].done = << >> <=> n > This' - Len(toServer')
    <3>1. \A n \in 1..This : log[n].done = << >> <=> n > This - Len(toServer)
      BY DEF IInv, RequestsInOrder
    <3>2. ASSUME NEW n \in 1..This' PROVE log'[n].done = << >> <=> n > This - Len(toServer)
      <4>1. CASE n = This'
        <5>1. log'[n].done = << >>
          BY <1>5, <1>8, <4>1
        <5>2. n > This - Len(toServer)
          BY <1>1, <2>7, <4>1
        <5> QED
          BY <5>1, <5>2
      <4>2. CASE n # This'
        <5>1. n \in 1..This
          BY <1>1, <2>7, <4>2
        <5> QED
          BY <1>8, <3>1, <5>1
      <4> QED
        BY <4>1, <4>2
    <3> QED
      BY <2>7, <3>2
  <2> QED
    BY <1>1, <1>9, <2>2, <2>3, <2>4, <2>5 DEF RequestsInOrder
<1>14. RepliesInOrder'
  <2>1. \A i, j \in 1..Len(toClient') : i <= j => toClient'[j].call <= toClient'[i].call + (j - i)
    BY <1>6 DEF IInv, RepliesInOrder
  <2>2. ASSUME NEW i \in 1..Len(toClient')
        PROVE  /\ Tagged(toClient[i].call, toClient[i].tag)'
               /\ This' - strays' - Waiting' + i <= toClient'[i].call
    <3>1. PICK c, t : c = toClient[i].call /\ t = toClient[i].tag
      OBVIOUS
    <3>2. toClient'[i].call = c /\ toClient'[i].tag = t /\ strays' = strays
      BY <1>6, <3>1
    <3>3. Tagged(c, t) /\ This - strays - Waiting + i <= c
      BY <1>6, <3>1 DEF IInv, RepliesInOrder
    <3>4. c \in 1..This /\ i \in Nat \ {0}
      BY <1>1, <1>6, <3>3 DEF Tagged
    <3>5. This - c < TagModulus - 1 /\ This' - strays - Waiting' + i <= c
      BY <1>1, <1>7, <1>8, <3>3, <3>4
    <3> QED
      BY <1>11, <3>2, <3>3, <3>5
  <2> QED
    BY <2>1, <2>2 DEF RepliesInOrder
<1>15. Behind'
  <2> SUFFICES ASSUME \E n \in 1..This' : log'[n].out = "mismatched"
               PROVE  strays' > 0 /\ \A i \in 1..Len(toClient') : toClient'[i].call < This' - Waiting' + i
    BY DEF Behind
  <2>1. \E n \in 1..This : log[n].out = "mismatched"
    BY <1>1, <1>5, <1>8
  <2>2. strays > 0 /\ \A i \in 1..Len(toClient) : toClient[i].call < This - Waiting + i
    BY <2>1 DEF IInv, Behind
  <2>3. This' - Waiting' = This - Waiting
    BY <1>1, <1>7, <1>8
  <2> QED
    BY <1>6, <2>2, <2>3
<1>16. NeverBackInStep'
  <2>1. \A n \in 1..This' : log'[n].out = "mismatched" => \A m \in n..This' : log'[m].out # "ok"
    <3>1. \A n \in 1..This : log[n].out = "mismatched" => \A m \in n..This : log[m].out # "ok"
      BY DEF IInv, NeverBackInStep, This
    <3> QED
      BY <1>1, <1>5, <1>8, <3>1
  <2> QED
    BY <2>1 DEF NeverBackInStep, This
<1>17. Shapes'
  <2>1. IsSeq(toServer')
    BY <1>6, <1>9 DEF IInv, Shapes
  <2>2. IsSeq(toClient')
    BY <1>6 DEF IInv, Shapes
  <2>3. \A n \in 1..This' : DOMAIN log'[n] = EntryFields
    BY <1>1, <1>5, <1>8 DEF IInv, Shapes
  <2> QED
    BY <1>8, <2>1, <2>2, <2>3 DEF Shapes
<1>18. TypeOK'
  <2>1. next_tag' \in 0..(TagModulus - 1)
    BY <1>1, <1>10
  <2>2. pc' = IF log' # << >> /\ log'[This'].out = "open" THEN "waiting" ELSE "idle"
    BY <1>1, <1>5, <1>6, <1>8, EmptyAny DEF This
  <2>3. up' \in BOOLEAN /\ strays' \in 0..MaxStrays
    BY <1>6 DEF IInv, TypeOK
  <2>4. up' => Len(toServer') + Len(toClient') = strays' + (IF pc' = "waiting" THEN 1 ELSE 0)
    <3>1. up => Len(toServer) + Len(toClient) = strays
      BY <1>1, <1>7, Numbers
    <3> QED
      BY <1>1, <1>6, <1>9, <3>1
  <2>5. \A i \in 1..Len(toServer') : toServer'[i].call \in 1..This' /\ log'[toServer'[i].call].done = << >>
    <3>1. \A i \in 1..Len(toServer) : toServer[i].call \in 1..This /\ log[toServer[i].call].done = << >>
      BY DEF IInv, TypeOK
    <3>2. CASE up
      BY <1>1, <1>2, <1>5, <1>8, <1>9, <3>1, <3>2
    <3>3. CASE ~up
      <4>1. toServer' = toServer
        BY <1>6, <3>3
      <4> QED
        BY <1>1, <1>8, <3>1, <4>1
    <3> QED
      BY <3>2, <3>3
  <2>6. \A i \in 1..Len(toClient') : toClient'[i].call \in 1..This' /\ log'[toClient'[i].call].done # << >>
    <3>1. \A i \in 1..Len(toClient) : toClient[i].call \in 1..This /\ log[toClient[i].call].done # << >>
      BY DEF IInv, TypeOK
    <3>2. toClient' = toClient
      BY <1>6
    <3> QED
      BY <1>1, <1>8, <3>1, <3>2
  <2>7. \A n \in 1..This' :
          log'[n].req \in Requests /\ log'[n].out \in {"open", "ok", "failed", "mismatched"}
    <3>1. \A n \in 1..This : log[n].req \in Requests /\ log[n].out \in {"open", "ok", "failed", "mismatched"}
      BY DEF IInv, TypeOK, This
    <3> QED
      BY <1>1, <1>5, <1>8, <3>1
  <2> QED
    BY <2>1, <2>2, <2>3, <2>4, <2>5, <2>6, <2>7 DEF TypeOK, This
<1> QED
  BY <1>13, <1>14, <1>15, <1>16, <1>17, <1>18 DEF IInv
\* A call ends with the first reply of the stream, or with the stream.
LEMMA EndsKeepsIInv ==
  ASSUME IInv, pc = "waiting", NEW out \in {"ok", "failed", "mismatched"}, NEW value, Ends(out, value),
         UNCHANGED <<next_tag, toServer, up, strays>>,
         \/ /\ toClient # << >> /\ toClient' = Tail(toClient)
            /\ out = "ok" => toClient[1].call = This
            /\ out = "mismatched" => toClient[1].call < This
         \/ toClient = << >> /\ toClient' = toClient /\ ~up /\ out = "failed"
  PROVE  IInv'
<1>1. /\ TagModulus \in Nat \ {0} /\ strays \in Nat
      /\ This \in Nat \ {0} /\ Len(toServer) \in Nat /\ Len(toClient) \in Nat
      /\ This \in 1..Len(log) /\ log[This].out = "open" /\ Waiting = 1
  BY Numbers DEF This
<1>2. pc' = "idle" /\ Waiting' = 0 /\ UNCHANGED <<next_tag, toServer, up, strays>>
  BY DEF Ends, Waiting
<1>3. PICK entry : entry = [log[This] EXCEPT !.out = out, !.value = value]
  OBVIOUS
<1>4. log' = [log EXCEPT ![This] = entry]
  BY <1>3 DEF Ends
<1>5. DOMAIN log[This] = EntryFields
  BY <1>1 DEF IInv, Shapes
<1>6. /\ entry.out = out /\ entry.done = log[This].done /\ entry.req = log[This].req
      /\ DOMAIN entry = EntryFields
  BY <1>3, <1>5 DEF EntryFields
<1>7. /\ IsSeq(log') /\ This' = This /\ log'[This] = entry
      /\ \A n \in 1..This : n # This => log'[n] = log[n]
  <2>1. PICK n : n = This
    OBVIOUS
  <2>2. IsSeq(log) /\ n \in 1..Len(log) /\ log' = [log EXCEPT ![n] = entry] /\ n = Len(log)
    BY <1>1, <1>4, <2>1 DEF IInv, Shapes, This
  <2>3. IsSeq(log')
    BY <2>2, ExceptAny
  <2>4. Len(log') = Len(log)
    BY <2>2, ExceptAny
  <2>5. log'[n] = entry
    BY <2>2, ExceptAny
  <2>6. \A i \in 1..Len(log) : i # n => log'[i] = log[i]
    BY <2>2, ExceptAny
  <2>7. This' = This /\ This = Len(log)
    BY <2>4 DEF This
  <2> QED
    BY <2>1, <2>3, <2>5, <2>6, <2>7
<1>8. /\ IsSeq(toClient') /\ Len(toClient') \in Nat
      /\ \A i \in 1..Len(toClient') : i + 1 \in 1..Len(toClient) /\ toClient'[i] = toClient[i + 1]
  <2>1. CASE toClient # << >> /\ toClient' = Tail(toClient)
    <3>1. /\ IsSeq(toClient') /\ Len(toClient') = Len(toClient) - 1 /\ Len(toClient) \in Nat \ {0}
          /\ \A i \in 1..(Len(toClient) - 1) : toClient'[i] = toClient[i + 1]
      BY <2>1, TailAny DEF IInv, Shapes
    <3> QED
      BY <3>1
  <2>2. CASE toClient' = << >>
    BY <2>2, EmptyAny
  <2> QED
    BY <2>1, <2>2
<1>9. up => toClient # << >> /\ Len(toClient') = Len(toClient) - 1
  BY TailAny DEF IInv, Shapes
<1>10. ASSUME NEW c, NEW t, Tagged(c, t) PROVE Tagged(c, t)'
  BY <1>2, <1>7, <1>10 DEF Tagged
<1>11. \A n \in 1..This : log'[n].done = log[n].done /\ log'[n].req = log[n].req
  BY <1>6, <1>7
<1>12. RequestsInOrder'
  <2> SUFFICES ASSUME up PROVE RequestsInOrder'
    BY <1>2 DEF RequestsInOrder
  <2>1. ASSUME NEW i \in 1..Len(toServer)
        PROVE  Tagged(toServer[i].call, toServer[i].tag)' /\ toServer'[i].call = This' - Len(toServer') + i
    <3>1. PICK c, t : c = toServer[i].call /\ t = toServer[i].tag
      OBVIOUS
    <3>2. Tagged(c, t)' /\ c = This - Len(toServer) + i
      BY <1>10, <3>1 DEF IInv, RequestsInOrder
    <3> QED
      BY <1>2, <1>7, <3>1, <3>2
  <2>2. \A n \in 1..This' : log'[n].done = << >> <=> n > This' - Len(toServer')
    BY <1>2, <1>7, <1>11 DEF IInv, RequestsInOrder
  <2> QED
    BY <1>2, <2>1, <2>2 DEF RequestsInOrder
<1>13. RepliesInOrder'
  <2>1. ASSUME NEW i \in 1..Len(toClient')
        PROVE  /\ Tagged(toClient[i].call, toClient[i].tag)'
               /\ This' - strays' - Waiting' + i <= toClient'[i].call
    <3>1. PICK c, t : c = toClient[i + 1].call /\ t = toClient[i + 1].tag
      OBVIOUS
    <3>2. toClient'[i].call = c /\ toClient'[i].tag = t /\ i + 1 \in 1..Len(toClient)
      BY <1>8, <3>1
    <3>3. Tagged(c, t) /\ This - strays - Waiting + (i + 1) <= c
      BY <3>1, <3>2 DEF IInv, RepliesInOrder
    <3>4. c \in 1..This
      BY <3>3 DEF Tagged
    <3>5. This' - strays' - Waiting' + i <= c
      BY <1>1, <1>2, <1>7, <1>8, <3>3, <3>4
    <3> QED
      BY <1>10, <3>2, <3>3, <3>5
  <2>2. ASSUME NEW i \in 1..Len(toClient'), NEW j \in 1..Len(toClient'), i <= j
        PROVE  toClient'[j].call <= toClient'[i].call + (j - i)
    <3>1. PICK c, d : c = toClient[i + 1].call /\ d = toClient[j + 1].call
      OBVIOUS
    <3>2. /\ toClient'[i].call = c /\ i + 1 \in 1..Len(toClient)
          /\ toClient'[j].call = d /\ j + 1 \in 1..Len(toClient)
      BY <1>8, <3>1
    <3>3. i + 1 <= j + 1 /\ (j + 1) - (i + 1) = j - i
      BY <1>8, <2>2
    <3>4. d <= c + ((j + 1) - (i + 1))
      BY <3>1, <3>2, <3>3 DEF IInv, RepliesInOrder
    <3> QED
      BY <3>2, <3>3, <3>4
  <2> QED
    BY <2>1, <2>2 DEF RepliesInOrder
<1>14. out = "mismatched" => strays > 0 /\ \A i \in 1..Len(toClient') : toClient'[i].call < This + i
  <2> SUFFICES ASSUME out = "mismatched"
               PROVE  strays > 0 /\ \A i \in 1..Len(toClient') : toClient'[i].call < This + i
    OBVIOUS
  <2>1. PICK c, t : c = toClient[1].call /\ t = toClient[1].tag
    OBVIOUS
  <2>2. 1 \in 1..Len(toClient) /\ c < This
    BY <2>1, TailAny DEF IInv, Shapes
  <2>3. Tagged(c, t) /\ This - strays - Waiting + 1 <= c
    BY <2>1, <2>2 DEF IInv, RepliesInOrder
  <2>4. c \in 1..This
    BY <2>3 DEF Tagged
  <2>5. strays > 0
    BY <1>1, <2>2, <2>3, <2>4
  <2>6. ASSUME NEW i \in 1..Len(toClient') PROVE toClient'[i].call < This + i
    <3>1. PICK d, u : d = toClient[i + 1].call /\ u = toClient[i + 1].tag
      OBVIOUS
    <3>2. i + 1 \in 1..Len(toClient) /\ toClient'[i].call = d /\ 1 <= i + 1 /\ (i + 1) - 1 = i
      BY <1>8, <3>1
    <3>3. d <= c + ((i + 1) - 1) /\ Tagged(d, u)
      BY <2>1, <2>2, <3>1, <3>2 DEF IInv, RepliesInOrder
    <3>4. d \in 1..This
      BY <3>3 DEF Tagged
    <3>5. d < This + i
      BY <1>1, <1>8, <2>2, <2>4, <3>2, <3>3, <3>4
    <3> QED
      BY <3>2, <3>5
  <2> QED
    BY <2>5, <2>6
<1>15. Behind'
  <2> SUFFICES ASSUME NEW n \in 1..This, log'[n].out = "mismatched"
               PROVE  strays > 0 /\ \A i \in 1..Len(toClient') : toClient'[i].call < This + i
    BY <1>1, <1>2, <1>7 DEF Behind
  <2>1. CASE n = This
    BY <1>6, <1>7, <1>14, <2>1
  <2>2. CASE n # This
    <3>1. log[n].out = "mismatched"
      BY <1>7, <2>2
    <3>2. strays > 0 /\ \A i \in 1..Len(toClient) : toClient[i].call < This - Waiting + i
      BY <3>1 DEF IInv, Behind
    <3>3. ASSUME NEW i \in 1..Len(toClient') PROVE toClient'[i].call < This + i
      <4>1. i + 1 \in 1..Len(toClient) /\ toClient'[i] = toClient[i + 1]
        BY <1>8
      <4>2. toClient[i + 1].call < This - Waiting + (i + 1)
        BY <3>2, <4>1
      <4>3. This - Waiting + (i + 1) = This + i
        BY <1>1, <1>8
      <4> QED
        BY <4>1, <4>2, <4>3
    <3> QED
      BY <3>2, <3>3
  <2> QED
    BY <2>1, <2>2
<1>16. NeverBackInStep'
  <2> SUFFICES ASSUME NEW n \in 1..This, log'[n].out = "mismatched", NEW m \in n..This,
                      log'[m].out = "ok"
               PROVE  FALSE
    BY <1>7 DEF NeverBackInStep, This
  <2>1. n # This => log[n].out = "mismatched"
    BY <1>7
  <2>2. m # This => log[m].out = "ok" /\ n # This
    BY <1>1, <1>7
  <2>3. CASE m # This
    BY <2>1, <2>2, <2>3 DEF IInv, NeverBackInStep, This
  <2>4. CASE m = This
    <3>1. out = "ok" /\ n # This
      BY <1>6, <1>7, <2>4
    <3>2. toClient # << >> /\ toClient[1].call = This
      BY <3>1
    <3>3. 1 \in 1..Len(toClient)
      BY <3>2, TailAny DEF IInv, Shapes
    <3>4. toClient[1].call < This - Waiting + 1
      BY <2>1, <3>1, <3>3 DEF IInv, Behind
    <3> QED
      BY <1>1, <3>2, <3>4
  <2> QED
    BY <2>3, <2>4
<1>17. Shapes'
  <2>1. \A n \in 1..This' : DOMAIN log'[n] = EntryFields
    BY <1>6, <1>7 DEF IInv, Shapes
  <2> QED
    BY <1>2, <1>7, <1>8, <2>1 DEF IInv, Shapes
<1>18. TypeOK'
  <2>1. next_tag' \in 0..(TagModulus - 1) /\ up' \in BOOLEAN /\ strays' \in 0..MaxStrays
    BY <1>2 DEF IInv, TypeOK
  <2>2. pc' = IF log' # << >> /\ log'[This'].out = "open" THEN "waiting" ELSE "idle"
    BY <1>2, <1>6, <1>7
  <2>3. up' => Len(toServer') + Len(toClient') = strays' + (IF pc' = "waiting" THEN 1 ELSE 0)
    <3>1. up => Len(toServer) + Len(toClient) = strays + 1
      BY <1>1, Numbers
    <3> QED
      BY <1>1, <1>2, <1>9, <3>1
  <2>4. \A i \in 1..Len(toServer') : toServer'[i].call \in 1..This' /\ log'[toServer'[i].call].done = << >>
    <3>1. \A i \in 1..Len(toServer) : toServer[i].call \in 1..This /\ log[toServer[i].call].done = << >>
      BY DEF IInv, TypeOK
    <3>2. toServer' = toServer
      BY <1>2
    <3> QED
      BY <1>7, <1>11, <3>1, <3>2
  <2>5. \A i \in 1..Len(toClient') : toClient'[i].call \in 1..This' /\ log'[toClient'[i].call].done # << >>
    <3>1. \A i \in 1..Len(toClient) : toClient[i].call \in 1..This /\ log[toClient[i].call].done # << >>
      BY DEF IInv, TypeOK
    <3>2. ASSUME NEW i \in 1..Len(toClient')
          PROVE  toClient'[i].call \in 1..This' /\ log'[toClient'[i].call].done # << >>
      <4>1. i + 1 \in 1..Len(toClient) /\ toClient'[i] = toClient[i + 1]
        BY <1>8
      <4>2. toClient[i + 1].call \in 1..This /\ log[toClient[i + 1].call].done # << >>
        BY <3>1, <4>1
      <4> QED
        BY <1>7, <1>11, <4>1, <4>2
    <3> QED
      BY <3>2
  <2>6. \A n \in 1..This' :
          log'[n].req \in Requests /\ log'[n].out \in {"open", "ok", "failed", "mismatched"}
    <3>1. \A n \in 1..This : log[n].req \in Requests /\ log[n].out \in {"open", "ok", "failed", "mismatched"}
      BY DEF IInv, TypeOK, This
    <3> QED
      BY <1>6, <1>7, <1>11, <3>1
  <2> QED
    BY <2>1, <2>2, <2>3, <2>4, <2>5, <2>6 DEF TypeOK, This
<1> QED
  BY <1>12, <1>13, <1>15, <1>16, <1>17, <1>18 DEF IInv
\* A reply that the server sends, to the last call that it has served, comes behind those to
\* earlier calls, and leaves out none.
LEMMA ReplyKeepsOrder ==
  ASSUME IInv, up, NEW reply, toClient' = Append(toClient, reply), UNCHANGED <<next_tag, pc, up>>,
         This' = This, \A n \in 1..This : log'[n].out = log[n].out,
         NEW call, NEW tag, reply.call = call, reply.tag = tag, Tagged(call, tag),
         NEW sent \in Nat, strays' = sent, NEW before \in Nat, strays = before, before <= sent,
         call = This - sent - Waiting + (Len(toClient) + 1)
  PROVE  RepliesInOrder' /\ Behind' /\ NeverBackInStep'
<1>1. This \in Nat /\ Len(toClient) \in Nat /\ Waiting \in {0, 1}
  BY Numbers
<1>2. PICK len : len = Len(toClient)
  OBVIOUS
<1>3. /\ Len(toClient') = len + 1 /\ toClient'[len + 1].call = call /\ toClient'[len + 1].tag = tag
      /\ \A i \in 1..len : toClient'[i] = toClient[i]
  BY <1>2, AppendAny DEF IInv, Shapes
<1>4. ASSUME NEW c, NEW t, Tagged(c, t) PROVE Tagged(c, t)' /\ c \in 1..This
  BY <1>4 DEF Tagged
<1>5. Waiting' = Waiting
  BY DEF Waiting
<1>6. call \in 1..This /\ Tagged(call, tag)' /\ call = This - sent - Waiting + (len + 1)
  BY <1>1, <1>2, <1>4
<1>7. ASSUME NEW i \in 1..len
      PROVE  /\ Tagged(toClient[i].call, toClient[i].tag)'
             /\ This - sent - Waiting + i <= toClient'[i].call
             /\ call <= toClient'[i].call + (len + 1 - i)
  <2>1. PICK c, t : c = toClient[i].call /\ t = toClient[i].tag
    OBVIOUS
  <2>2. toClient'[i].call = c /\ toClient'[i].tag = t
    BY <1>3, <2>1
  <2>3. Tagged(c, t) /\ This - before - Waiting + i <= c
    BY <1>2, <2>1 DEF IInv, RepliesInOrder
  <2>4. c \in 1..This /\ Tagged(c, t)'
    BY <1>4, <2>3
  <2>5. len \in Nat /\ i \in Nat /\ c \in Nat /\ call \in Nat
    BY <1>1, <1>2, <1>6, <2>4
  <2>6. This - sent - Waiting + i <= This - before - Waiting + i
    BY <1>1, <2>5
  <2>7. This - sent - Waiting + i <= c
    BY <1>1, <2>3, <2>5, <2>6
  <2>8. call <= c + (len + 1 - i)
    BY <1>1, <1>6, <2>5, <2>7
  <2> QED
    BY <2>2, <2>4, <2>7, <2>8
<1>8. RepliesInOrder'
  <2>1. ASSUME NEW i \in 1..Len(toClient')
        PROVE  /\ Tagged(toClient[i].call, toClient[i].tag)'
               /\ This' - strays' - Waiting' + i <= toClient'[i].call
    <3>1. CASE i \in 1..len
      BY <1>5, <1>7, <3>1
    <3>2. CASE i = len + 1
      <4>1. PICK k : k = len + 1
        OBVIOUS
      <4>2. toClient'[k].call = call /\ toClient'[k].tag = tag /\ i = k
        BY <1>3, <3>2, <4>1
      <4>3. This - sent - Waiting + k <= call
        BY <1>1, <1>2, <1>6, <4>1
      <4> QED
        BY <1>5, <1>6, <4>2, <4>3
    <3> QED
      BY <1>1, <1>2, <1>3, <3>1, <3>2
  <2>2. ASSUME NEW i \in 1..Len(toClient'), NEW j \in 1..Len(toClient'), i <= j
        PROVE  toClient'[j].call <= toClient'[i].call + (j - i)
    <3>1. CASE j \in 1..len
      <4>1. i \in 1..len /\ toClient'[i] = toClient[i] /\ toClient'[j] = toClient[j]
        BY <1>1, <1>2, <1>3, <2>2, <3>1
      <4>2. \A k, l \in 1..Len(toClient) : k <= l => toClient[l].call <= toClient[k].call + (l - k)
        BY DEF IInv, RepliesInOrder
      <4>3. i \in 1..Len(toClient) /\ j \in 1..Len(toClient)
        BY <1>2, <3>1, <4>1
      <4>4. toClient[j].call <= toClient[i].call + (j - i)
        BY <2>2, <4>2, <4>3
      <4> QED
        BY <4>1, <4>4
    <3>2. CASE j = len + 1 /\ i \in 1..len
      <4>1. PICK k : k = len + 1
        OBVIOUS
      <4>2. toClient'[k].call = call
        BY <1>3, <4>1
      <4>3. call <= toClient'[i].call + (len + 1 - i)
        BY <1>7, <3>2
      <4>4. j = k /\ len + 1 - i = j - i
        BY <1>1, <1>2, <3>2, <4>1
      <4>5. call <= toClient'[i].call + (j - i)
        BY <4>3, <4>4
      <4> QED
        BY <4>2, <4>4, <4>5
    <3>3. CASE j = len + 1 /\ i = len + 1
      <4>1. toClient'[i].call = call /\ toClient'[j].call = call /\ j - i = 0
        BY <1>1, <1>2, <1>3, <3>3
      <4> QED
        BY <1>1, <1>6, <4>1
    <3> QED
      BY <1>1, <1>2, <1>3, <2>2, <3>1, <3>2, <3>3
  <2> QED
    BY <2>1, <2>2 DEF RepliesInOrder
<1>9. Behind'
  <2> SUFFICES ASSUME NEW n \in 1..This, log[n].out = "mismatched"
               PROVE  strays' > 0 /\ \A i \in 1..Len(toClient') : toClient'[i].call < This - Waiting + i
    BY <1>5 DEF Behind
  <2>1. strays > 0 /\ \A i \in 1..Len(toClient) : toClient[i].call < This - Waiting + i
    BY DEF IInv, Behind
  <2>2. \A i \in 1..len : toClient'[i].call < This - Waiting + i
    BY <1>2, <1>3, <2>1
  <2>3. call < This - Waiting + (len + 1) /\ strays' > 0
    BY <1>1, <1>2, <1>6, <2>1
  <2> QED
    BY <1>1, <1>2, <1>3, <2>2, <2>3
<1>10. NeverBackInStep'
  BY <1>1 DEF IInv, NeverBackInStep, This
<1> QED
  BY <1>8, <1>9, <1>10

\* The end of the connection takes along what is on its way, or leaves it.
LEMMA CloseKeepsIInv ==
  ASSUME IInv, Close
  PROVE  IInv'
<1>1. /\ UNCHANGED <<next_tag, pc, strays, log>> /\ up' = FALSE /\ toServer' = << >>
      /\ toClient' = toClient \/ toClient' = << >>
  BY DEF Close
<1>2. IsSeq(<< >>) /\ Len(<< >>) = 0
  BY EmptyAny
<1>3. This' = This /\ Waiting' = Waiting
  BY <1>1 DEF This, Waiting
<1>4. ASSUME NEW c, NEW t, Tagged(c, t) PROVE Tagged(c, t)'
  BY <1>1, <1>3, <1>4 DEF Tagged
<1>5. IsSeq(toClient') /\ \A i \in 1..Len(toClient') : i \in 1..Len(toClient) /\ toClient'[i] = toClient[i]
  BY <1>1, <1>2 DEF IInv, Shapes
<1>6. TypeOK'
  <2>1. /\ next_tag' \in 0..(TagModulus - 1) /\ up' = FALSE /\ strays' \in 0..MaxStrays
        /\ pc' = IF log' # << >> /\ log'[This'].out = "open" THEN "waiting" ELSE "idle"
    BY <1>1, <1>3 DEF IInv, TypeOK
  <2>2. \A i \in 1..Len(toServer') : toServer'[i].call \in 1..This' /\ log'[toServer'[i].call].done = << >>
    BY <1>1, <1>2
  <2>3. \A i \in 1..Len(toClient') : toClient'[i].call \in 1..This' /\ log'[toClient'[i].call].done # << >>
    BY <1>1, <1>3, <1>5 DEF IInv, TypeOK
  <2>4. \A n \in 1..This' :
          log'[n].req \in Requests /\ log'[n].out \in {"open", "ok", "failed", "mismatched"}
    BY <1>1, <1>3 DEF IInv, TypeOK, This
  <2> QED
    BY <2>1, <2>2, <2>3, <2>4 DEF TypeOK, This
<1>7. Shapes'
  BY <1>1, <1>2, <1>5 DEF IInv, Shapes, This
<1>8. RequestsInOrder'
  BY <1>1 DEF RequestsInOrder
<1>9. RepliesInOrder'
  <2>1. \A i \in 1..Len(toClient') :
          /\ Tagged(toClient[i].call, toClient[i].tag)'
          /\ This' - strays' - Waiting' + i <= toClient'[i].call
    BY <1>1, <1>3, <1>4, <1>5 DEF IInv, RepliesInOrder
  <2>2. \A i, j \in 1..Len(toClient') : i <= j => toClient'[j].call <= toClient'[i].call + (j - i)
    BY <1>5 DEF IInv, RepliesInOrder
  <2> QED
    BY <2>1, <2>2 DEF RepliesInOrder
<1>10. Behind'
  BY <1>1, <1>3, <1>5 DEF IInv, Behind
<1>11. NeverBackInStep'
  BY <1>1 DEF IInv, NeverBackInStep, This
<1> QED
  BY <1>6, <1>7, <1>8, <1>9, <1>10, <1>11 DEF IInv
\* A reply is to the call, and has the tag, that it is made for.
LEMMA ReplyFields ==
  ASSUME NEW type, NEW tag, NEW call, NEW answer
  PROVE  Reply(type, tag, call, answer).tag = tag /\ Reply(type, tag, call, answer).call = call
BY DEF Reply

\* A reply that goes out once more is one of those that the client will be behind by.
LEMMA SendAgainKeepsIInv ==
  ASSUME IInv, SendAgain
  PROVE  IInv'
<1>1. /\ TagModulus \in Nat \ {0} /\ MaxStrays \in Nat /\ MaxStrays < TagModulus
      /\ next_tag \in 0..(TagModulus - 1) /\ This \in Nat
      /\ Len(toServer) \in Nat /\ Len(toClient) \in Nat /\ Waiting \in {0, 1}
  BY Numbers
<1>2. PICK before \in Nat, sent \in Nat : before = strays /\ sent = strays + 1
  BY Numbers
<1>3. PICK call, tag : call = Served /\ tag = (next_tag + TagModulus - 1 - Len(toServer)) % TagModulus
  OBVIOUS
<1>4. PICK reply : reply = Reply(log[Served].req.type, tag, Served, log[Served].done[1].answer)
  OBVIOUS
<1>5. reply.call = call /\ reply.tag = tag
  BY <1>3, <1>4, ReplyFields
<1>6. /\ up /\ before < MaxStrays /\ Served > 0 /\ strays' = sent
      /\ toClient' = Append(toClient, reply) /\ UNCHANGED <<next_tag, pc, toServer, up, log>>
  BY <1>2, <1>3, <1>4 DEF SendAgain
<1>7. Len(toServer) + Len(toClient) = before + Waiting
  BY <1>2, <1>6, Numbers
<1>8. call = This - Len(toServer) /\ call \in 1..This
  BY <1>1, <1>3, <1>6 DEF Served
<1>9. Tagged(call, tag)
  <2>1. PICK sum : sum = next_tag + TagModulus - 1 - Len(toServer)
    OBVIOUS
  <2>2. sum \in 0..(2 * TagModulus - 1)
    BY <1>1, <1>2, <1>6, <1>7, <2>1
  <2>3. tag = IF sum < TagModulus THEN sum ELSE sum - TagModulus
    BY <1>1, <1>3, <2>1, <2>2, SmallMod
  <2> QED
    BY <1>1, <1>8, <2>1, <2>2, <2>3 DEF Tagged
<1>10. This' = This /\ Waiting' = Waiting
  BY <1>6 DEF This, Waiting
<1>11. before <= sent /\ call = This - sent - Waiting + (Len(toClient) + 1)
  BY <1>1, <1>2, <1>7, <1>8
<1>12. \A n \in 1..This : log'[n].out = log[n].out
  BY <1>6
<1>13. RepliesInOrder' /\ Behind' /\ NeverBackInStep'
  BY <1>2, <1>5, <1>6, <1>9, <1>10, <1>11, <1>12, ReplyKeepsOrder
<1>14. ASSUME NEW c, NEW t, Tagged(c, t) PROVE Tagged(c, t)'
  BY <1>6, <1>10, <1>14 DEF Tagged
<1>15. RequestsInOrder'
  BY <1>6, <1>10, <1>14 DEF IInv, RequestsInOrder
<1>16. /\ IsSeq(toClient') /\ Len(toClient') = Len(toClient) + 1 /\ toClient'[Len(toClient) + 1] = reply
       /\ \A i \in 1..Len(toClient) : toClient'[i] = toClient[i]
  BY <1>6, AppendAny DEF IInv, Shapes
<1>17. Shapes'
  BY <1>6, <1>10, <1>16 DEF IInv, Shapes
<1>18. TypeOK'
  <2>1. /\ next_tag' \in 0..(TagModulus - 1) /\ up' \in BOOLEAN /\ strays' \in 0..MaxStrays
        /\ pc' = IF log' # << >> /\ log'[This'].out = "open" THEN "waiting" ELSE "idle"
    BY <1>1, <1>2, <1>6, <1>10 DEF IInv, TypeOK
  <2>2. up' => Len(toServer') + Len(toClient') = strays' + (IF pc' = "waiting" THEN 1 ELSE 0)
    <3>1. Len(toServer') + Len(toClient') = sent + Waiting
      BY <1>1, <1>2, <1>6, <1>7, <1>16
    <3> QED
      BY <1>6, <3>1 DEF Waiting
  <2>3. \A i \in 1..Len(toServer') : toServer'[i].call \in 1..This' /\ log'[toServer'[i].call].done = << >>
    BY <1>6, <1>10 DEF IInv, TypeOK
  <2>4. \A i \in 1..Len(toClient') : toClient'[i].call \in 1..This' /\ log'[toClient'[i].call].done # << >>
    <3>1. \A i \in 1..Len(toClient) : toClient[i].call \in 1..This /\ log[toClient[i].call].done # << >>
      BY DEF IInv, TypeOK
    <3>2. \A n \in 1..This : log[n].done = << >> <=> n > This - Len(toServer)
      BY <1>6 DEF IInv, RequestsInOrder
    <3>3. log[call].done # << >>
      BY <1>1, <1>8, <3>2
    <3>4. ASSUME NEW i \in 1..Len(toClient')
          PROVE  toClient'[i].call \in 1..This /\ log[toClient'[i].call].done # << >>
      <4>1. CASE i \in 1..Len(toClient)
        BY <1>16, <3>1, <4>1
      <4>2. CASE i = Len(toClient) + 1
        BY <1>5, <1>8, <1>16, <3>3, <4>2
      <4> QED
        BY <1>1, <1>16, <4>1, <4>2
    <3>5. log' = log
      BY <1>6
    <3> QED
      BY <1>10, <3>4, <3>5
  <2>5. \A n \in 1..This' :
          log'[n].req \in Requests /\ log'[n].out \in {"open", "ok", "failed", "mismatched"}
    BY <1>6, <1>10 DEF IInv, TypeOK, This
  <2> QED
    BY <2>1, <2>2, <2>3, <2>4, <2>5 DEF TypeOK, This
<1> QED
  BY <1>13, <1>15, <1>17, <1>18 DEF IInv
\* The server answers the first of the calls that it has not served.
LEMMA RespondKeepsIInv ==
  ASSUME IInv, up, toServer # << >>, NEW understood, NEW answer, Respond(understood, answer)
  PROVE  IInv'
<1>1. /\ This \in Nat /\ Len(toServer) \in Nat \ {0} /\ Len(toClient) \in Nat /\ Waiting \in {0, 1}
      /\ up /\ toServer # << >> /\ Head(toServer) = toServer[1]
  BY Numbers, TailAny DEF IInv, Shapes
<1>2. PICK call, tag : call = toServer[1].call /\ tag = toServer[1].tag
  OBVIOUS
<1>3. /\ log' = [log EXCEPT ![call] = [log[call] EXCEPT !.done =
                   Append(@, [understood |-> understood, answer |-> answer])]]
      /\ toClient' = Append(toClient, Reply(toServer[1].type, tag, call, answer))
      /\ toServer' = Tail(toServer)
      /\ UNCHANGED <<next_tag, pc, up, strays>>
  BY <1>1, <1>2 DEF Respond
<1>4. PICK reply : reply = Reply(toServer[1].type, tag, call, answer)
  OBVIOUS
<1>5. reply.call = call /\ reply.tag = tag /\ toClient' = Append(toClient, reply)
  BY <1>3, <1>4, ReplyFields
<1>6. PICK done : done = Append(log[call].done, [understood |-> understood, answer |-> answer])
  OBVIOUS
<1>7. PICK entry : entry = [log[call] EXCEPT !.done = done]
  OBVIOUS
<1>8. 1 \in 1..Len(toServer)
  BY <1>1
<1>9. Tagged(call, tag) /\ call = This - Len(toServer) + 1
  BY <1>1, <1>2, <1>8 DEF IInv, RequestsInOrder
<1>10. call \in 1..This /\ call \in 1..Len(log) /\ log[call].done = << >>
  BY <1>2, <1>8, <1>9 DEF IInv, TypeOK, Tagged, This
<1>11. done # << >>
  BY <1>6, <1>10
<1>12. /\ entry.out = log[call].out /\ entry.done = done /\ entry.req = log[call].req
       /\ DOMAIN entry = EntryFields
  BY <1>7, <1>10 DEF IInv, Shapes, EntryFields
<1>13. log' = [log EXCEPT ![call] = entry]
  BY <1>3, <1>6, <1>7
<1>14. /\ IsSeq(log') /\ This' = This /\ log'[call] = entry
       /\ \A n \in 1..This : n # call => log'[n] = log[n]
  <2>1. IsSeq(log)
    BY DEF IInv, Shapes
  <2>2. IsSeq(log')
    BY <1>10, <1>13, <2>1, ExceptAny
  <2>3. Len(log') = Len(log)
    BY <1>10, <1>13, <2>1, ExceptAny
  <2>4. log'[call] = entry
    BY <1>10, <1>13, <2>1, ExceptAny
  <2>5. \A n \in 1..Len(log) : n # call => log'[n] = log[n]
    BY <1>10, <1>13, <2>1, ExceptAny
  <2> QED
    BY <2>2, <2>3, <2>4, <2>5 DEF This
<1>15. \A n \in 1..This : log'[n].out = log[n].out /\ log'[n].req = log[n].req
  BY <1>12, <1>14
<1>16. /\ IsSeq(toServer') /\ Len(toServer') = Len(toServer) - 1
       /\ \A i \in 1..Len(toServer') : i + 1 \in 1..Len(toServer) /\ toServer'[i] = toServer[i + 1]
  <2>1. /\ IsSeq(toServer') /\ Len(toServer') = Len(toServer) - 1
        /\ \A i \in 1..(Len(toServer) - 1) : toServer'[i] = toServer[i + 1]
    BY <1>1, <1>3, TailAny DEF IInv, Shapes
  <2> QED
    BY <1>1, <2>1
<1>17. /\ IsSeq(toClient') /\ Len(toClient') = Len(toClient) + 1 /\ toClient'[Len(toClient) + 1] = reply
       /\ \A i \in 1..Len(toClient) : toClient'[i] = toClient[i]
  BY <1>5, AppendAny DEF IInv, Shapes
<1>18. PICK sent \in Nat : sent = strays
  BY Numbers
<1>19. Len(toServer) + Len(toClient) = sent + Waiting
  BY <1>1, <1>18, Numbers
<1>20. call = This - sent - Waiting + (Len(toClient) + 1) /\ strays' = sent
  <2>1. strays' = sent
    BY <1>3, <1>18
  <2>2. Len(toServer) = sent + Waiting - Len(toClient)
    BY <1>1, <1>18, <1>19
  <2>3. call = This - (sent + Waiting - Len(toClient)) + 1
    BY <1>9, <2>2
  <2> QED
    BY <1>1, <1>18, <2>1, <2>3
<1>21. RepliesInOrder' /\ Behind' /\ NeverBackInStep'
  <2>1. UNCHANGED <<next_tag, pc, up>> /\ sent <= sent
    BY <1>3
  <2>2. up /\ This' = This /\ \A n \in 1..This : log'[n].out = log[n].out
    BY <1>1, <1>14, <1>15
  <2>3. Tagged(call, tag) /\ strays = sent
    BY <1>9, <1>18
  <2> QED
    BY <1>5, <1>20, <2>1, <2>2, <2>3, ReplyKeepsOrder
<1>22. ASSUME NEW c, NEW t, Tagged(c, t) PROVE Tagged(c, t)'
  BY <1>3, <1>14, <1>22 DEF Tagged
<1>23. RequestsInOrder'
  <2>1. ASSUME NEW i \in 1..Len(toServer')
        PROVE  Tagged(toServer[i].call, toServer[i].tag)' /\ toServer'[i].call = This' - Len(toServer') + i
    <3>1. PICK c, t : c = toServer[i + 1].call /\ t = toServer[i + 1].tag
      OBVIOUS
    <3>2. toServer'[i].call = c /\ toServer'[i].tag = t /\ i + 1 \in 1..Len(toServer)
      BY <1>16, <3>1
    <3>3. Tagged(c, t) /\ c = This - Len(toServer) + (i + 1)
      BY <1>1, <3>1, <3>2 DEF IInv, RequestsInOrder
    <3>4. c = This' - Len(toServer') + i
      BY <1>1, <1>14, <1>16, <3>3
    <3> QED
      BY <1>22, <3>2, <3>3, <3>4
  <2>2. \A n \in 1..This' : log'[n].done = << >> <=> n > This' - Len(toServer')
    <3>1. \A n \in 1..This : log[n].done = << >> <=> n > This - Len(toServer)
      BY <1>1 DEF IInv, RequestsInOrder
    <3>2. This' - Len(toServer') = call
      BY <1>1, <1>9, <1>14, <1>16
    <3>3. ASSUME NEW n \in 1..This PROVE log'[n].done = << >> <=> n > call
      <4>1. CASE n = call
        BY <1>10, <1>11, <1>12, <1>14, <4>1
      <4>2. CASE n # call
        <5>1. log'[n].done = log[n].done
          BY <1>14, <4>2
        <5>2. This - Len(toServer) = call - 1
          BY <1>1, <1>9, <1>10
        <5>3. n > call - 1 <=> n > call
          BY <1>1, <1>10, <4>2
        <5> QED
          BY <3>1, <5>1, <5>2, <5>3
      <4> QED
        BY <4>1, <4>2
    <3> QED
      BY <1>14, <3>2, <3>3
  <2> QED
    BY <2>1, <2>2 DEF RequestsInOrder
<1>24. Shapes'
  <2>1. \A n \in 1..This' : DOMAIN log'[n] = EntryFields
    BY <1>12, <1>14 DEF IInv, Shapes
  <2> QED
    BY <1>14, <1>16, <1>17, <2>1 DEF Shapes
<1>25. TypeOK'
  <2>1. /\ next_tag' \in 0..(TagModulus - 1) /\ up' \in BOOLEAN /\ strays' \in 0..MaxStrays
    BY <1>3 DEF IInv, TypeOK
  <2>2. pc' = IF log' # << >> /\ log'[This'].out = "open" THEN "waiting" ELSE "idle"
    <3>1. pc = IF log # << >> /\ log[This].out = "open" THEN "waiting" ELSE "idle"
      BY DEF IInv, TypeOK
    <3>2. log # << >> /\ log' # << >> /\ This \in 1..This
      BY <1>1, <1>10, <1>14, EmptyAny DEF This
    <3> QED
      BY <1>3, <1>14, <1>15, <3>1, <3>2
  <2>3. up' => Len(toServer') + Len(toClient') = strays' + (IF pc' = "waiting" THEN 1 ELSE 0)
    <3>3. PICK before, after \in Nat : before = Len(toServer) /\ after = Len(toClient)
      BY <1>1
    <3>4. Len(toServer') = before - 1 /\ Len(toClient') = after + 1
      BY <1>16, <1>17, <3>3
    <3>5. before + after = sent + Waiting
      BY <1>19, <3>3
    <3>6. (before - 1) + (after + 1) = before + after
      BY <3>3
    <3>1. Len(toServer') + Len(toClient') = sent + Waiting
      BY <3>4, <3>5, <3>6
    <3> QED
      BY <1>3, <1>20, <3>1 DEF Waiting
  <2>4. \A i \in 1..Len(toServer') : toServer'[i].call \in 1..This' /\ log'[toServer'[i].call].done = << >>
    <3>1. ASSUME NEW i \in 1..Len(toServer')
          PROVE  toServer'[i].call \in 1..This /\ log'[toServer'[i].call].done = << >>
      <4>1. PICK c : c = toServer[i + 1].call
        OBVIOUS
      <4>2. toServer'[i].call = c /\ i + 1 \in 1..Len(toServer)
        BY <1>16, <4>1
      <4>3. c \in 1..This /\ log[c].done = << >> /\ c = This - Len(toServer) + (i + 1)
        BY <1>1, <4>1, <4>2 DEF IInv, TypeOK, RequestsInOrder
      <4>4. c # call
        BY <1>1, <1>9, <1>16, <4>3
      <4> QED
        BY <1>14, <4>2, <4>3, <4>4
    <3> QED
      BY <1>14, <3>1
  <2>5. \A i \in 1..Len(toClient') : toClient'[i].call \in 1..This' /\ log'[toClient'[i].call].done # << >>
    <3>1. \A n \in 1..This : log[n].done # << >> => log'[n].done # << >>
      BY <1>10, <1>14
    <3>2. \A i \in 1..Len(toClient) : toClient[i].call \in 1..This /\ log[toClient[i].call].done # << >>
      BY DEF IInv, TypeOK
    <3>3. log'[call].done # << >>
      BY <1>11, <1>12, <1>14
    <3> QED
      BY <1>1, <1>5, <1>10, <1>14, <1>17, <3>1, <3>2, <3>3
  <2>6. \A n \in 1..This' :
          log'[n].req \in Requests /\ log'[n].out \in {"open", "ok", "failed", "mismatched"}
    BY <1>14, <1>15 DEF IInv, TypeOK, This
  <2> QED
    BY <2>1, <2>2, <2>3, <2>4, <2>5, <2>6 DEF TypeOK, This
<1> QED
  BY <1>21, <1>23, <1>24, <1>25 DEF IInv

\* Whichever way the server takes the first request from the stream.
LEMMA ServerKeepsIInv ==
  ASSUME IInv, Serve \/ Refuse \/ Acknowledge \/ Drop
  PROVE  IInv'
<1>1. CASE Drop
  BY <1>1, CloseKeepsIInv DEF Drop
<1>2. CASE Serve \/ Refuse \/ Acknowledge
  <2>1. PICK understood, answer : Respond(understood, answer)
    BY <1>2 DEF Serve, Refuse, Acknowledge
  <2>2. up /\ toServer # << >>
    BY <1>2 DEF Serve, Refuse, Acknowledge
  <2> QED
    BY <2>1, <2>2, RespondKeepsIInv
<1> QED
  BY <1>1, <1>2

\* A call ends as the code has it end: with a wrong tag only if the reply is to an earlier
\* call, and with success only if it is to this one.
LEMMA ReceiveKeepsIInv ==
  ASSUME IInv, Receive \/ EndOfStream
  PROVE  IInv'
<1>1. CASE EndOfStream
  BY <1>1, EndsKeepsIInv DEF EndOfStream
<1>2. CASE Receive
  <2>1. /\ pc = "waiting" /\ toClient # << >> /\ toClient' = Tail(toClient)
        /\ UNCHANGED <<next_tag, toServer, up, strays>>
    BY <1>2 DEF Receive
  <2>2. PICK call, tag : call = toClient[1].call /\ tag = toClient[1].tag
    OBVIOUS
  <2>3. Head(toClient) = toClient[1] /\ 1 \in 1..Len(toClient)
    BY <2>1, TailAny DEF IInv, Shapes
  <2>4. PICK before \in Nat : before = strays
    BY Numbers
  <2>5. Tagged(call, tag) /\ This - before - Waiting + 1 <= call
    BY <2>2, <2>3, <2>4 DEF IInv, RepliesInOrder
  <2>6. /\ Waiting = 1 /\ This \in Nat /\ TagModulus \in Nat /\ before < TagModulus
    BY <2>1, <2>4, Numbers
  <2>7. call \in 1..This /\ This - call < TagModulus
    <3>1. call \in 1..This
      BY <2>5 DEF Tagged
    <3> QED
      BY <2>5, <2>6, <3>1
  <2>8. tag = MyTag <=> call = This
    BY <2>5, <2>7, TagTells
  <2>9. CASE tag # MyTag
    <3>1. Ends("mismatched", << >>)
      BY <1>2, <2>2, <2>3, <2>9 DEF Receive
    <3>2. toClient[1].call < This
      BY <2>2, <2>6, <2>7, <2>8, <2>9
    <3> QED
      BY <2>1, <3>1, <3>2, EndsKeepsIInv
  <2>10. CASE tag = MyTag
    <3>1. Accept(toClient[1])
      BY <1>2, <2>2, <2>3, <2>10 DEF Receive
    <3>2. PICK out \in {"ok", "failed"} : \E value : Ends(out, value)
      BY <3>1 DEF Accept
    <3>3. PICK value : Ends(out, value)
      BY <3>2
    <3>4. toClient[1].call = This
      BY <2>2, <2>8, <2>10
    <3> QED
      BY <2>1, <3>3, <3>4, EndsKeepsIInv
  <2> QED
    BY <2>9, <2>10
<1> QED
  BY <1>1, <1>2

\* The first state is as the invariant says.
LEMMA ClientStarts == Init => IInv
<1> SUFFICES ASSUME Init PROVE IInv
  OBVIOUS
<1>1. /\ next_tag = 0 /\ pc = "idle" /\ toServer = << >> /\ toClient = << >>
      /\ up = TRUE /\ strays = 0 /\ log = << >>
  BY DEF Init
<1>2. IsSeq(<< >>) /\ Len(<< >>) = 0 /\ This = 0
  BY <1>1, EmptyAny DEF This
<1>3. TypeOK
  BY <1>1, <1>2, ClientAssumption DEF TypeOK
<1>4. Shapes /\ RequestsInOrder /\ RepliesInOrder /\ Behind /\ NeverBackInStep
  BY <1>1, <1>2 DEF Shapes, RequestsInOrder, RepliesInOrder, Behind, NeverBackInStep
<1> QED
  BY <1>3, <1>4 DEF IInv

\* So is the state after any step.
LEMMA StepKeepsIInv == IInv /\ [Next]_vars => IInv'
<1> SUFFICES ASSUME IInv, [Next]_vars PROVE IInv'
  OBVIOUS
<1>1. ASSUME This < Len(Asks), NEW req \in Asks[This + 1], Call(req) PROVE IInv'
  <2>1. This + 1 \in 1..Len(Asks)
    BY <1>1, Numbers, ClientAssumption
  <2>2. req \in Requests
    BY <2>1 DEF Requests
  <2> QED
    BY <1>1, <2>2, CallKeepsIInv
<1>2. CASE UNCHANGED vars
  BY <1>2 DEF vars, IInv, TypeOK, Shapes, RequestsInOrder, RepliesInOrder, Behind, NeverBackInStep,
              Tagged, This, Waiting
<1>3. CASE HangUp
  BY <1>3, CloseKeepsIInv DEF HangUp
<1> QED
  BY <1>1, <1>2, <1>3, ReceiveKeepsIInv, ServerKeepsIInv, SendAgainKeepsIInv DEF Next

\* The invariant holds of every state that client and server reach.
THEOREM ClientInvariant == Spec => []IInv
BY ClientStarts, StepKeepsIInv, PTL DEF Spec

\* Every variable is of its type; in particular, the client waits exactly while its last call
\* is open, and is behind by exactly as many replies as were sent once more.
THEOREM ClientTypeCorrect == Spec => []TypeOK
<1>1. IInv => TypeOK
  BY DEF IInv
<1> QED
  BY <1>1, ClientInvariant, PTL

\* For any number of tags, and any number of replies too many below that: a client that has
\* met a wrong tag once never has a call succeed again.
THEOREM OutOfStepForEver == Spec => []NeverBackInStep
<1>1. IInv => NeverBackInStep
  BY DEF IInv
<1> QED
  BY <1>1, ClientInvariant, PTL

(***************************************************************************)
(* The calls: P9Client implements P9Calls.  The invariant                  *)
(***************************************************************************)
\* What the server understood of a call that it took up is what it decoded; or it looked at
\* nothing, and then it answered Rerror, or the call is one that it never reads.  The answer
\* to a call that succeeded could be decoded.
Understood(entry, done) ==
  \/ RequestRead[entry.req].ok /\ done.understood = RequestRead[entry.req].got
  \/ done.understood = << >> /\ (done.answer = ErrorAnswer \/ entry.req.type \in NeverRead)

Answered(entry) ==
  /\ entry.done # << >> /\ ~entry.done[1].answer.error
  /\ AnswerRead[entry.req.type][entry.done[1].answer.values].ok

DecodedWell(entry) ==
  /\ entry.done # << >> => Understood(entry, entry.done[1])
  /\ entry.out = "ok" => Answered(entry)

\* The history is made of records; only the last call may be open, without a value yet; and
\* what was answered is what may be answered.
Entries ==
  \A n \in 1..This :
    /\ DecodedWell(log[n])
    /\ log[n] = [req |-> log[n].req, done |-> log[n].done, out |-> log[n].out, value |-> log[n].value]
    /\ log[n].done # << >> => log[n].done[1].answer \in AnswersTo(log[n].req.type)
    /\ log[n].out = "open" => n = This /\ log[n].value = << >>

\* A frame in the stream is the request, or the answer, of the call that it belongs to.
Frames ==
  /\ \A i \in 1..Len(toServer) :
       LET req == log[toServer[i].call].req
       IN  toServer[i].type = req.type /\ toServer[i].read = RequestRead[req]
  /\ \A i \in 1..Len(toClient) :
       LET call == toClient[i].call
       IN  toClient[i] = Reply(log[call].req.type, toClient[i].tag, call, log[call].done[1].answer)

CallInv == IInv /\ Entries /\ Frames

\* What the client sees of the operators of P9Calls.
LEMMA SameCodec ==
  /\ Calls!RequestFormat = RequestFormat /\ Calls!ReplyFormat = ReplyFormat
  /\ \A format, values : Calls!AllCounted(format, values) <=> AllCounted(format, values)
BY DEF Calls!RequestFormat, RequestFormat, Calls!ReplyFormat, ReplyFormat,
       Calls!AllCounted, AllCounted, Calls!Counted, Counted

\* Frames stay right while no call's request changes, nor its answer once it has one.
LEMMA OldFrames ==
  ASSUME CallInv,
         \A n \in 1..This : log'[n].req = log[n].req /\ (log[n].done # << >> => log'[n].done = log[n].done)
  PROVE  /\ \A i \in 1..Len(toServer) :
              LET req == log'[toServer[i].call].req
              IN  toServer[i].type = req.type /\ toServer[i].read = RequestRead[req]
         /\ \A i \in 1..Len(toClient) :
              LET call == toClient[i].call
              IN  toClient[i] = Reply(log'[call].req.type, toClient[i].tag, call, log'[call].done[1].answer)
<1>1. \A i \in 1..Len(toServer) : toServer[i].call \in 1..This
  BY DEF CallInv, IInv, TypeOK
<1>2. \A i \in 1..Len(toClient) : toClient[i].call \in 1..This /\ log[toClient[i].call].done # << >>
  BY DEF CallInv, IInv, TypeOK
<1> QED
  BY <1>1, <1>2 DEF CallInv, Frames

(***************************************************************************)
(* The calls: the steps                                                    *)
(***************************************************************************)
LEMMA CallAsks ==
  ASSUME CallInv, NEW req \in Requests, Call(req)
  PROVE  Entries' /\ Frames' /\ Calls!Ask
<1> USE DEF CallInv
<1>1. PICK entry : entry = [req |-> req, done |-> << >>, out |-> "open", value |-> << >>]
  OBVIOUS
<1>2. PICK frame : frame = [type |-> req.type, tag |-> next_tag, call |-> This + 1, read |-> RequestRead[req],
                         refusable |-> Refusable[req], clean |-> AllCounted(RequestFormat[req.type], req.values)]
  OBVIOUS
<1>3. /\ pc = "idle" /\ toClient' = toClient /\ log' = Append(log, entry)
      /\ toServer' = IF up THEN Append(toServer, frame) ELSE toServer
  BY <1>1, <1>2 DEF Call
<1>4. This \in Nat /\ Len(toServer) \in Nat /\ \A n \in 1..This : log[n].out # "open"
  <2>1. This \in Nat /\ Len(toServer) \in Nat /\ (This > 0 => log[This].out # "open")
    BY <1>3, Numbers
  <2>2. ASSUME NEW n \in 1..This, log[n].out = "open" PROVE FALSE
    <3>1. n = This
      BY <2>2 DEF Entries
    <3>2. This > 0
      BY <2>1, <2>2
    <3> QED
      BY <2>1, <2>2, <3>1, <3>2
  <2> QED
    BY <2>1, <2>2
<1>5. This' = This + 1 /\ log'[This + 1] = entry /\ \A n \in 1..This : log'[n] = log[n]
  BY <1>3, AppendAny DEF IInv, Shapes, This
<1>6. Calls!Ask
  BY <1>1, <1>3, <1>4 DEF Calls!Ask, Calls!Open, This
<1>7. Entries'
  <2>1. ASSUME NEW n \in 1..(This + 1)
        PROVE  /\ DecodedWell(log'[n])
               /\ log'[n] = [req |-> log'[n].req, done |-> log'[n].done, out |-> log'[n].out, value |-> log'[n].value]
               /\ log'[n].done # << >> => log'[n].done[1].answer \in AnswersTo(log'[n].req.type)
               /\ log'[n].out = "open" => n = This + 1 /\ log'[n].value = << >>
    <3>1. CASE n = This + 1
      <4>1. DecodedWell(entry)
        BY <1>1 DEF DecodedWell
      <4> QED
        BY <1>1, <1>5, <3>1, <4>1
    <3>2. CASE n \in 1..This
      BY <1>4, <1>5, <3>2 DEF Entries
    <3> QED
      BY <1>4, <3>1, <3>2
  <2> QED
    BY <1>5, <2>1 DEF Entries
<1>8. Frames'
  <2>1. /\ \A i \in 1..Len(toServer) :
             LET r == log'[toServer[i].call].req
             IN  toServer[i].type = r.type /\ toServer[i].read = RequestRead[r]
        /\ \A i \in 1..Len(toClient) :
             LET call == toClient[i].call
             IN  toClient[i] = Reply(log'[call].req.type, toClient[i].tag, call, log'[call].done[1].answer)
    BY <1>5, OldFrames
  <2>2. \A i \in 1..Len(toServer') :
          \/ i \in 1..Len(toServer) /\ toServer'[i] = toServer[i]
          \/ toServer'[i] = frame
    <3>1. CASE up
      BY <1>3, <1>4, <3>1, AppendAny DEF IInv, Shapes
    <3> QED
      BY <1>3, <3>1
  <2>3. frame.type = req.type /\ frame.read = RequestRead[req] /\ log'[frame.call].req = req
    BY <1>1, <1>2, <1>5
  <2>4. ASSUME NEW i \in 1..Len(toServer')
        PROVE  LET r == log'[toServer'[i].call].req
               IN  toServer'[i].type = r.type /\ toServer'[i].read = RequestRead[r]
    BY <2>1, <2>2, <2>3
  <2> QED
    BY <1>3, <2>1, <2>4 DEF Frames
<1> QED
  BY <1>6, <1>7, <1>8

\* A call that ends, whatever it takes from the stream.
LEMMA EndKeepsCalls ==
  ASSUME CallInv, pc = "waiting", NEW out \in {"ok", "failed", "mismatched"}, NEW value, Ends(out, value),
         out = "ok" => Answered(log[This]), UNCHANGED toServer, toClient' = toClient \/ (toClient # << >> /\ toClient' = Tail(toClient))
  PROVE  /\ Entries' /\ Frames'
         /\ This \in 1..Len(log) /\ log[This].out = "open" /\ log[This].value = << >>
         /\ log' = [log EXCEPT ![This] = [log[This] EXCEPT !.out = out, !.value = value]]
         /\ log'[This].value = value
<1> USE DEF CallInv
<1>1. This \in Nat \ {0} /\ This \in 1..This /\ This \in 1..Len(log) /\ log[This].out = "open" /\ Len(toClient) \in Nat
  BY Numbers DEF This
<1>2. PICK old : old = log[This]
  OBVIOUS
<1>3. /\ old = [req |-> old.req, done |-> old.done, out |-> old.out, value |-> old.value]
      /\ old.value = << >> /\ (old.done # << >> => old.done[1].answer \in AnswersTo(old.req.type))
  BY <1>1, <1>2 DEF Entries
<1>4. PICK entry : entry = [old EXCEPT !.out = out, !.value = value]
  OBVIOUS
<1>5. entry = [req |-> old.req, done |-> old.done, out |-> out, value |-> value]
  BY <1>3, <1>4
<1>6. log' = [log EXCEPT ![This] = entry] /\ DecodedWell(entry)
  <2>1. log' = [log EXCEPT ![This] = entry]
    BY <1>2, <1>4 DEF Ends
  <2>2. DecodedWell(old)
    BY <1>1, <1>2 DEF Entries
  <2>3. out = "ok" => Answered(old)
    BY <1>2
  <2>4. Answered(old) => Answered(entry)
    BY <1>5 DEF Answered
  <2>5. old.done # << >> => Understood(entry, entry.done[1])
    BY <1>5, <2>2 DEF DecodedWell, Understood
  <2> QED
    BY <1>5, <2>1, <2>3, <2>4, <2>5 DEF DecodedWell
<1>7. This' = This /\ log'[This] = entry /\ \A n \in 1..This : n # This => log'[n] = log[n]
  <2>1. PICK n : n = This
    OBVIOUS
  <2>2. IsSeq(log) /\ n \in 1..Len(log) /\ log' = [log EXCEPT ![n] = entry]
    BY <1>1, <1>6, <2>1 DEF IInv, Shapes
  <2>3. Len(log') = Len(log) /\ log'[n] = entry /\ \A i \in 1..Len(log) : i # n => log'[i] = log[i]
    BY <2>2, ExceptAny
  <2> QED
    BY <2>1, <2>3 DEF This
<1>8. Entries'
  <2>1. ASSUME NEW n \in 1..This
        PROVE  /\ DecodedWell(log'[n])
               /\ log'[n] = [req |-> log'[n].req, done |-> log'[n].done, out |-> log'[n].out, value |-> log'[n].value]
               /\ log'[n].done # << >> => log'[n].done[1].answer \in AnswersTo(log'[n].req.type)
               /\ log'[n].out = "open" => n = This /\ log'[n].value = << >>
    <3>1. CASE n = This
      BY <1>3, <1>5, <1>6, <1>7, <3>1
    <3>2. CASE n # This
      BY <1>7, <3>2 DEF Entries
    <3> QED
      BY <3>1, <3>2
  <2> QED
    BY <1>7, <2>1 DEF Entries
<1>9. Frames'
  <2>1. \A n \in 1..This : log'[n].req = log[n].req /\ log'[n].done = log[n].done
    BY <1>2, <1>5, <1>7
  <2>2. /\ \A i \in 1..Len(toServer) :
             LET r == log'[toServer[i].call].req
             IN  toServer[i].type = r.type /\ toServer[i].read = RequestRead[r]
        /\ \A i \in 1..Len(toClient) :
             LET call == toClient[i].call
             IN  toClient[i] = Reply(log'[call].req.type, toClient[i].tag, call, log'[call].done[1].answer)
    BY <2>1, OldFrames
  <2>3. \A i \in 1..Len(toClient') : \E j \in 1..Len(toClient) : toClient'[i] = toClient[j]
    <3>1. CASE toClient' = toClient
      BY <3>1
    <3>2. CASE toClient # << >> /\ toClient' = Tail(toClient)
      <4>1. /\ Len(toClient') = Len(toClient) - 1
            /\ \A i \in 1..(Len(toClient) - 1) : toClient'[i] = toClient[i + 1]
        BY <3>2, TailAny DEF IInv, Shapes
      <4>2. \A i \in 1..(Len(toClient) - 1) : i + 1 \in 1..Len(toClient)
        BY <1>1
      <4> QED
        BY <4>1, <4>2
    <3> QED
      BY <3>1, <3>2
  <2>4. ASSUME NEW i \in 1..Len(toClient')
        PROVE  LET call == toClient'[i].call
               IN  toClient'[i] = Reply(log'[call].req.type, toClient'[i].tag, call, log'[call].done[1].answer)
    BY <2>2, <2>3
  <2> QED
    BY <2>2, <2>4 DEF Frames
<1> QED
  BY <1>1, <1>2, <1>3, <1>4, <1>5, <1>6, <1>7, <1>8, <1>9

\* An answer that is sent, to a call that has it.
LEMMA ReplyKeepsFrames ==
  ASSUME CallInv, This' = This, NEW call \in 1..This, NEW tag,
         \A n \in 1..This : log'[n].req = log[n].req /\ (log[n].done # << >> => log'[n].done = log[n].done),
         toClient' = Append(toClient, Reply(log'[call].req.type, tag, call, log'[call].done[1].answer)),
         toServer' = toServer \/ (toServer # << >> /\ toServer' = Tail(toServer))
  PROVE  Frames'
<1> USE DEF CallInv
<1>1. /\ \A i \in 1..Len(toServer) :
           LET r == log'[toServer[i].call].req
           IN  toServer[i].type = r.type /\ toServer[i].read = RequestRead[r]
      /\ \A i \in 1..Len(toClient) :
           LET c == toClient[i].call
           IN  toClient[i] = Reply(log'[c].req.type, toClient[i].tag, c, log'[c].done[1].answer)
  BY OldFrames
<1>2. \A i \in 1..Len(toServer') : \E j \in 1..Len(toServer) : toServer'[i] = toServer[j]
  <2>1. CASE toServer' = toServer
    BY <2>1
  <2>2. CASE toServer # << >> /\ toServer' = Tail(toServer)
    <3>1. /\ Len(toServer') = Len(toServer) - 1 /\ Len(toServer) \in Nat
          /\ \A i \in 1..(Len(toServer) - 1) : toServer'[i] = toServer[i + 1]
      BY <2>2, TailAny DEF IInv, Shapes
    <3>2. \A i \in 1..(Len(toServer) - 1) : i + 1 \in 1..Len(toServer)
      BY <3>1
    <3> QED
      BY <3>1, <3>2
  <2> QED
    BY <2>1, <2>2
<1>3. PICK reply : reply = Reply(log'[call].req.type, tag, call, log'[call].done[1].answer)
  OBVIOUS
<1>4. reply.call = call /\ reply.tag = tag /\ toClient' = Append(toClient, reply)
  BY <1>3, ReplyFields
<1>5. \A i \in 1..Len(toClient') : (i \in 1..Len(toClient) /\ toClient'[i] = toClient[i]) \/ toClient'[i] = reply
  BY <1>4, AppendAny DEF IInv, Shapes
<1>6. ASSUME NEW i \in 1..Len(toClient')
      PROVE  LET c == toClient'[i].call
             IN  toClient'[i] = Reply(log'[c].req.type, toClient'[i].tag, c, log'[c].done[1].answer)
  <2>1. CASE toClient'[i] = reply
    BY <1>3, <1>4, <2>1
  <2>2. CASE i \in 1..Len(toClient) /\ toClient'[i] = toClient[i]
    BY <1>1, <2>2
  <2> QED
    BY <1>5, <2>1, <2>2
<1>7. ASSUME NEW i \in 1..Len(toServer')
      PROVE  LET r == log'[toServer'[i].call].req
             IN  toServer'[i].type = r.type /\ toServer'[i].read = RequestRead[r]
  BY <1>1, <1>2
<1> QED
  BY <1>6, <1>7 DEF Frames

\* A connection that is closed leaves the calls as they are.
LEMMA CloseKeepsCalls ==
  ASSUME CallInv, Close
  PROVE  Entries' /\ Frames' /\ UNCHANGED log
<1> USE DEF CallInv
<1>1. log' = log /\ This' = This /\ toServer' = << >> /\ (toClient' = toClient \/ toClient' = << >>)
  BY DEF Close, This
<1>2. Entries'
  BY <1>1 DEF Entries
<1>3. Frames'
  BY <1>1, EmptyAny DEF Frames
<1> QED
  BY <1>1, <1>2, <1>3

\* So does a reply that goes out once more.
LEMMA SendAgainKeepsCalls ==
  ASSUME CallInv, SendAgain
  PROVE  Entries' /\ Frames' /\ UNCHANGED log
<1> USE DEF CallInv
<1>1. PICK call, tag :
        /\ call = Served /\ tag = (next_tag + TagModulus - 1 - Len(toServer)) % TagModulus
  OBVIOUS
<1>2. /\ log' = log /\ This' = This /\ toServer' = toServer /\ call > 0
      /\ toClient' = Append(toClient, Reply(log'[call].req.type, tag, call, log'[call].done[1].answer))
  BY <1>1 DEF SendAgain, This
<1>3. call \in 1..This
  BY <1>1, <1>2, Numbers DEF Served
<1>4. Frames'
  BY <1>2, <1>3, ReplyKeepsFrames
<1>5. Entries'
  BY <1>2 DEF Entries
<1> QED
  BY <1>2, <1>4, <1>5

\* The server takes up a call: the one that the first request in the stream belongs to.
LEMMA RespondExecutes ==
  ASSUME CallInv, toServer # << >>, NEW understood, NEW answer \in AnswersTo(Head(toServer).type),
         \/ Head(toServer).read.ok /\ understood = Head(toServer).read.got
         \/ understood = << >> /\ (answer = ErrorAnswer \/ Head(toServer).type \in NeverRead),
         Respond(understood, answer)
  PROVE  Entries' /\ Frames' /\ \E n \in 1..Len(log) : Calls!Execute(n)
<1> USE DEF CallInv
<1>1. toServer # << >> /\ Head(toServer) = toServer[1] /\ 1 \in 1..Len(toServer)
  BY TailAny DEF IInv, Shapes
<1>2. PICK call, tag : call = toServer[1].call /\ tag = toServer[1].tag
  OBVIOUS
<1>3. PICK old : old = log[call]
  OBVIOUS
<1>4. /\ call \in 1..This /\ call \in 1..Len(log) /\ old.done = << >>
      /\ toServer[1].type = old.req.type /\ toServer[1].read = RequestRead[old.req]
      /\ answer \in AnswersTo(old.req.type)
  BY <1>1, <1>2, <1>3 DEF IInv, TypeOK, Frames, This
<1>5. /\ log' = [log EXCEPT ![call] = [log[call] EXCEPT !.done =
                   Append(@, [understood |-> understood, answer |-> answer])]]
      /\ toClient' = Append(toClient, Reply(old.req.type, tag, call, answer))
      /\ toServer' = Tail(toServer)
  BY <1>1, <1>2, <1>4 DEF Respond
<1>6. PICK done : done = Append(<< >>, [understood |-> understood, answer |-> answer])
  OBVIOUS
<1>7. Len(done) = 1 /\ done[1].answer = answer /\ done[1].understood = understood /\ done # << >>
  BY <1>6
<1>16. Understood(old, done[1])
  BY <1>1, <1>4, <1>7 DEF Understood
<1>8. PICK entry : entry = [old EXCEPT !.done = done]
  OBVIOUS
<1>9. /\ old = [req |-> old.req, done |-> old.done, out |-> old.out, value |-> old.value]
      /\ old.out = "open" => call = This /\ old.value = << >>
      /\ DecodedWell(old)
  BY <1>3, <1>4 DEF Entries
<1>10. entry = [req |-> old.req, done |-> done, out |-> old.out, value |-> old.value] /\ DecodedWell(entry)
  <2>1. entry = [req |-> old.req, done |-> done, out |-> old.out, value |-> old.value]
    BY <1>8, <1>9
  <2>2. old.out # "ok"
    BY <1>4, <1>9 DEF DecodedWell, Answered
  <2>3. Understood(entry, done[1])
    BY <1>16, <2>1 DEF Understood
  <2> QED
    BY <2>1, <2>2, <2>3 DEF DecodedWell
<1>11. log' = [log EXCEPT ![call] = entry]
  BY <1>3, <1>4, <1>5, <1>6, <1>8
<1>12. This' = This /\ log'[call] = entry /\ \A n \in 1..This : n # call => log'[n] = log[n]
  <2>1. IsSeq(log)
    BY DEF IInv, Shapes
  <2>2. Len(log') = Len(log) /\ log'[call] = entry /\ \A i \in 1..Len(log) : i # call => log'[i] = log[i]
    BY <1>4, <1>11, <2>1, ExceptAny
  <2> QED
    BY <2>2 DEF This
<1>13. Entries'
  <2>1. ASSUME NEW n \in 1..This
        PROVE  /\ DecodedWell(log'[n])
               /\ log'[n] = [req |-> log'[n].req, done |-> log'[n].done, out |-> log'[n].out, value |-> log'[n].value]
               /\ log'[n].done # << >> => log'[n].done[1].answer \in AnswersTo(log'[n].req.type)
               /\ log'[n].out = "open" => n = This /\ log'[n].value = << >>
    <3>1. CASE n = call
      BY <1>4, <1>7, <1>9, <1>10, <1>12, <3>1
    <3>2. CASE n # call
      BY <1>12, <3>2 DEF Entries
    <3> QED
      BY <3>1, <3>2
  <2> QED
    BY <1>12, <2>1 DEF Entries
<1>14. Frames'
  <2>1. \A n \in 1..This : log'[n].req = log[n].req /\ (log[n].done # << >> => log'[n].done = log[n].done)
    BY <1>3, <1>4, <1>10, <1>12
  <2>2. toClient' = Append(toClient, Reply(log'[call].req.type, tag, call, log'[call].done[1].answer))
    <3>1. log'[call].req.type = old.req.type
      BY <1>10, <1>12
    <3>2. log'[call].done[1].answer = answer
      BY <1>7, <1>10, <1>12
    <3> QED
      BY <1>5, <3>1, <3>2
  <2> QED
    BY <1>1, <1>4, <1>5, <1>12, <2>1, <2>2, ReplyKeepsFrames
<1>15. Calls!Execute(call)
  <2>1. ~Calls!Executed(call)
    BY <1>3, <1>4 DEF Calls!Executed
  <2>2. log' = [log EXCEPT ![call].done = log'[call].done] /\ Len(log'[call].done) = 1
    BY <1>3, <1>7, <1>8, <1>10, <1>11, <1>12
  <2>3. PICK req, d : req = log[call].req /\ d = log'[call].done[1]
    OBVIOUS
  <2>4. req = old.req /\ d = done[1] /\ req \in Requests
    BY <1>3, <1>4, <1>10, <1>12, <2>3 DEF IInv, TypeOK
  <2>5. CASE RequestRead[req].ok /\ d.understood = RequestRead[req].got
    <3>1. AllCounted(RequestFormat[req.type], req.values) => d.understood = req.values
      BY <2>4, <2>5, BodiesRoundTrip DEF RoundTrips
    <3>2. Calls!AllCounted(Calls!RequestFormat[req.type], req.values) => d.understood = req.values
      BY <3>1, SameCodec
    <3> QED
      BY <2>1, <2>2, <2>3, <3>2 DEF Calls!Execute
  <2>6. CASE d.understood = << >> /\ (d.answer = ErrorAnswer \/ req.type \in NeverRead)
    <3>1. d.answer.error \/ req.type \in Calls!Granted
      BY <2>6 DEF ErrorAnswer, NeverRead, Calls!Granted
    <3> QED
      BY <2>1, <2>2, <2>3, <2>6, <3>1 DEF Calls!Execute
  <2> QED
    BY <1>16, <2>4, <2>5, <2>6 DEF Understood
<1> QED
  BY <1>4, <1>13, <1>14, <1>15

\* Each thing that the server may do with the first request in the stream.
LEMMA ServerExecutes ==
  ASSUME CallInv, Serve \/ Refuse \/ Acknowledge \/ Drop
  PROVE  Entries' /\ Frames' /\ (UNCHANGED log \/ \E n \in 1..Len(log) : Calls!Execute(n))
<1>1. CASE Drop
  BY <1>1, CloseKeepsCalls DEF Drop
<1>2. CASE Serve
  BY <1>2, RespondExecutes DEF Serve
<1>3. CASE Refuse
  <2>1. ErrorAnswer \in AnswersTo(Head(toServer).type)
    BY DEF AnswersTo
  <2> QED
    BY <1>3, <2>1, RespondExecutes DEF Refuse
<1>4. CASE Acknowledge
  <2>1. OkAnswers(Head(toServer).type) \subseteq AnswersTo(Head(toServer).type)
    BY DEF AnswersTo
  <2> QED
    BY <1>4, <2>1, RespondExecutes DEF Acknowledge
<1> QED
  BY <1>1, <1>2, <1>3, <1>4

\* The client takes the answer to its last call, or fails.
LEMMA ReceiveEnds ==
  ASSUME CallInv, Receive \/ EndOfStream
  PROVE  Entries' /\ Frames' /\ \E n \in 1..Len(log) : Calls!Succeed(n) \/ Calls!Fail(n)
<1> USE DEF CallInv
<1>1. PICK old : old = log[This]
  OBVIOUS
<1>2. /\ pc = "waiting" /\ This \in Nat /\ This \in 1..This /\ This \in 1..Len(log) /\ old.out = "open" /\ old.value = << >>
      /\ old = [req |-> old.req, done |-> old.done, out |-> old.out, value |-> old.value]
  <2>1. pc = "waiting" /\ This \in 1..This /\ log[This].out = "open" /\ This \in Nat
    BY Numbers DEF Receive, EndOfStream
  <2> QED
    BY <1>1, <2>1 DEF Entries, This
<1>3. ASSUME NEW out \in {"failed", "mismatched"}, Ends(out, << >>), UNCHANGED toServer,
             toClient' = toClient \/ (toClient # << >> /\ toClient' = Tail(toClient))
      PROVE  Entries' /\ Frames' /\ \E n \in 1..Len(log) : Calls!Succeed(n) \/ Calls!Fail(n)
  <2>1. Entries' /\ Frames' /\ log' = [log EXCEPT ![This] = [log[This] EXCEPT !.out = out, !.value = << >>]]
    BY <1>2, <1>3, EndKeepsCalls
  <2>2. [old EXCEPT !.out = out, !.value = << >>] = [old EXCEPT !.out = out]
    BY <1>2
  <2>3. log' = [log EXCEPT ![This].out = out]
    BY <1>1, <2>1, <2>2
  <2>4. Calls!Fail(This)
    BY <1>1, <1>2, <1>3, <2>3 DEF Calls!Fail, Calls!Open
  <2> QED
    BY <1>2, <2>1, <2>4
<1>4. CASE EndOfStream
  BY <1>3, <1>4 DEF EndOfStream
<1>5. CASE Receive
  <2>1. toClient # << >> /\ toClient' = Tail(toClient) /\ UNCHANGED toServer /\ Head(toClient) = toClient[1] /\ 1 \in 1..Len(toClient)
    BY <1>5, TailAny DEF Receive, IInv, Shapes
  <2>2. CASE toClient[1].tag # MyTag
    BY <1>3, <1>5, <2>1, <2>2 DEF Receive
  <2>3. CASE toClient[1].tag = MyTag
    <3>1. Accept(toClient[1])
      BY <1>5, <2>1, <2>3 DEF Receive
    <3>2. CASE Ends("failed", << >>)
      BY <1>3, <2>1, <3>2
    <3>3. CASE toClient[1].type = old.req.type /\ toClient[1].read.ok /\ Ends("ok", toClient[1].read.got)
      <4>1. PICK call, tag : call = toClient[1].call /\ tag = toClient[1].tag
        OBVIOUS
      <4>2. call = This
        <5>1. Tagged(call, tag) /\ This - strays - Waiting + 1 <= call
          BY <2>1, <4>1 DEF IInv, RepliesInOrder
        <5>2. PICK before \in Nat : before = strays
          BY Numbers
        <5>3. Waiting = 1 /\ before < TagModulus /\ TagModulus \in Nat
          BY <1>2, <5>2, Numbers
        <5>4. call \in 1..This
          BY <5>1 DEF Tagged
        <5>5. This - call < TagModulus
          BY <1>2, <5>1, <5>2, <5>3, <5>4
        <5> QED
          BY <2>3, <4>1, <5>1, <5>5, TagTells
      <4>3. PICK answer : answer = old.done[1].answer
        OBVIOUS
      <4>4. /\ old.done # << >> /\ answer \in AnswersTo(old.req.type) /\ old.req \in Requests
            /\ toClient[1] = Reply(old.req.type, tag, call, answer)
        <5>1. log[toClient[1].call].done # << >>
          BY <2>1 DEF IInv, TypeOK
        <5>2. old.done # << >>
          BY <1>1, <4>1, <4>2, <5>1
        <5>3. answer \in AnswersTo(old.req.type)
          BY <1>1, <1>2, <4>3, <5>2 DEF Entries
        <5>4. old.req \in Requests
          BY <1>1, <1>2 DEF IInv, TypeOK
        <5>5. toClient[1] = Reply(log[call].req.type, tag, call, log[call].done[1].answer)
          BY <2>1, <4>1 DEF Frames
        <5> QED
          BY <1>1, <4>2, <4>3, <5>2, <5>3, <5>4, <5>5
      <4>5. ~answer.error
        <5>1. old.req.type \in DOMAIN RequestFormat /\ "Rerror" \notin DOMAIN RequestFormat
          BY <4>4, ClientAssumption DEF RequestFormat
        <5>2. answer.error => toClient[1].type = "Rerror"
          BY <4>4 DEF Reply
        <5> QED
          BY <3>3, <5>1, <5>2
      <4>6. /\ old.req.type \in DOMAIN Answers /\ answer.values \in Answers[old.req.type]
            /\ toClient[1].read = AnswerRead[old.req.type][answer.values]
        <5>1. toClient[1].read = AnswerRead[old.req.type][answer.values]
          BY <4>4, <4>5 DEF Reply
        <5>2. answer.values \in Answers[old.req.type]
          BY <4>4, <4>5 DEF AnswersTo, OkAnswers, ErrorAnswer
        <5> QED
          BY <4>4, <5>1, <5>2, ClientAssumption
      <4>7. PICK value : value = toClient[1].read.got
        OBVIOUS
      <4>8. AllCounted(ReplyFormat[old.req.type], answer.values) => value = answer.values
        BY <3>3, <4>6, <4>7, BodiesRoundTrip DEF RoundTrips
      <4>9. /\ Entries' /\ Frames' /\ log'[This].value = value
            /\ log' = [log EXCEPT ![This] = [log[This] EXCEPT !.out = "ok", !.value = value]]
        <5>1. Answered(log[This])
          BY <1>1, <3>3, <4>3, <4>4, <4>5, <4>6 DEF Answered
        <5> QED
          BY <1>2, <2>1, <3>3, <4>7, <5>1, EndKeepsCalls
      <4>10. Calls!Succeed(This)
        <5>1. Calls!Open(This) /\ Calls!Executed(This)
          BY <1>1, <1>2, <4>4 DEF Calls!Open, Calls!Executed
        <5>2. log' = [log EXCEPT ![This].out = "ok", ![This].value = log'[This].value]
          BY <1>2, <4>9
        <5>3. Calls!AllCounted(Calls!ReplyFormat[log[This].req.type], answer.values) => log'[This].value = answer.values
          BY <1>1, <4>8, <4>9, SameCodec
        <5> QED
          BY <1>1, <4>3, <4>5, <5>1, <5>2, <5>3 DEF Calls!Succeed
      <4> QED
        BY <1>2, <4>9, <4>10
    <3> QED
      BY <1>1, <3>1, <3>2, <3>3 DEF Accept
  <2> QED
    BY <2>2, <2>3
<1> QED
  BY <1>4, <1>5

(***************************************************************************)
(* The calls: the theorems                                                 *)
(***************************************************************************)
\* Nothing is called, and nothing in the stream, at first.
LEMMA CallsStart ==
  ASSUME Init
  PROVE  CallInv /\ Calls!Init
<1>1. log = << >> /\ toServer = << >> /\ toClient = << >> /\ This = 0
  BY EmptyAny DEF Init, This
<1>2. Entries /\ Frames
  BY <1>1, EmptyAny DEF Entries, Frames
<1> QED
  BY <1>1, <1>2, ClientStarts DEF CallInv, Calls!Init

\* Every step of the client and the server is a step of P9Calls, or none.
LEMMA StepsOfCalls ==
  ASSUME CallInv, [Next]_vars
  PROVE  CallInv' /\ [Calls!Next]_log
<1>1. IInv'
  BY StepKeepsIInv DEF CallInv
<1>2. ASSUME This < Len(Asks), NEW req \in Asks[This + 1], Call(req) PROVE Entries' /\ Frames' /\ Calls!Ask
  <2>1. This + 1 \in 1..Len(Asks)
    BY <1>2, Numbers, ClientAssumption DEF CallInv
  <2>2. req \in Requests
    BY <2>1 DEF Requests
  <2> QED
    BY <1>2, <2>2, CallAsks
<1>3. CASE UNCHANGED vars
  <2>1. Entries' /\ Frames' /\ log' = log
    BY <1>3 DEF vars, CallInv, Entries, Frames, This
  <2> QED
    BY <1>1, <2>1 DEF CallInv
<1>4. CASE \E req \in Asks[This + 1] : This < Len(Asks) /\ Call(req)
  BY <1>1, <1>2, <1>4 DEF CallInv, Calls!Next
<1>5. CASE Receive \/ EndOfStream
  BY <1>1, <1>5, ReceiveEnds DEF CallInv, Calls!Next
<1>6. CASE Serve \/ Refuse \/ Acknowledge \/ Drop
  BY <1>1, <1>6, ServerExecutes DEF CallInv, Calls!Next
<1>7. CASE SendAgain
  BY <1>1, <1>7, SendAgainKeepsCalls DEF CallInv
<1>8. CASE HangUp
  BY <1>1, <1>8, CloseKeepsCalls DEF HangUp, CallInv
<1> QED
  BY <1>3, <1>4, <1>5, <1>6, <1>7, <1>8 DEF Next

\* Every P9Client keeps the promise of P9Calls, whatever the server answers and sends twice: a
\* call is executed at most once, succeeds only with what its own execution answered, and is
\* understood as it was meant where its lengths are not cut.
THEOREM ClientKeepsPromise == Spec => KeepsPromise
<1>1. Init => CallInv /\ Calls!Init
  BY CallsStart
<1>2. CallInv /\ [Next]_vars => CallInv' /\ [Calls!Next]_log
  BY StepsOfCalls
<1> QED
  BY <1>1, <1>2, PTL DEF Spec, KeepsPromise, Calls!Spec

\* A stat that is too long for its length is not decoded, wherever it is the field of a body.
LEMMA LongStatIsRefused ==
  ASSUME CallInv, NEW n \in 1..This
  PROVE  /\ (/\ log[n].req.type = "Twstat" /\ log[n].done # << >>
             /\ Counted("stat", log[n].req.values[2]) /\ Len(StatBuf(log[n].req.values[2])) >= LengthModulus)
              => log[n].done[1].understood = << >> /\ log[n].done[1].answer = ErrorAnswer
         /\ (log[n].req.type = "Tstat" /\ log[n].out = "ok" /\ Counted("stat", log[n].done[1].answer.values[1]))
              => ~(Len(StatBuf(log[n].done[1].answer.values[1])) >= LengthModulus)
<1>1. PICK entry : entry = log[n]
  OBVIOUS
<1>2. /\ DecodedWell(entry) /\ entry.req \in Requests
      /\ entry.done # << >> => entry.done[1].answer \in AnswersTo(entry.req.type)
  BY <1>1 DEF CallInv, Entries, IInv, TypeOK, This
<1>3. ASSUME entry.req.type = "Twstat", entry.done # << >>, Counted("stat", entry.req.values[2]),
             Len(StatBuf(entry.req.values[2])) >= LengthModulus
      PROVE  entry.done[1].understood = << >> /\ entry.done[1].answer = ErrorAnswer
  <2> SUFFICES ASSUME RequestRead[entry.req].ok PROVE FALSE
    BY <1>2, <1>3 DEF DecodedWell, Understood, NeverRead
  <2>1. PICK format, values : format = RequestFormat[entry.req.type] /\ values = entry.req.values
    OBVIOUS
  <2>2. format = <<"number", "stat">>
    BY <1>3, <2>1 DEF RequestFormat
  <2>3. format \in Seq(Kinds) /\ Fit(format, values) /\ Read(format, values).ok
    BY <1>2, <1>3, <2>1, ValuesFit
  <2>4. AllCounted(format, values)
    <3>1. Counted("number", values[1])
      BY DEF Counted
    <3> QED
      BY <1>3, <2>1, <2>2, <3>1 DEF AllCounted
  <2>5. 2 \in 1..Len(format) /\ format[2] = "stat"
    BY <2>2
  <2> HIDE <2>2
  <2>6. ~(Len(StatBuf(entry.req.values[2])) >= LengthModulus)
    BY <2>1, <2>3, <2>4, <2>5, BodyRead
  <2> QED
    BY <1>3, <2>6
<1>4. ASSUME entry.req.type = "Tstat", entry.out = "ok", Counted("stat", entry.done[1].answer.values[1])
      PROVE  ~(Len(StatBuf(entry.done[1].answer.values[1])) >= LengthModulus)
  <2>1. PICK answer, values : answer = entry.done[1].answer /\ values = answer.values
    OBVIOUS
  <2>2. answer \in AnswersTo("Tstat") /\ ~answer.error /\ AnswerRead["Tstat"][values].ok
    BY <1>2, <1>4, <2>1 DEF DecodedWell, Answered
  <2>3. "Tstat" \in DOMAIN Answers /\ values \in Answers["Tstat"]
    <3>1. "Tstat" \in DOMAIN Answers
      BY <1>2, <1>4, ClientAssumption
    <3>2. answer # ErrorAnswer
      BY <2>2 DEF ErrorAnswer
    <3> QED
      BY <2>1, <2>2, <3>1, <3>2 DEF AnswersTo, OkAnswers
  <2>4. PICK format : format = ReplyFormat["Tstat"]
    OBVIOUS
  <2>5. format = <<"stat">>
    BY <2>4 DEF ReplyFormat
  <2>6. format \in Seq(Kinds) /\ Fit(format, values) /\ Read(format, values).ok
    BY <2>2, <2>3, <2>4, ValuesFit
  <2>7. AllCounted(format, values)
    BY <1>4, <2>1, <2>5 DEF AllCounted
  <2>8. 1 \in 1..Len(format) /\ format[1] = "stat"
    BY <2>5
  <2> HIDE <2>5
  <2> QED
    BY <2>1, <2>6, <2>7, <2>8, BodyRead
<1> QED
  BY <1>1, <1>3, <1>4

\* A stat whose own length is cut, while those of its strings are not, is never taken for
\* another: a server does nothing that such a Twstat asks for, and answers it with Rerror if
\* at all; and no client succeeds with such an answer to a Tstat.  The strings end behind the end that the length gives, and DecodeStat stops there.
THEOREM NoCutStatIsTaken == Spec => []CutStatsAreRefused
<1>1. CallInv => CutStatsAreRefused
  <2> SUFFICES ASSUME CallInv, NEW n \in 1..Len(log)
               PROVE  /\ (/\ log[n].req.type = "Twstat"
                          /\ Counted("stat", log[n].req.values[2]) /\ Len(StatBuf(log[n].req.values[2])) >= LengthModulus
                          /\ log[n].done # << >>)
                           => log[n].done[1].understood = << >> /\ log[n].done[1].answer = ErrorAnswer
                      /\ (log[n].req.type = "Tstat" /\ log[n].out = "ok")
                           => ~(/\ Counted("stat", log[n].done[1].answer.values[1])
                                /\ Len(StatBuf(log[n].done[1].answer.values[1])) >= LengthModulus)
    BY DEF CutStatsAreRefused
  <2>1. n \in 1..This
    BY DEF This
  <2> QED
    BY <2>1, LongStatIsRefused
<1>2. Spec => []CallInv
  BY CallsStart, StepsOfCalls, PTL DEF Spec
<1> QED
  BY <1>1, <1>2, PTL
==============================================================================
