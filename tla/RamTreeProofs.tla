---------------------------- MODULE RamTreeProofs ----------------------------
(***************************************************************************)
(* What the operations of RamTree do to a tree, for every set of names,    *)
(* every tree and every path: they keep it a tree.                         *)
(***************************************************************************)
EXTENDS RamTree, SequenceTheorems, FunctionTheorems, FiniteSetTheorems, TLAPS

(***************************************************************************)
(* Paths, name by name                                                     *)
(***************************************************************************)
\* The prefixes of a path are the paths that agree with it as far as they go.
LEMMA PrefixesPointwise ==
  ASSUME NEW N, NEW p \in Seq(N), NEW q
  PROVE  q \in Prefixes(p) <=>
           q \in Seq(N) /\ Len(q) <= Len(p) /\ \A i \in 1..Len(q) : q[i] = p[i]
<1>1. ASSUME q \in Prefixes(p)
      PROVE  q \in Seq(N) /\ Len(q) <= Len(p) /\ \A i \in 1..Len(q) : q[i] = p[i]
  <2>1. PICK l \in 0..Len(p) : q = SubSeq(p, 1, l)
    BY <1>1 DEF Prefixes
  <2>2. \A i \in 1..l : p[i] \in N
    BY ElementOfSeq
  <2> QED
    BY <2>1, <2>2, SubSeqProperties
<1>2. ASSUME q \in Seq(N), Len(q) <= Len(p), \A i \in 1..Len(q) : q[i] = p[i]
      PROVE  q \in Prefixes(p)
  <2>1. \A i \in 1..Len(q) : p[i] \in N
    BY <1>2, ElementOfSeq
  <2>2. /\ SubSeq(p, 1, Len(q)) \in Seq(N)
        /\ Len(SubSeq(p, 1, Len(q))) = Len(q)
        /\ \A i \in 1..Len(q) : SubSeq(p, 1, Len(q))[i] = p[i]
    BY <1>2, <2>1, LenProperties, SubSeqProperties
  <2>3. q = SubSeq(p, 1, Len(q))
    BY <1>2, <2>2, SeqEqual
  <2>4. Len(q) \in 0..Len(p)
    BY <1>2, LenProperties
  <2> QED
    BY <2>3, <2>4 DEF Prefixes
<1> QED
  BY <1>1, <1>2

\* IsPrefix, name by name.
LEMMA IsPrefixPointwise ==
  ASSUME NEW N, NEW p \in Seq(N), NEW q \in Seq(N)
  PROVE  IsPrefix(p, q) <=> Len(p) <= Len(q) /\ \A i \in 1..Len(p) : p[i] = q[i]
<1>1. /\ Len(p) \in Nat
      /\ Len(q) \in Nat
      /\ \A i \in 1..Len(p) : p[i] \in N
      /\ \A i \in 1..Len(q) : q[i] \in N
  BY LenProperties, ElementOfSeq
<1>2. SubSeq(p, 1, Len(p)) = p
  BY SubSeqFull
<1>3. CASE Len(p) <= Len(q)
  <2>1. /\ SubSeq(q, 1, Len(p)) \in Seq(N)
        /\ Len(SubSeq(q, 1, Len(p))) = Len(p)
        /\ \A i \in 1..Len(p) : SubSeq(q, 1, Len(p))[i] = q[i]
    BY <1>1, <1>3, SubSeqProperties
  <2> QED
    BY <1>2, <1>3, <2>1, SeqEqual DEF IsPrefix
<1> QED
  BY <1>3 DEF IsPrefix

(***************************************************************************)
(* Trees                                                                   *)
(***************************************************************************)
InodeOver(N) == [name : N \cup {"/"}, dir : BOOLEAN, data : Seq(Byte)]

IsTree(N, t) ==
  /\ DOMAIN t \subseteq Seq(N)
  /\ \A p \in DOMAIN t : t[p] \in InodeOver(N)
  /\ Root \in DOMAIN t
  /\ PrefixClosed(t)
  /\ NamedByKey(t)

\* A root with files in it is a tree.
LEMMA SeedIsTree ==
  ASSUME NEW N, NEW S \in SUBSET N, NEW data \in Seq(Byte), NEW t,
         t = [p \in {Root} \cup {<<n>> : n \in S} |->
                IF p = Root THEN Dir("/") ELSE WithData(File(Last(p)), data)]
  PROVE  IsTree(N, t)
<1>1. /\ DOMAIN t = {Root} \cup {<<n>> : n \in S}
      /\ t[Root] = Dir("/")
      /\ \A n \in S : t[<<n>>] = WithData(File(n), data)
  <2>1. \A n \in S : <<n>> # Root /\ Last(<<n>>) = n
    BY DEF Root, Last
  <2> QED
    BY <2>1
<1>2. \A p \in DOMAIN t : t[p] \in InodeOver(N)
  <2>1. Dir("/") \in InodeOver(N)
    BY EmptySeq DEF Dir, InodeOver
  <2>2. ASSUME NEW n \in S PROVE WithData(File(n), data) \in InodeOver(N)
    BY DEF WithData, File, InodeOver
  <2> QED
    BY <1>1, <2>1, <2>2
<1>3. PrefixClosed(t)
  <2> SUFFICES ASSUME NEW p \in DOMAIN t, NEW q \in Prefixes(p) PROVE q \in DOMAIN t
    BY DEF PrefixClosed
  <2>1. p \in Seq(N) /\ Len(p) \in {0, 1}
    <3>1. << >> \in Seq(N) /\ Len(<< >>) = 0
      BY EmptySeq
    <3>2. \A n \in N : <<n>> \in Seq(N) /\ Len(<<n>>) = 1
      OBVIOUS
    <3> QED
      BY <1>1, <3>1, <3>2 DEF Root
  <2>2. q \in Seq(N) /\ Len(q) <= Len(p) /\ \A i \in 1..Len(q) : q[i] = p[i]
    BY <2>1, PrefixesPointwise
  <2>3. CASE Len(q) = 0
    BY <1>1, <2>2, <2>3, EmptySeq DEF Root
  <2>4. CASE Len(q) = Len(p)
    BY <2>1, <2>2, <2>4, SeqEqual
  <2> QED
    BY <2>1, <2>2, <2>3, <2>4, LenProperties
<1>4. NamedByKey(t)
  <2>1. \A n \in S : t[<<n>>].name = n
    <3>1. \A n \in S : WithData(File(n), data).name = n
      BY DEF WithData, File
    <3> QED
      BY <1>1, <3>1
  <2>2. \A n \in S : Last(<<n>>) = n
    BY DEF Last
  <2>3. ASSUME NEW p \in DOMAIN t, p # Root PROVE t[p].name = Last(p)
    <3>1. PICK n \in S : p = <<n>>
      BY <1>1, <2>3
    <3> QED
      BY <2>1, <2>2, <3>1
  <2> QED
    BY <2>3 DEF NamedByKey
<1>5. DOMAIN t \subseteq Seq(N)
  <2>1. << >> \in Seq(N) /\ \A n \in N : <<n>> \in Seq(N)
    BY EmptySeq
  <2> QED
    BY <1>1, <2>1 DEF Root
<1> QED
  BY <1>1, <1>2, <1>3, <1>4, <1>5 DEF IsTree

\* create_dir makes a tree from a tree, and the path exists in it.
LEMMA CreateDirKeepsTree ==
  ASSUME NEW N, NEW t, IsTree(N, t), NEW p \in Seq(N)
  PROVE  IsTree(N, CreateDir(t, p)) /\ p \in DOMAIN CreateDir(t, p)
<1> DEFINE u == CreateDir(t, p)
<1>1. DOMAIN u = DOMAIN t \cup Prefixes(p)
  BY DEF CreateDir
<1>2. \A q \in DOMAIN t : u[q] = t[q]
  BY DEF CreateDir
<1>3. \A q \in Prefixes(p) \ DOMAIN t : u[q] = Dir(Last(q)) /\ Last(q) \in N /\ q \in Seq(N)
  <2> SUFFICES ASSUME NEW q \in Prefixes(p) \ DOMAIN t
               PROVE  u[q] = Dir(Last(q)) /\ Last(q) \in N /\ q \in Seq(N)
    OBVIOUS
  <2>1. q \in Seq(N)
    BY PrefixesPointwise
  <2>2. q # << >>
    BY DEF IsTree, Root
  <2>3. Len(q) \in 1..Len(q)
    BY <2>1, <2>2, EmptySeq
  <2> QED
    BY <2>1, <2>3, ElementOfSeq DEF CreateDir, Last
<1>4. \A q \in DOMAIN u : u[q] \in InodeOver(N)
  <2>1. << >> \in Seq(Byte)
    OBVIOUS
  <2>2. \A q \in DOMAIN t : u[q] \in InodeOver(N)
    BY <1>2 DEF IsTree
  <2>3. ASSUME NEW q \in Prefixes(p) \ DOMAIN t
        PROVE  u[q] \in InodeOver(N)
    <3>1. u[q] = [name |-> Last(q), dir |-> TRUE, data |-> << >>]
      BY <1>3 DEF Dir
    <3>2. Last(q) \in N \cup {"/"}
      BY <1>3
    <3> QED
      BY <2>1, <3>1, <3>2 DEF InodeOver
  <2> QED
    BY <1>1, <2>2, <2>3
<1>5. PrefixClosed(u)
  <2>1. \A q \in Prefixes(p) : Prefixes(q) \subseteq Prefixes(p)
    BY PrefixesPointwise, LenProperties
  <2> QED
    BY <1>1, <2>1 DEF IsTree, PrefixClosed
<1>6. NamedByKey(u)
  BY <1>1, <1>2, <1>3 DEF IsTree, NamedByKey, Dir
<1>7. p \in DOMAIN u
  BY <1>1, PrefixesPointwise, LenProperties
<1>8. DOMAIN u \subseteq Seq(N)
  BY <1>1, <1>3 DEF IsTree
<1> QED
  BY <1>1, <1>4, <1>5, <1>6, <1>7, <1>8 DEF IsTree

\* Dropping an Inode other than the root, with all below it, leaves a tree.
LEMMA WithoutKeepsTree ==
  ASSUME NEW N, NEW t, IsTree(N, t), NEW p \in Seq(N), p # Root
  PROVE  IsTree(N, Without(t, p)) /\ p \notin DOMAIN Without(t, p)
<1> DEFINE u == Without(t, p)
<1>1. /\ DOMAIN u = DOMAIN t \ Below(t, p)
      /\ \A q \in DOMAIN u : u[q] = t[q]
  BY DEF Without
<1>2. Root \notin Below(t, p)
  <2>1. << >> \in Seq(N) /\ Len(<< >>) = 0
    BY EmptySeq
  <2>2. Len(p) \in Nat \ {0}
    BY EmptySeq DEF Root
  <2>3. ~IsPrefix(p, << >>)
    BY <2>1, <2>2 DEF IsPrefix
  <2> QED
    BY <2>3 DEF Below, Root
<1>3. \A q \in DOMAIN u : Prefixes(q) \subseteq DOMAIN u
  <2> SUFFICES ASSUME NEW q \in DOMAIN u, NEW r \in Prefixes(q)
               PROVE  r \notin Below(t, p) /\ r \in DOMAIN t
    BY <1>1
  <2>1. q \in Seq(N) /\ r \in DOMAIN t
    BY <1>1 DEF IsTree, PrefixClosed
  <2>2. r \in Seq(N)
    BY <2>1 DEF IsTree
  <2>3. ~IsPrefix(p, q)
    BY <1>1 DEF Below
  <2>4. ~IsPrefix(p, r)
    BY <2>1, <2>2, <2>3, IsPrefixPointwise, PrefixesPointwise, LenProperties
  <2> QED
    BY <2>1, <2>4 DEF Below
<1>4. p \notin DOMAIN u
  BY <1>1, IsPrefixPointwise, LenProperties DEF Below
<1> QED
  BY <1>1, <1>2, <1>3, <1>4 DEF IsTree, PrefixClosed, NamedByKey

\* Other contents under the name an Inode has make a tree of a tree.
LEMMA ReplaceKeepsTree ==
  ASSUME NEW N, NEW t, IsTree(N, t), NEW p \in DOMAIN t, NEW node \in InodeOver(N),
         p = Root \/ node.name = Last(p)
  PROVE  IsTree(N, [t EXCEPT ![p] = node])
<1> DEFINE u == [t EXCEPT ![p] = node]
<1>1. /\ DOMAIN u = DOMAIN t
      /\ \A q \in DOMAIN t : u[q] = IF q = p THEN node ELSE t[q]
  OBVIOUS
<1>2. \A q \in DOMAIN u : u[q] \in InodeOver(N)
  BY <1>1 DEF IsTree
<1>3. NamedByKey(u)
  BY <1>1 DEF IsTree, NamedByKey
<1> QED
  BY <1>1, <1>2, <1>3 DEF IsTree, PrefixClosed

\* Inodes as create_dir and create_file make them.
LEMMA FreshInode ==
  ASSUME NEW N, NEW n \in N
  PROVE  Dir(n) \in InodeOver(N) /\ File(n) \in InodeOver(N)
<1>1. << >> \in Seq(Byte) /\ n \in N \cup {"/"}
  BY EmptySeq
<1> QED
  BY <1>1 DEF Dir, File, InodeOver

\* The last name of a path.
LEMMA LastIsName ==
  ASSUME NEW N, NEW p \in Seq(N), p # Root
  PROVE  Last(p) \in N
<1>1. Len(p) \in 1..Len(p)
  BY EmptySeq DEF Root
<1> QED
  BY <1>1, ElementOfSeq DEF Last

\* create_file makes a tree from a tree, and the path exists in it.
LEMMA CreateFileKeepsTree ==
  ASSUME NEW N, NEW t, IsTree(N, t), NEW p \in Seq(N)
  PROVE  IsTree(N, CreateFile(t, p)) /\ p \in DOMAIN CreateFile(t, p)
<1>1. CASE p = Root
  BY <1>1 DEF CreateFile, IsTree
<1>2. CASE p # Root
  <2> DEFINE u == CreateDir(Without(t, p), p)
  <2>1. IsTree(N, u) /\ p \in DOMAIN u
    BY <1>2, WithoutKeepsTree, CreateDirKeepsTree
  <2>2. File(Last(p)) \in InodeOver(N) /\ File(Last(p)).name = Last(p)
    BY <1>2, LastIsName, FreshInode DEF File
  <2>3. IsTree(N, [u EXCEPT ![p] = File(Last(p))])
    BY <2>1, <2>2, ReplaceKeepsTree
  <2> QED
    BY <1>2, <2>1, <2>3 DEF CreateFile
<1> QED
  BY <1>1, <1>2

\* remove makes a tree from a tree.
LEMMA RemovePathKeepsTree ==
  ASSUME NEW N, NEW t, IsTree(N, t), NEW p \in Seq(N)
  PROVE  IsTree(N, RemovePath(t, p).tree)
BY WithoutKeepsTree DEF RemovePath

\* A function on an initial segment of the numbers is a sequence.
LEMMA FunctionIsSeq ==
  ASSUME NEW S, NEW n \in Nat, NEW f \in [1..n -> S]
  PROVE  f \in Seq(S)
BY SeqDef

\* Vec::resize.
LEMMA ResizedIsData ==
  ASSUME NEW data \in Seq(Byte), NEW len \in Nat
  PROVE  Resized(data, len) \in Seq(Byte) /\ Len(Resized(data, len)) = len
<1>1. \A i \in 1..len : i <= Len(data) => data[i] \in Byte
  BY LenProperties, ElementOfSeq
<1>2. Resized(data, len) \in [1..len -> Byte]
  BY <1>1, TreeAssumption DEF Resized
<1> QED
  BY <1>2, SeqDef

\* write makes a tree from a tree, whether it succeeds, does nothing or panics.
LEMMA WriteAtKeepsTree ==
  ASSUME NEW N, NEW t, IsTree(N, t), NEW p \in Seq(N),
         NEW offset \in Nat, NEW bytes \in Seq(Byte)
  PROVE  IsTree(N, WriteAt(t, p, offset, bytes).tree)
<1> DEFINE sum     == offset + Len(bytes)
           end     == sum % Word
           old     == t[p].data
           grown   == IF end > Len(old) THEN Resized(old, end) ELSE old
           written == [i \in 1..Len(grown) |->
                         IF i \in (offset + 1)..end THEN bytes[i - offset] ELSE grown[i]]
<1>1. CASE p # Root /\ p \in DOMAIN t
  <2>1. old \in Seq(Byte)
    BY <1>1 DEF IsTree, InodeOver
  <2>2. sum \in Nat /\ end \in Nat /\ end <= sum
    <3>1. sum \in Nat /\ Word \in Nat \ {0}
      BY LenProperties, TreeAssumption
    <3>2. ASSUME NEW x \in Nat, NEW w \in Nat \ {0} PROVE x % w \in Nat /\ x % w <= x
      OBVIOUS
    <3> QED
      BY <3>1, <3>2
  <2>3. grown \in Seq(Byte)
    BY <2>1, <2>2, ResizedIsData
  <2>4. \A i \in 1..Len(grown) : grown[i] \in Byte
    BY <2>3, ElementOfSeq
  <2>5. \A i \in (offset + 1)..end : bytes[i - offset] \in Byte
    <3>1. \A i \in (offset + 1)..end : i - offset \in 1..Len(bytes)
      BY <2>2, LenProperties
    <3> QED
      BY <3>1, ElementOfSeq
  <2>6. written \in [1..Len(grown) -> Byte]
    BY <2>4, <2>5
  <2>7. written \in Seq(Byte)
    <3>1. Len(grown) \in Nat
      BY <2>3, LenProperties
    <3> HIDE DEF written, grown
    <3> QED
      BY <2>6, <3>1, FunctionIsSeq
  <2> HIDE DEF written
  <2>8. /\ WithData(t[p], written) \in InodeOver(N)
        /\ WithData(t[p], written).name = t[p].name
    BY <1>1, <2>7 DEF IsTree, InodeOver, WithData
  <2>9. IsTree(N, [t EXCEPT ![p] = WithData(t[p], written)])
    BY <1>1, <2>8, ReplaceKeepsTree DEF IsTree, NamedByKey
  <2> QED
    BY <2>9 DEF WriteAt, written
<1> QED
  BY <1>1 DEF WriteAt, Exists

\* Twstat on the root, where only the mode counts.
LEMMA RootStatKeepsTree ==
  ASSUME NEW N, NEW t, IsTree(N, t), NEW dir \in BOOLEAN
  PROVE  IsTree(N, [t EXCEPT ![Root] = WithDir(t[Root], dir)])
<1>1. Root \in DOMAIN t /\ t[Root] \in InodeOver(N)
  BY DEF IsTree
<1>2. WithDir(t[Root], dir) \in InodeOver(N)
  BY <1>1 DEF InodeOver, WithDir
<1> QED
  BY <1>1, <1>2, ReplaceKeepsTree

\* All names of a path but the last.
LEMMA FrontProperties ==
  ASSUME NEW N, NEW p \in Seq(N), p # Root
  PROVE  /\ Front(p) \in Seq(N) /\ Len(Front(p)) = Len(p) - 1
         /\ \A i \in 1..(Len(p) - 1) : Front(p)[i] = p[i]
<1>1. Len(p) \in Nat \ {0} /\ \A i \in 1..Len(p) : p[i] \in N
  BY EmptySeq, ElementOfSeq DEF Root
<1>2. Len(p) - 1 \in Int /\ \A i \in 1..(Len(p) - 1) : p[i] \in N
  BY <1>1
<1>3. /\ Front(p) \in Seq(N)
      /\ Len(Front(p)) = IF 1 <= Len(p) - 1 THEN Len(p) - 1 - 1 + 1 ELSE 0
      /\ \A i \in 1..(Len(p) - 1 - 1 + 1) : Front(p)[i] = p[1 + i - 1]
  BY <1>2, SubSeqProperties DEF Front
<1>4. Len(Front(p)) = Len(p) - 1
  <2>1. \A l \in Nat \ {0} : (IF 1 <= l - 1 THEN l - 1 - 1 + 1 ELSE 0) = l - 1
    OBVIOUS
  <2> QED
    BY <1>1, <1>3, <2>1
<1>5. \A i \in 1..(Len(p) - 1) : Front(p)[i] = p[i]
  BY <1>1, <1>3
<1> QED
  BY <1>3, <1>4, <1>5

\* A path whose beginning is replaced by another of the same length.
LEMMA SpliceProperties ==
  ASSUME NEW N, NEW q \in Seq(N), NEW r \in Seq(N), Len(q) <= Len(r)
  PROVE  LET s == q \o SubSeq(r, Len(q) + 1, Len(r))
         IN  /\ s \in Seq(N) /\ Len(s) = Len(r)
             /\ \A i \in 1..Len(r) : s[i] = IF i <= Len(q) THEN q[i] ELSE r[i]
<1> DEFINE tail == SubSeq(r, Len(q) + 1, Len(r))
<1>1. /\ Len(q) \in Nat /\ Len(r) \in Nat
      /\ \A i \in (Len(q) + 1)..Len(r) : r[i] \in N
  BY LenProperties, ElementOfSeq
<1>2. /\ tail \in Seq(N)
      /\ Len(tail) = IF Len(q) + 1 <= Len(r) THEN Len(r) - (Len(q) + 1) + 1 ELSE 0
      /\ \A i \in 1..(Len(r) - (Len(q) + 1) + 1) : tail[i] = r[Len(q) + 1 + i - 1]
  BY <1>1, SubSeqProperties
<1> HIDE DEF tail
<1>3. Len(tail) = Len(r) - Len(q)
  BY <1>1, <1>2
<1>4. \A i \in 1..(Len(r) - Len(q)) : tail[i] = r[Len(q) + i]
  BY <1>1, <1>2
<1>5. /\ q \o tail \in Seq(N)
      /\ Len(q \o tail) = Len(q) + Len(tail)
      /\ \A i \in 1..(Len(q) + Len(tail)) :
           (q \o tail)[i] = IF i <= Len(q) THEN q[i] ELSE tail[i - Len(q)]
  BY <1>2, ConcatProperties
<1>6. \A i \in 1..Len(r) : (q \o tail)[i] = IF i <= Len(q) THEN q[i] ELSE r[i]
  BY <1>1, <1>3, <1>4, <1>5
<1>7. Len(q \o tail) = Len(r)
  BY <1>1, <1>3, <1>5
<1> QED
  BY <1>5, <1>6, <1>7 DEF tail

\* A subtree that is filed under another name of the same directory, its top Inode
\* replaced by one with that name, makes a tree of a tree: the rename of Twstat.
LEMMA MovedKeepsTree ==
  ASSUME NEW N, NEW t, IsTree(N, t), NEW p \in DOMAIN t, p # Root,
         NEW n \in N, Append(Front(p), n) = p \/ Append(Front(p), n) \notin DOMAIN t,
         NEW node \in InodeOver(N), node.name = n
  PROVE  IsTree(N, [Moved(t, p, Append(Front(p), n)) EXCEPT ![Append(Front(p), n)] = node])
<1> DEFINE q == Append(Front(p), n)
           gone == Below(t, p)
           Dest(r) == q \o SubSeq(r, Len(p) + 1, Len(r))
           From(d) == p \o SubSeq(d, Len(q) + 1, Len(d))
           came == {Dest(r) : r \in gone}
           u == Moved(t, p, q)
<1>1. /\ p \in Seq(N) /\ Len(p) \in Nat \ {0}
      /\ \A i \in 1..Len(p) : p[i] \in N
  BY EmptySeq, ElementOfSeq DEF IsTree, Root
<1>2. /\ q \in Seq(N) /\ Len(q) = Len(p) /\ q[Len(p)] = n
      /\ \A i \in 1..(Len(p) - 1) : q[i] = p[i]
  <2>1. /\ Front(p) \in Seq(N) /\ Len(Front(p)) = Len(p) - 1
        /\ \A i \in 1..(Len(p) - 1) : Front(p)[i] = p[i]
    BY <1>1, FrontProperties
  <2> QED
    BY <1>1, <2>1, AppendProperties
<1>3. ASSUME NEW r \in Seq(N), Len(p) <= Len(r)
      PROVE  /\ Dest(r) \in Seq(N) /\ Len(Dest(r)) = Len(r)
             /\ \A i \in 1..Len(r) : Dest(r)[i] = IF i <= Len(p) THEN q[i] ELSE r[i]
             /\ From(r) \in Seq(N) /\ Len(From(r)) = Len(r)
             /\ \A i \in 1..Len(r) : From(r)[i] = IF i <= Len(p) THEN p[i] ELSE r[i]
  <2>1. /\ Len(q) = Len(p)
        /\ Dest(r) = q \o SubSeq(r, Len(q) + 1, Len(r))
        /\ From(r) = p \o SubSeq(r, Len(p) + 1, Len(r))
    BY <1>2
  <2> HIDE DEF q, Dest, From
  <2>2. q \in Seq(N) /\ p \in Seq(N) /\ Len(q) <= Len(r)
    BY <1>1, <1>2, <1>3
  <2>3. /\ Dest(r) \in Seq(N) /\ Len(Dest(r)) = Len(r)
        /\ \A i \in 1..Len(r) : Dest(r)[i] = IF i <= Len(q) THEN q[i] ELSE r[i]
    <3>1. ASSUME NEW x \in Seq(N), Len(x) <= Len(r)
          PROVE  LET s == x \o SubSeq(r, Len(x) + 1, Len(r))
                 IN  /\ s \in Seq(N) /\ Len(s) = Len(r)
                     /\ \A i \in 1..Len(r) : s[i] = IF i <= Len(x) THEN x[i] ELSE r[i]
      BY <3>1, SpliceProperties
    <3> QED
      BY <2>1, <2>2, <3>1
  <2>4. /\ From(r) \in Seq(N) /\ Len(From(r)) = Len(r)
        /\ \A i \in 1..Len(r) : From(r)[i] = IF i <= Len(p) THEN p[i] ELSE r[i]
    BY <1>3, <2>1, <2>2, SpliceProperties
  <2> QED
    BY <2>1, <2>3, <2>4
<1>4. \A r \in gone : r \in DOMAIN t /\ r \in Seq(N) /\ Len(p) <= Len(r) /\ Len(r) \in Nat
                       /\ \A i \in 1..Len(p) : r[i] = p[i]
  <2>1. \A r \in gone : r \in DOMAIN t /\ r \in Seq(N) /\ IsPrefix(p, r)
    BY DEF Below, IsTree
  <2> QED
    BY <1>1, <2>1, IsPrefixPointwise, LenProperties
<1>5. \A r \in gone : From(Dest(r)) = r
  <2> SUFFICES ASSUME NEW r \in gone PROVE From(Dest(r)) = r
    OBVIOUS
  <2> DEFINE d == Dest(r)
  <2>1. d \in Seq(N) /\ Len(d) = Len(r) /\ \A i \in 1..Len(r) : d[i] = IF i <= Len(p) THEN q[i] ELSE r[i]
    BY <1>3, <1>4
  <2> HIDE DEF d, From
  <2>2. /\ From(d) \in Seq(N) /\ Len(From(d)) = Len(d)
        /\ \A i \in 1..Len(d) : From(d)[i] = IF i <= Len(p) THEN p[i] ELSE d[i]
    BY <1>3, <1>4, <2>1
  <2>3. \A i \in 1..Len(r) : From(d)[i] = r[i]
    BY <1>1, <1>4, <2>1, <2>2
  <2> QED
    BY <1>4, <2>1, <2>2, <2>3, SeqEqual DEF d
<1> HIDE DEF Dest, From, q
<1>6. /\ DOMAIN u = (DOMAIN t \ gone) \cup came
      /\ \A d \in DOMAIN u : u[d] = IF d \in came THEN t[From(d)] ELSE t[d]
  BY DEF Moved, Dest, From
<1> HIDE DEF u
<1>7. p \in gone /\ Dest(p) = q
  <2>1. p \in gone
    BY <1>1, IsPrefixPointwise DEF Below
  <2>2. Dest(p) \in Seq(N) /\ Len(Dest(p)) = Len(p) /\ \A i \in 1..Len(p) : Dest(p)[i] = q[i]
    BY <1>1, <1>3
  <2> QED
    BY <1>2, <2>1, <2>2, SeqEqual
<1>8. q \in DOMAIN u
  BY <1>6, <1>7
<1>9. \A d \in came : d \in Seq(N)
  BY <1>3, <1>4
<1>10. DOMAIN u \subseteq Seq(N)
  BY <1>6, <1>9 DEF IsTree
<1>11. \A d \in DOMAIN u : u[d] \in InodeOver(N)
  BY <1>4, <1>5, <1>6 DEF IsTree
<1>12. Root \in DOMAIN u
  <2>1. Root \notin gone
    BY <1>1, <1>4, EmptySeq DEF Root
  <2> QED
    BY <1>6, <2>1 DEF IsTree
<1>13. PrefixClosed(u)
  <2> SUFFICES ASSUME NEW d \in DOMAIN u, NEW x \in Prefixes(d)
               PROVE  x \in DOMAIN u
    BY DEF PrefixClosed
  <2>1. d \in Seq(N) /\ x \in Seq(N) /\ Len(x) <= Len(d) /\ \A i \in 1..Len(x) : x[i] = d[i]
    BY <1>10, PrefixesPointwise
  <2>2. CASE d \notin came
    <3>1. d \in DOMAIN t /\ d \notin gone
      BY <1>6, <2>2
    <3>2. x \in DOMAIN t
      BY <3>1 DEF IsTree, PrefixClosed
    <3>3. ~IsPrefix(p, d)
      BY <3>1 DEF Below
    <3>4. ~IsPrefix(p, x)
      BY <1>1, <2>1, <3>3, IsPrefixPointwise, LenProperties
    <3> QED
      BY <1>6, <3>2, <3>4 DEF Below
  <2>3. CASE d \in came
    <3>1. PICK r \in gone : d = Dest(r)
      BY <2>3
    <3>2. /\ Len(d) = Len(r)
          /\ \A i \in 1..Len(r) : d[i] = IF i <= Len(p) THEN q[i] ELSE r[i]
      BY <1>3, <1>4, <3>1
    <3>3. CASE Len(x) < Len(p)
      <4>1. Len(x) \in Nat /\ \A i \in 1..Len(x) : x[i] = p[i]
        <5>1. Len(x) \in Nat /\ Len(p) \in Nat /\ Len(r) \in Nat /\ Len(p) <= Len(r)
          BY <1>1, <1>4, <2>1, LenProperties
        <5>2. ASSUME NEW i \in 1..Len(x) PROVE x[i] = p[i]
          <6>1. i \in 1..Len(r) /\ i <= Len(p) - 1 /\ i \in 1..Len(p)
            BY <3>3, <5>1
          <6>2. x[i] = d[i] /\ d[i] = q[i]
            BY <2>1, <3>2, <6>1
          <6> QED
            BY <1>2, <6>1, <6>2
        <5> QED
          BY <5>1, <5>2
      <4>2. x \in Prefixes(p)
        BY <1>1, <2>1, <3>3, <4>1, PrefixesPointwise
      <4>3. x \in DOMAIN t
        BY <4>2 DEF IsTree, PrefixClosed
      <4> QED
        BY <1>1, <1>4, <1>6, <3>3, <4>1, <4>3
    <3>4. CASE Len(x) >= Len(p)
      <4> DEFINE y == SubSeq(r, 1, Len(x))
      <4>1. /\ r \in Seq(N) /\ Len(x) \in Nat /\ Len(x) <= Len(r) /\ Len(p) <= Len(r)
            /\ \A i \in 1..Len(x) : r[i] \in N
        BY <1>4, <2>1, <3>2, LenProperties, ElementOfSeq
      <4>2. y \in Seq(N) /\ Len(y) = Len(x) /\ \A i \in 1..Len(x) : y[i] = r[i]
        BY <4>1, SubSeqProperties
      <4>3. y \in DOMAIN t
        <5>1. y \in Prefixes(r)
          BY <4>1 DEF Prefixes
        <5> QED
          BY <1>4, <5>1 DEF IsTree, PrefixClosed
      <4> HIDE DEF y
      <4>4. IsPrefix(p, y)
        BY <1>1, <1>4, <3>4, <4>1, <4>2, IsPrefixPointwise
      <4>5. y \in gone
        BY <4>3, <4>4 DEF Below
      <4>6. /\ Dest(y) \in Seq(N) /\ Len(Dest(y)) = Len(y)
            /\ \A i \in 1..Len(y) : Dest(y)[i] = IF i <= Len(p) THEN q[i] ELSE y[i]
        BY <1>3, <1>4, <4>5
      <4>7. \A i \in 1..Len(x) : Dest(y)[i] = x[i]
        BY <2>1, <3>2, <4>1, <4>2, <4>6
      <4>8. Dest(y) = x
        BY <2>1, <4>2, <4>6, <4>7, SeqEqual
      <4> QED
        BY <1>6, <4>5, <4>8
    <3> QED
      BY <1>1, <2>1, <3>3, <3>4, LenProperties
  <2> QED
    BY <2>2, <2>3
<1>14. \A d \in DOMAIN u : d # Root /\ d # q => u[d].name = Last(d)
  <2> SUFFICES ASSUME NEW d \in DOMAIN u, d # Root, d # q
               PROVE  u[d].name = Last(d)
    OBVIOUS
  <2>1. CASE d \notin came
    BY <1>6, <2>1 DEF IsTree, NamedByKey
  <2>2. CASE d \in came
    <3>1. PICK r \in gone : d = Dest(r)
      BY <2>2
    <3>2. /\ Len(d) = Len(r)
          /\ \A i \in 1..Len(r) : d[i] = IF i <= Len(p) THEN q[i] ELSE r[i]
      BY <1>3, <1>4, <3>1
    <3>3. Len(r) # Len(p)
      <4> SUFFICES ASSUME Len(r) = Len(p) PROVE d = q
        OBVIOUS
      <4>1. d \in Seq(N) /\ \A i \in 1..Len(p) : d[i] = q[i]
        BY <1>9, <2>2, <3>2
      <4> QED
        BY <1>2, <3>2, <4>1, SeqEqual
    <3>4. Last(d) = Last(r)
      BY <1>1, <1>4, <3>2, <3>3 DEF Last
    <3>5. r # Root
      BY <1>1, <1>4, EmptySeq DEF Root
    <3>6. u[d] = t[r]
      BY <1>5, <1>6, <2>2, <3>1
    <3> QED
      BY <1>4, <3>4, <3>5, <3>6 DEF IsTree, NamedByKey
  <2> QED
    BY <2>1, <2>2
<1> DEFINE v == [u EXCEPT ![q] = node]
<1>15. /\ DOMAIN v = DOMAIN u
       /\ v[q] = node
       /\ \A d \in DOMAIN u : d # q => v[d] = u[d]
  BY <1>8
<1> HIDE DEF v
<1>16. node.name = Last(q)
  BY <1>2 DEF Last
<1>17. IsTree(N, v)
  <2>1. \A d \in DOMAIN v : v[d] \in InodeOver(N)
    BY <1>11, <1>15
  <2>2. NamedByKey(v)
    BY <1>14, <1>15, <1>16 DEF NamedByKey
  <2>3. PrefixClosed(v)
    BY <1>13, <1>15 DEF PrefixClosed
  <2> QED
    BY <1>10, <1>12, <1>15, <2>1, <2>2, <2>3 DEF IsTree
<1> QED
  BY <1>17 DEF v, u, q

\* A path is its last name below the others.
LEMMA FrontAndLast ==
  ASSUME NEW N, NEW p \in Seq(N), p # Root
  PROVE  Append(Front(p), Last(p)) = p
<1>1. Len(p) \in Nat \ {0}
  BY EmptySeq DEF Root
<1>2. /\ Front(p) \in Seq(N) /\ Len(Front(p)) = Len(p) - 1
      /\ \A i \in 1..(Len(p) - 1) : Front(p)[i] = p[i]
  BY FrontProperties
<1>3. Last(p) \in N /\ Last(p) = p[Len(p)]
  BY LastIsName DEF Last
<1> DEFINE q == Append(Front(p), Last(p))
<1>4. /\ q \in Seq(N) /\ Len(q) = Len(Front(p)) + 1
      /\ \A i \in 1..Len(Front(p)) : q[i] = Front(p)[i]
      /\ q[Len(Front(p)) + 1] = Last(p)
  BY <1>2, <1>3, AppendProperties
<1> HIDE DEF q
<1>5. Len(q) = Len(p) /\ \A i \in 1..Len(q) : q[i] = p[i]
  BY <1>1, <1>2, <1>3, <1>4
<1>6. q = p
  BY <1>4, <1>5, SeqEqual
<1> QED
  BY <1>6 DEF q

\* What Twstat may carry, for any set of names.
StatOver(N) ==
  [mode : {Keep, 0, 1}, length : {Keep} \cup 0..(Word - 1), name : {KeepName} \cup N]

\* An Inode with some of its fields changed is an Inode.
LEMMA WithStatIsInode ==
  ASSUME NEW N, NEW node \in InodeOver(N), NEW st \in StatOver(N)
  PROVE  /\ WithStat(node, st) \in InodeOver(N)
         /\ WithStat(node, st).name = IF st.name = KeepName THEN node.name ELSE st.name
<1>1. /\ node.name \in N \cup {"/"} /\ node.dir \in BOOLEAN /\ node.data \in Seq(Byte)
      /\ st.mode \in {Keep, 0, 1} /\ st.length \in {Keep} \cup 0..(Word - 1)
      /\ st.name \in {KeepName} \cup N
  BY DEF InodeOver, StatOver
<1> DEFINE name == IF st.name = KeepName THEN node.name ELSE st.name
           dir == IF st.mode = Keep THEN node.dir ELSE st.mode = 1
           data == IF st.length = Keep THEN node.data ELSE Resized(node.data, st.length)
<1>2. name \in N \cup {"/"}
  BY <1>1
<1>3. dir \in BOOLEAN
  BY <1>1
<1>4. data \in Seq(Byte)
  <2>1. st.length # Keep => st.length \in Nat
    BY <1>1 DEF Keep
  <2> QED
    BY <1>1, <2>1, ResizedIsData
<1>5. WithStat(node, st) = [name |-> name, dir |-> dir, data |-> data]
  BY DEF WithStat
<1> HIDE DEF name, dir, data
<1>6. [name |-> name, dir |-> dir, data |-> data] \in InodeOver(N)
  BY <1>2, <1>3, <1>4 DEF InodeOver
<1> QED
  BY <1>5, <1>6 DEF name

\* wstat_from_stat makes a tree from a tree, whatever it changes and however it ends.
LEMMA WstatKeepsTree ==
  ASSUME NEW N, NEW t, IsTree(N, t), NEW p \in Seq(N), NEW st \in StatOver(N)
  PROVE  IsTree(N, WstatFromStat(t, p, st).tree)
<1>1. CASE p = Root
  <2>1. (st.mode = 1) \in BOOLEAN
    OBVIOUS
  <2>2. IsTree(N, [t EXCEPT ![Root] = WithDir(t[Root], st.mode = 1)])
    BY <2>1, RootStatKeepsTree
  <2> QED
    BY <1>1, <2>2 DEF WstatFromStat
<1>2. CASE p # Root /\ p \in DOMAIN t
  <2> DEFINE n == IF st.name = KeepName THEN Last(p) ELSE st.name
             node == WithStat(t[p], st)
             target == Append(Front(p), n)
  <2>1. n \in N
    <3>1. st.name \in {KeepName} \cup N
      BY DEF StatOver
    <3> QED
      BY <1>2, <3>1, LastIsName
  <2>2. target = IF st.name = KeepName THEN p ELSE Append(Front(p), st.name)
    BY <1>2, FrontAndLast
  <2>3. node \in InodeOver(N) /\ node.name = n
    <3>1. t[p] \in InodeOver(N) /\ t[p].name = Last(p)
      BY <1>2 DEF IsTree, NamedByKey
    <3> QED
      BY <3>1, WithStatIsInode
  <2> HIDE DEF n, node
  <2>4. target = p \/ target \notin DOMAIN t =>
          IsTree(N, [Moved(t, p, target) EXCEPT ![target] = node])
    BY <1>2, <2>1, <2>3, MovedKeepsTree
  <2>5. st.length \in Int /\ MaxVec \in Int
    BY TreeAssumption DEF StatOver, Keep, MaxVec
  <2>6. WstatFromStat(t, p, st) =
          IF target # p /\ target \in DOMAIN t /\ st.length <= MaxVec
          THEN [out |-> "none", tree |-> t]
          ELSE IF st.length > MaxVec
          THEN [out |-> "panic", tree |-> t]
          ELSE [out |-> "some", tree |-> [Moved(t, p, target) EXCEPT ![target] = node]]
    <3> HIDE DEF target
    <3> QED
      BY <1>2, <2>2 DEF WstatFromStat, Exists, node
  <2> HIDE DEF target
  <2> QED
    BY <2>4, <2>5, <2>6
<1> QED
  BY <1>1, <1>2 DEF WstatFromStat, Exists

\* A wstat_from_stat that returns None has not touched the tree.
LEMMA WstatNone ==
  ASSUME NEW t, NEW p, NEW st, WstatFromStat(t, p, st).out = "none"
  PROVE  WstatFromStat(t, p, st).tree = t
BY DEF WstatFromStat

\* Creating what does not exist adds a path and its ancestors, and changes nothing
\* else.
LEMMA CreateAdds ==
  ASSUME NEW N, NEW t, IsTree(N, t), NEW p \in Seq(N), p \notin DOMAIN t, NEW isDir \in BOOLEAN
  PROVE  LET u == IF isDir THEN CreateDir(t, p) ELSE CreateFile(t, p)
         IN  /\ DOMAIN u = DOMAIN t \cup Prefixes(p)
             /\ \A q \in DOMAIN t : u[q] = t[q]
<1>1. Below(t, p) = {}
  <2> SUFFICES ASSUME NEW q \in DOMAIN t, IsPrefix(p, q) PROVE FALSE
    BY DEF Below
  <2>1. q \in Seq(N)
    BY DEF IsTree
  <2>2. p \in Prefixes(q)
    BY <2>1, IsPrefixPointwise, PrefixesPointwise
  <2> QED
    BY <2>2 DEF IsTree, PrefixClosed
<1>2. /\ DOMAIN Without(t, p) = DOMAIN t
      /\ \A q \in DOMAIN t : Without(t, p)[q] = t[q]
  BY <1>1 DEF Without
<1>3. p # Root
  BY DEF IsTree
<1>4. CASE isDir
  BY <1>4 DEF CreateDir
<1>5. CASE ~isDir
  BY <1>2, <1>3, <1>5 DEF CreateDir, CreateFile
<1> QED
  BY <1>4, <1>5

\* A component that is not refused takes a path to a path.
LEMMA ResolveStepIsSeq ==
  ASSUME NEW N, NEW base \in Seq(N),
         NEW component \in Seq(N) \cup {NoComponent, Dot, DotDot, Slash}, component # NoComponent
  PROVE  ResolveStep(base, component) \in Seq(N)
<1>1. base # Root => Front(base) \in Seq(N)
  BY FrontProperties
<1>2. component \in Seq(N) => base \o component \in Seq(N)
  BY ConcatProperties
<1>3. Root \in Seq(N)
  BY EmptySeq DEF Root
<1> QED
  BY <1>1, <1>2, <1>3 DEF ResolveStep

(***************************************************************************)
(* What an operation leaves where it is                                    *)
(***************************************************************************)
\* A write puts nothing into the tree and takes nothing out; it changes the bytes of
\* the path it is for, and leaves them no fewer.
LEMMA WriteAtStays ==
  ASSUME NEW N, NEW t, IsTree(N, t), NEW p \in Seq(N),
         NEW offset \in Nat, NEW bytes \in Seq(Byte)
  PROVE  LET u == WriteAt(t, p, offset, bytes).tree
         IN  /\ DOMAIN u = DOMAIN t
             /\ \A q \in DOMAIN t : q # p => u[q] = t[q]
             /\ p \in DOMAIN t => Len(u[p].data) >= Len(t[p].data)
<1> DEFINE sum     == offset + Len(bytes)
           end     == sum % Word
           old     == t[p].data
           grown   == IF end > Len(old) THEN Resized(old, end) ELSE old
           written == [i \in 1..Len(grown) |->
                         IF i \in (offset + 1)..end THEN bytes[i - offset] ELSE grown[i]]
           u       == WriteAt(t, p, offset, bytes).tree
<1>1. CASE u = t
  <2>1. p \in DOMAIN t => Len(t[p].data) \in Nat
    BY LenProperties DEF IsTree, InodeOver
  <2> HIDE DEF u
  <2> QED
    BY <1>1, <2>1 DEF u
<1>2. CASE p \in DOMAIN t /\ u = [t EXCEPT ![p] = WithData(t[p], written)]
  <2>1. old \in Seq(Byte) /\ Len(old) \in Nat
    BY <1>2, LenProperties DEF IsTree, InodeOver
  <2>2. end \in Nat
    <3>1. sum \in Nat /\ Word \in Nat \ {0}
      BY LenProperties, TreeAssumption
    <3>2. ASSUME NEW x \in Nat, NEW w \in Nat \ {0} PROVE x % w \in Nat
      OBVIOUS
    <3> QED
      BY <3>1, <3>2
  <2>3. Len(grown) \in Nat /\ Len(grown) >= Len(old)
    <3>1. Len(Resized(old, end)) = end
      BY <2>1, <2>2, ResizedIsData
    <3> HIDE DEF old, end
    <3> QED
      BY <2>1, <2>2, <3>1
  <2>4. Len(written) = Len(grown)
    <3> HIDE DEF grown
    <3> QED
      BY <2>3
  <2> HIDE DEF written, u, grown, old
  <2>5. u[p].data = written
    BY <1>2 DEF WithData
  <2>6. Len(u[p].data) >= Len(t[p].data)
    BY <2>3, <2>4, <2>5 DEF old
  <2> QED
    BY <1>2, <2>6 DEF u
<1>3. u = t \/ (p \in DOMAIN t /\ u = [t EXCEPT ![p] = WithData(t[p], written)])
  <2> DEFINE v == [t EXCEPT ![p] = WithData(t[p], written)]
  <2>1. WriteAt(t, p, offset, bytes) =
          IF p = Root \/ p \notin DOMAIN t THEN [out |-> "none", tree |-> t]
          ELSE IF (sum >= Word /\ OverflowChecks) \/ end > MaxVec THEN [out |-> "panic", tree |-> t]
          ELSE [out |-> IF offset > end THEN "panic" ELSE "some", tree |-> v]
    BY DEF WriteAt, Exists
  <2> HIDE DEF v, sum, end
  <2>2. u = t \/ (p \in DOMAIN t /\ u = v)
    BY <2>1
  <2> QED
    BY <2>2 DEF v
<1> QED
  BY <1>1, <1>2, <1>3

\* A path r below p, and the same path below q instead.
Graft(p, q, r) == q \o SubSeq(r, Len(p) + 1, Len(r))

\* A graft is a path below its new place, and can be undone.
LEMMA GraftProperties ==
  ASSUME NEW N, NEW p \in Seq(N), NEW q \in Seq(N), Len(p) = Len(q),
         NEW r \in Seq(N), IsPrefix(p, r)
  PROVE  /\ Graft(p, q, r) \in Seq(N)
         /\ IsPrefix(q, Graft(p, q, r))
         /\ Graft(q, p, Graft(p, q, r)) = r
<1>1. ASSUME NEW x \in Seq(N), NEW y \in Seq(N), NEW s \in Seq(N), Len(x) = Len(y), Len(x) <= Len(s)
      PROVE  /\ Graft(x, y, s) \in Seq(N) /\ Len(Graft(x, y, s)) = Len(s)
             /\ \A i \in 1..Len(s) : Graft(x, y, s)[i] = IF i <= Len(x) THEN y[i] ELSE s[i]
  <2>1. Graft(x, y, s) = y \o SubSeq(s, Len(y) + 1, Len(s)) /\ Len(y) <= Len(s)
    BY <1>1 DEF Graft
  <2> QED
    BY <1>1, <2>1, SpliceProperties
<1>2. Len(p) \in Nat /\ Len(r) \in Nat /\ Len(p) <= Len(r) /\ \A i \in 1..Len(p) : p[i] = r[i]
  BY IsPrefixPointwise, LenProperties
<1> DEFINE d == Graft(p, q, r)
<1>3. d \in Seq(N) /\ Len(d) = Len(r) /\ \A i \in 1..Len(r) : d[i] = IF i <= Len(p) THEN q[i] ELSE r[i]
  BY <1>1, <1>2
<1> HIDE DEF d
<1>4. IsPrefix(q, d)
  <2>1. Len(q) <= Len(d) /\ \A i \in 1..Len(q) : q[i] = d[i]
    BY <1>2, <1>3
  <2> QED
    BY <1>3, <2>1, IsPrefixPointwise
<1> DEFINE e == Graft(q, p, d)
<1>5. e \in Seq(N) /\ Len(e) = Len(d) /\ \A i \in 1..Len(d) : e[i] = IF i <= Len(q) THEN p[i] ELSE d[i]
  BY <1>1, <1>2, <1>3
<1> HIDE DEF e
<1>6. e = r
  <2>1. Len(e) = Len(r) /\ \A i \in 1..Len(r) : e[i] = r[i]
    BY <1>2, <1>3, <1>5
  <2> QED
    BY <1>5, <2>1, SeqEqual
<1> QED
  BY <1>3, <1>4, <1>6 DEF d, e

\* A rename moves what is at or below the old path, one to one, to places that were free,
\* and leaves everything else.
LEMMA MovedCounts ==
  ASSUME NEW N, NEW t, IsTree(N, t), NEW p \in DOMAIN t, NEW q \in Seq(N), Len(p) = Len(q),
         q = p \/ q \notin DOMAIN t
  PROVE  LET u == Moved(t, p, q)
         IN  /\ \A d \in DOMAIN t \ Below(t, p) : d # q /\ d \in DOMAIN u /\ u[d] = t[d]
             /\ q \in DOMAIN u
             /\ ExistsBijection(DOMAIN t, DOMAIN u)
<1> DEFINE gone == Below(t, p)
           came == {Graft(p, q, r) : r \in gone}
           u == Moved(t, p, q)
<1>1. p \in Seq(N) /\ DOMAIN t \subseteq Seq(N)
  BY DEF IsTree
<1>2. \A r \in gone : r \in DOMAIN t /\ r \in Seq(N) /\ IsPrefix(p, r)
  BY <1>1 DEF Below
<1>3. \A r \in gone : /\ Graft(p, q, r) \in Seq(N)
                      /\ IsPrefix(q, Graft(p, q, r))
                      /\ Graft(q, p, Graft(p, q, r)) = r
  BY <1>1, <1>2, GraftProperties
<1>4. /\ DOMAIN u = (DOMAIN t \ gone) \cup came
      /\ \A d \in DOMAIN u : d \notin came => u[d] = t[d]
  BY DEF Moved, Graft
<1> HIDE DEF u
<1>5. \A d \in DOMAIN t \ gone : ~IsPrefix(q, d)
  <2> SUFFICES ASSUME NEW d \in DOMAIN t \ gone, IsPrefix(q, d) PROVE FALSE
    OBVIOUS
  <2>1. q \in Prefixes(d)
    BY <1>1, IsPrefixPointwise, PrefixesPointwise
  <2>2. q \in DOMAIN t
    BY <2>1 DEF IsTree, PrefixClosed
  <2> QED
    BY <2>2 DEF Below
<1>6. q \in came
  <2>1. /\ IsPrefix(p, p)
    <3>1. Len(p) \in Nat
      BY <1>1, LenProperties
    <3> QED
      BY <1>1, <3>1, IsPrefixPointwise
  <2>2. Graft(p, q, p) = q
    <3>1. SubSeq(p, Len(p) + 1, Len(p)) = << >>
      BY <1>1, LenProperties, SubSeqEmpty
    <3> QED
      BY <3>1, ConcatEmptySeq DEF Graft
  <2> QED
    BY <2>1, <2>2 DEF Below
<1>7. \A d \in DOMAIN t \ gone : d \notin came /\ d # q
  BY <1>3, <1>5, <1>6
<1> DEFINE f == [r \in DOMAIN t |-> IF r \in gone THEN Graft(p, q, r) ELSE r]
<1>8. f \in [DOMAIN t -> DOMAIN u]
  BY <1>4
<1>9. \A r, s \in DOMAIN t : f[r] = f[s] => r = s
  BY <1>3, <1>7
<1>10. \A d \in DOMAIN u : \E r \in DOMAIN t : f[r] = d
  BY <1>2, <1>4
<1>11. f \in Bijection(DOMAIN t, DOMAIN u)
  <2> HIDE DEF f
  <2> QED
    BY <1>8, <1>9, <1>10 DEF Bijection, Injection, Surjection, IsInjective
<1>12. ExistsBijection(DOMAIN t, DOMAIN u)
  BY <1>11 DEF ExistsBijection
<1> QED
  BY <1>4, <1>6, <1>7, <1>12 DEF u

\* wstat_from_stat loses no Inode: the paths afterwards are as many as before, and what is
\* not at or below the path it is for stays where and as it was.
LEMMA WstatStays ==
  ASSUME NEW N, NEW t, IsTree(N, t), NEW p \in Seq(N), NEW st \in StatOver(N)
  PROVE  LET u == WstatFromStat(t, p, st).tree
         IN  /\ \A d \in DOMAIN t \ Below(t, p) : d \in DOMAIN u /\ u[d] = t[d]
             /\ ExistsBijection(DOMAIN t, DOMAIN u)
             /\ u # t => p \in DOMAIN t
<1> DEFINE u == WstatFromStat(t, p, st).tree
<1>1. CASE u = t
  <2> HIDE DEF u
  <2>1. ExistsBijection(DOMAIN t, DOMAIN u)
    BY <1>1, Fun_ExistsBijReflexive
  <2> QED
    BY <1>1, <2>1 DEF u
<1>2. CASE p = Root
  <2>1. Root \in DOMAIN t
    BY DEF IsTree
  <2>2. DOMAIN u = DOMAIN t
    BY <1>2 DEF WstatFromStat
  <2>3. ASSUME NEW d \in DOMAIN t PROVE IsPrefix(p, d)
    <3>1. d \in Seq(N) /\ Len(d) \in Nat /\ Len(p) = 0
      BY <1>2, LenProperties, EmptySeq DEF IsTree, Root
    <3>2. Len(p) <= Len(d) /\ \A i \in 1..Len(p) : p[i] = d[i]
      BY <3>1
    <3> QED
      BY <3>1, <3>2, IsPrefixPointwise
  <2>4. DOMAIN t \ Below(t, p) = {}
    BY <2>3 DEF Below
  <2>5. ExistsBijection(DOMAIN t, DOMAIN u)
    BY <2>2, Fun_ExistsBijReflexive
  <2> HIDE DEF u
  <2> QED
    BY <1>2, <2>1, <2>4, <2>5 DEF u
<1>3. CASE p # Root /\ u # t
  <2> DEFINE n == IF st.name = KeepName THEN Last(p) ELSE st.name
             q == Append(Front(p), n)
             node == WithStat(t[p], st)
  <2>1. q = IF st.name = KeepName THEN p ELSE Append(Front(p), st.name)
    BY <1>3, FrontAndLast
  <2>2. n \in N
    <3>1. st.name \in {KeepName} \cup N
      BY DEF StatOver
    <3> QED
      BY <1>3, <3>1, LastIsName
  <2>3. q \in Seq(N) /\ Len(q) = Len(p)
    <3>1. Front(p) \in Seq(N) /\ Len(Front(p)) = Len(p) - 1 /\ Len(p) \in Nat
      BY <1>3, FrontProperties, LenProperties
    <3> HIDE DEF n
    <3> QED
      BY <2>2, <3>1, AppendProperties
  <2>4. st.length \in Int /\ MaxVec \in Int
    BY TreeAssumption DEF StatOver, Keep, MaxVec
  <2>5. WstatFromStat(t, p, st) =
          IF p \notin DOMAIN t \/ (q # p /\ q \in DOMAIN t /\ st.length <= MaxVec)
          THEN [out |-> "none", tree |-> t]
          ELSE IF st.length > MaxVec
          THEN [out |-> "panic", tree |-> t]
          ELSE [out |-> "some", tree |-> [Moved(t, p, q) EXCEPT ![q] = node]]
    <3> HIDE DEF q
    <3> QED
      BY <1>3, <2>1 DEF WstatFromStat, Exists
  <2> HIDE DEF q, n, node
  <2>6. p \in DOMAIN t /\ (q = p \/ q \notin DOMAIN t) /\ u = [Moved(t, p, q) EXCEPT ![q] = node]
    BY <1>3, <2>4, <2>5
  <2>7. /\ \A d \in DOMAIN t \ Below(t, p) :
              d # q /\ d \in DOMAIN Moved(t, p, q) /\ Moved(t, p, q)[d] = t[d]
        /\ ExistsBijection(DOMAIN t, DOMAIN Moved(t, p, q))
    BY <2>3, <2>6, MovedCounts
  <2>8. /\ DOMAIN u = DOMAIN Moved(t, p, q)
        /\ \A d \in DOMAIN u : d # q => u[d] = Moved(t, p, q)[d]
    BY <2>6
  <2> HIDE DEF u
  <2> QED
    BY <2>6, <2>7, <2>8 DEF u
<1> QED
  BY <1>1, <1>2, <1>3

\* A path has finitely many prefixes.
LEMMA PrefixesFinite ==
  ASSUME NEW N, NEW p \in Seq(N)
  PROVE  IsFiniteSet(Prefixes(p))
<1> DEFINE f == [l \in 0..Len(p) |-> SubSeq(p, 1, l)]
<1>1. Prefixes(p) = {f[l] : l \in 0..Len(p)}
  BY DEF Prefixes
<1>2. f \in Surjection(0..Len(p), Prefixes(p))
  <2> HIDE DEF f
  <2>1. f \in [0..Len(p) -> Prefixes(p)]
    BY <1>1 DEF f
  <2> QED
    BY <1>1, <2>1 DEF Surjection
<1>3. IsFiniteSet(0..Len(p))
  BY LenProperties, FS_Interval
<1> QED
  BY <1>2, <1>3, FS_Surjection
==============================================================================
