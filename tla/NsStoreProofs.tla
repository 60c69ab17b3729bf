----------------------------- MODULE NsStoreProofs ---------------------------
(***************************************************************************)
(* Theorems about NsStore, for any number of processes, any entries they   *)
(* want and any interleaving, kills and write errors included.             *)
(***************************************************************************)
EXTENDS NsStore, ListProofs

(***************************************************************************)
(* Lists of entries                                                        *)
(***************************************************************************)
\* A list all of whose entries are in E.
Only(mounts, E) == \A k \in 1..Len(mounts) : mounts[k] \in E

\* A list and another behind it.
LEMMA OnlyConcat ==
  ASSUME NEW a \in Seq(Entry), NEW b \in Seq(Entry), NEW E, Only(a, E), Only(b, E)
  PROVE  a \o b \in Seq(Entry) /\ Only(a \o b, E)
<1>1. /\ a \o b \in Seq(Entry) /\ Len(a \o b) = Len(a) + Len(b)
      /\ \A i \in 1..(Len(a) + Len(b)) : (a \o b)[i] = IF i <= Len(a) THEN a[i] ELSE b[i - Len(a)]
      /\ Len(a) \in Nat /\ Len(b) \in Nat
  BY ConcatProperties, LenProperties
<1>2. \A i \in 1..(Len(a) + Len(b)) : i <= Len(a) \/ i - Len(a) \in 1..Len(b)
  BY <1>1
<1> QED
  BY <1>1, <1>2 DEF Only

\* A list and one entry behind it.
LEMMA OnlyAppend ==
  ASSUME NEW a \in Seq(Entry), NEW e \in Entry, NEW E, Only(a, E), e \in E
  PROVE  Append(a, e) \in Seq(Entry) /\ Only(Append(a, e), E)
BY AppendProperties, LenProperties DEF Only

\* The automatic mounts are entries.
LEMMA AutoEntriesAreEntries == ProcfsEntry \in Entry /\ SrvfsEntry \in Entry
BY NamespaceAssumption DEF ProcfsEntry, SrvfsEntry, P9Entry, Entry

\* An entry that is not an automatic mount covers none, and does not yield to any.
LEMMA YieldAppend ==
  ASSUME NEW a \in Seq(Entry), AutoMountsYieldIn(a), NEW e \in Entry,
         e \in {ProcfsEntry, SrvfsEntry} => ~Taken(a, e.target)
  PROVE  AutoMountsYieldIn(Append(a, e))
<1>1. /\ Len(a) \in Nat /\ Len(Append(a, e)) = Len(a) + 1
      /\ \A i \in 1..Len(a) : Append(a, e)[i] = a[i]
      /\ Append(a, e)[Len(a) + 1] = e
  BY AppendProperties, LenProperties
<1> SUFFICES ASSUME NEW j \in 1..(Len(a) + 1), Append(a, e)[j] \in {ProcfsEntry, SrvfsEntry},
                    NEW i \in 1..(j - 1)
             PROVE  Append(a, e)[i].target # Append(a, e)[j].target
  BY <1>1 DEF AutoMountsYieldIn
<1>2. CASE j = Len(a) + 1
  <2>1. i \in 1..Len(a)
    BY <1>1, <1>2
  <2> QED
    BY <1>1, <1>2, <2>1 DEF Taken
<1>3. CASE j # Len(a) + 1
  <2>1. j \in 1..Len(a) /\ i \in 1..Len(a)
    BY <1>1, <1>3
  <2> QED
    BY <1>1, <2>1 DEF AutoMountsYieldIn
<1> QED
  BY <1>2, <1>3

\* ensure_procfs and ensure_srvfs add their entry or nothing.
LEMMA EnsureKeeps ==
  ASSUME NEW a \in Seq(Entry), AutoMountsYieldIn(a), NEW E, Only(a, E),
         ProcfsEntry \in E, SrvfsEntry \in E
  PROVE  /\ EnsureAll(a) \in Seq(Entry)
         /\ AutoMountsYieldIn(EnsureAll(a))
         /\ Only(EnsureAll(a), E)
<1>1. ASSUME NEW b \in Seq(Entry), AutoMountsYieldIn(b), Only(b, E),
             NEW e \in {ProcfsEntry, SrvfsEntry}
      PROVE  Ensure(b, e) \in Seq(Entry) /\ AutoMountsYieldIn(Ensure(b, e)) /\ Only(Ensure(b, e), E)
  <2>1. e \in Entry /\ e \in E
    BY AutoEntriesAreEntries
  <2> QED
    BY <1>1, <2>1, OnlyAppend, YieldAppend DEF Ensure
<1> QED
  BY <1>1 DEF EnsureAll

\* A list behind another, none of its entries an automatic mount.
LEMMA YieldConcat ==
  ASSUME NEW a \in Seq(Entry), AutoMountsYieldIn(a), NEW b \in Seq(Entry),
         \A i \in 1..Len(b) : b[i] \notin {ProcfsEntry, SrvfsEntry}
  PROVE  AutoMountsYieldIn(a \o b)
<1>1. /\ Len(a \o b) = Len(a) + Len(b)
      /\ \A i \in 1..(Len(a) + Len(b)) : (a \o b)[i] = IF i <= Len(a) THEN a[i] ELSE b[i - Len(a)]
      /\ Len(a) \in Nat /\ Len(b) \in Nat
  BY ConcatProperties, LenProperties
<1> SUFFICES ASSUME NEW j \in 1..(Len(a) + Len(b)), (a \o b)[j] \in {ProcfsEntry, SrvfsEntry},
                    NEW i \in 1..(j - 1)
             PROVE  (a \o b)[i].target # (a \o b)[j].target
  BY <1>1 DEF AutoMountsYieldIn
<1>2. j <= Len(a) \/ j - Len(a) \in 1..Len(b)
  BY <1>1
<1>3. j <= Len(a)
  BY <1>1, <1>2
<1>4. j \in 1..Len(a) /\ i \in 1..Len(a) /\ i <= Len(a)
  BY <1>1, <1>3
<1>5. (a \o b)[j] = a[j] /\ (a \o b)[i] = a[i]
  BY <1>1, <1>4
<1> QED
  BY <1>4, <1>5 DEF AutoMountsYieldIn

\* ensure_procfs and ensure_srvfs make a list of a list.
LEMMA EnsureIsList ==
  ASSUME NEW a \in Seq(Entry)
  PROVE  EnsureAll(a) \in Seq(Entry)
<1>1. ASSUME NEW b \in Seq(Entry), NEW e \in {ProcfsEntry, SrvfsEntry}
      PROVE  Ensure(b, e) \in Seq(Entry)
  BY AutoEntriesAreEntries, AppendProperties DEF Ensure
<1> QED
  BY <1>1 DEF EnsureAll

(***************************************************************************)
(* The invariant.  Both properties are about the lists that processes hold *)
(* between a load and a save as much as about the one on disk, and what    *)
(* somebody asked for only ever grows.                                     *)
(***************************************************************************)
AutoEntries == {ProcfsEntry, SrvfsEntry}

GoodList(mounts, asked) ==
  /\ mounts \in Seq(Entry)
  /\ AutoMountsYieldIn(mounts)
  /\ Only(mounts, asked \cup AutoEntries)

StoreInv ==
  /\ TypeOK
  /\ \A p \in Proc : given[p] <= Len(Wants[p])
  /\ \A p \in Proc : pc[p] \in {"start", "edit"} => given[p] = 0
  /\ \A dir \in Dir \cup {"nowhere"} : GoodList(disk[dir].mounts, Given)
  /\ \A p \in Proc : GoodList(mem[p], Given)

\* The empty list is a good one.
LEMMA EmptyIsGood == \A asked : GoodList(<< >>, asked)
BY EmptySeq DEF GoodList, Only, AutoMountsYieldIn

\* What one process is given later adds to what has been asked for.
LEMMA GivenGrows ==
  ASSUME StoreInv, NEW p \in Proc, NEW n \in Nat, given[p] <= n,
         given' = [given EXCEPT ![p] = n]
  PROVE  /\ Given \subseteq Given'
         /\ \A i \in 1..n : Wants[p][i] \in Given'
         /\ \A mounts : GoodList(mounts, Given) => GoodList(mounts, Given')
<1>1. given \in [Proc -> Nat]
  BY DEF StoreInv, TypeOK
<1>2. \A q \in Proc : 1..given[q] \subseteq 1..given'[q]
  BY <1>1
<1>3. Given \subseteq Given'
  BY <1>2 DEF Given
<1>4. \A i \in 1..n : Wants[p][i] \in Given'
  BY <1>1 DEF Given
<1>5. ASSUME NEW mounts, GoodList(mounts, Given) PROVE GoodList(mounts, Given')
  BY <1>3, <1>5 DEF GoodList, Only
<1> QED
  BY <1>3, <1>4, <1>5

\* What the model assumes of the entries that processes want.
LEMMA WantedEntries ==
  ASSUME NEW p \in Proc
  PROVE  /\ Wants[p] \in Seq(Entry) /\ Len(Wants[p]) \in Nat
         /\ \A i \in 1..Len(Wants[p]) : Wants[p][i] \in Entry \ AutoEntries
         /\ p \in Shell => Flags[p] \in Nat /\ Flags[p] <= Len(Wants[p])
         /\ p \notin Shell \cup Viewer => Len(Wants[p]) = 1
<1>1. Wants[p] \in Seq(Entry)
  BY StoreAssumption
<1>2. Len(Wants[p]) \in Nat /\ \A i \in 1..Len(Wants[p]) : Wants[p][i] \in Entry
  BY <1>1, LenProperties, ElementOfSeq
<1>3. \A i \in 1..Len(Wants[p]) : Wants[p][i] \notin AutoEntries
  BY StoreAssumption DEF AutoEntries, ProcfsEntry, SrvfsEntry, P9Entry
<1> QED
  BY <1>1, <1>2, <1>3, StoreAssumption

\* A change of one list in memory, to one that is good once what the process is given
\* counts as asked for.
LEMMA EditStep ==
  ASSUME StoreInv, NEW p \in Proc, NEW n \in Nat, given[p] <= n, n <= Len(Wants[p]),
         given' = [given EXCEPT ![p] = n],
         GoodList(mem'[p], Given'), \E list : mem' = [mem EXCEPT ![p] = list],
         pc[p] # "write", Goto(p, "truncate"),
         UNCHANGED <<place, disk, file, alone, loaded, clean>>, ideal' \in [Dir -> Seq(Entry)]
  PROVE  StoreInv'
<1>1. \A mounts : GoodList(mounts, Given) => GoodList(mounts, Given')
  BY GivenGrows
<1>2. \A q \in Proc : GoodList(mem'[q], Given')
  BY <1>1 DEF StoreInv, TypeOK
<1>3. \A dir \in Dir \cup {"nowhere"} : GoodList(disk'[dir].mounts, Given')
  BY <1>1 DEF StoreInv
<1>4. \A q \in Proc : given'[q] <= Len(Wants[q])
  BY DEF StoreInv, TypeOK
<1>5. \A q \in Proc : pc'[q] \in {"start", "edit"} => given'[q] = 0
  BY DEF StoreInv, TypeOK, Goto
<1>6. TypeOK'
  <2>1. mem' \in [Proc -> Seq(Entry)]
    BY <1>2 DEF GoodList, StoreInv, TypeOK
  <2> QED
    BY <2>1 DEF StoreInv, TypeOK, Goto, Label, place
<1> QED
  BY <1>2, <1>3, <1>4, <1>5, <1>6 DEF StoreInv

\* A step that edits nothing: what it puts into a file or into memory is a good list, or
\* was one already.
LEMMA CopyStep ==
  ASSUME StoreInv, NEW p \in Proc, NEW label \in Label \ {"start"},
         NEW dir \in Dir \cup {"nowhere"}, NEW open \in Dir \cup {"nowhere"},
         NEW content \in [kind : DiskKind, mounts : Seq(Entry)],
         label = "edit" => pc[p] = "start",
         Goto(p, label), UNCHANGED <<place, given>>,
         disk' = [disk EXCEPT ![dir] = content],
         content.kind # "whole" => content.mounts = << >>,
         content.mounts \in {<< >>, disk[dir].mounts, mem[p]},
         file' = [file EXCEPT ![p] = open], label = "write" <=> open # "nowhere",
         mem' \in {mem, [mem EXCEPT ![p] = << >>], [mem EXCEPT ![p] = disk[StoragePath].mounts]},
         alone' \in [Proc -> BOOLEAN] /\ loaded' \in [Proc -> Dir \cup {"nowhere"}], clean' \in BOOLEAN, ideal' = ideal
  PROVE  StoreInv'
<1>1. Given' = Given
  BY DEF Given
<1>2. \A d \in Dir \cup {"nowhere"} : GoodList(disk'[d].mounts, Given)
  <2>1. GoodList(content.mounts, Given)
    BY EmptyIsGood DEF StoreInv
  <2> QED
    BY <2>1 DEF StoreInv, TypeOK
<1>3. \A q \in Proc : GoodList(mem'[q], Given)
  <2>1. StoragePath \in Dir \cup {"nowhere"}
    BY DEF StoragePath, Dir
  <2>2. GoodList(disk[StoragePath].mounts, Given) /\ GoodList(<< >>, Given)
    BY <2>1, EmptyIsGood DEF StoreInv
  <2>3. \A q \in Proc : mem'[q] \in {mem[q], << >>, disk[StoragePath].mounts}
    BY DEF StoreInv, TypeOK
  <2> QED
    BY <2>2, <2>3 DEF StoreInv
<1>4. \A q \in Proc : pc'[q] \in {"start", "edit"} => given'[q] = 0
  BY DEF StoreInv, TypeOK, Goto
<1>5. TypeOK'
  <2>1. mem' \in [Proc -> Seq(Entry)]
    BY <1>3 DEF GoodList, StoreInv, TypeOK
  <2>2. /\ pc' \in [Proc -> Label] /\ file' \in [Proc -> Dir \cup {"nowhere"}]
        /\ \A q \in Proc : pc'[q] = "write" <=> file'[q] # "nowhere"
    BY DEF StoreInv, TypeOK, Goto
  <2>3. /\ disk' \in [Dir \cup {"nowhere"} -> [kind : DiskKind, mounts : Seq(Entry)]]
        /\ \A d \in DOMAIN disk' : disk'[d].kind # "whole" => disk'[d].mounts = << >>
    BY DEF StoreInv, TypeOK
  <2> QED
    BY <2>1, <2>2, <2>3 DEF StoreInv, TypeOK, place
<1> QED
  BY <1>1, <1>2, <1>3, <1>4, <1>5 DEF StoreInv

\* The lists that bind, mount and 10_ns build are good.
LEMMA AddedIsGood ==
  ASSUME StoreInv, NEW p \in Proc, NEW mounts, GoodList(mounts, Given),
         NEW n \in Nat, given[p] <= n, n <= Len(Wants[p]), given' = [given EXCEPT ![p] = n]
  PROVE  /\ n = 1 /\ p \notin Shell \cup Viewer => GoodList(HelperAdds(p, mounts), Given')
         /\ p \in Shell /\ n = Flags[p] => GoodList(ShellAdds(p, mounts), Given')
         /\ n > 0 => GoodList(Append(mounts, Wants[p][n]), Given')
<1>1. GoodList(mounts, Given') /\ \A i \in 1..n : Wants[p][i] \in Given'
  BY GivenGrows
<1>2. /\ Wants[p] \in Seq(Entry) /\ Len(Wants[p]) \in Nat
      /\ \A i \in 1..Len(Wants[p]) : Wants[p][i] \in Entry \ AutoEntries
  BY WantedEntries
<1>3. ASSUME n = 1, p \notin Shell \cup Viewer PROVE GoodList(HelperAdds(p, mounts), Given')
  <2>1. Len(Wants[p]) = 1
    BY <1>3, WantedEntries
  <2>2. Only(Wants[p], Given' \cup AutoEntries)
    BY <1>1, <1>3, <2>1 DEF Only
  <2>3. /\ mounts \o Wants[p] \in Seq(Entry)
        /\ Only(mounts \o Wants[p], Given' \cup AutoEntries)
    BY <1>1, <1>2, <2>2, OnlyConcat DEF GoodList
  <2>4. AutoMountsYieldIn(mounts \o Wants[p])
    BY <1>1, <1>2, YieldConcat DEF GoodList, AutoEntries
  <2> QED
    BY <1>3, <2>3, <2>4 DEF GoodList, HelperAdds
<1>4. ASSUME p \in Shell, n = Flags[p] PROVE GoodList(ShellAdds(p, mounts), Given')
  <2> DEFINE flags == SubSeq(Wants[p], 1, Flags[p])
             list == EnsureAll(mounts)
  <2>1. /\ flags \in Seq(Entry) /\ Len(flags) = n
        /\ \A i \in 1..n : flags[i] = Wants[p][i]
    <3>1. \A i \in 1..n : Wants[p][i] \in Entry
      BY <1>2
    <3> QED
      BY <1>4, <3>1, SubSeqProperties
  <2>2. Only(flags, Given' \cup AutoEntries) /\ \A i \in 1..Len(flags) : flags[i] \notin AutoEntries
    BY <1>1, <1>2, <2>1 DEF Only
  <2>3. list \in Seq(Entry) /\ AutoMountsYieldIn(list) /\ Only(list, Given' \cup AutoEntries)
    BY <1>1, EnsureKeeps DEF GoodList, AutoEntries
  <2> HIDE DEF flags, list
  <2>4. GoodList(list \o flags, Given')
    BY <2>1, <2>2, <2>3, OnlyConcat, YieldConcat DEF GoodList, AutoEntries
  <2> QED
    BY <1>4, <2>4 DEF ShellAdds, flags, list
<1>5. ASSUME n > 0 PROVE GoodList(Append(mounts, Wants[p][n]), Given')
  <2>1. Wants[p][n] \in Entry /\ Wants[p][n] \notin AutoEntries /\ Wants[p][n] \in Given'
    BY <1>1, <1>2, <1>5
  <2>2. Append(mounts, Wants[p][n]) \in Seq(Entry)
        /\ Only(Append(mounts, Wants[p][n]), Given' \cup AutoEntries)
    BY <1>1, <2>1, OnlyAppend DEF GoodList
  <2>3. AutoMountsYieldIn(Append(mounts, Wants[p][n]))
    BY <1>1, <2>1, YieldAppend DEF GoodList, AutoEntries
  <2> QED
    BY <1>5, <2>2, <2>3 DEF GoodList
<1> QED
  BY <1>3, <1>4, <1>5

\* The list a store would hold that applies each change at once stays a list.
LEMMA IdealIsList ==
  ASSUME StoreInv, NEW p \in Proc, NEW mounts \in Seq(Entry)
  PROVE  /\ HelperAdds(p, mounts) \in Seq(Entry)
         /\ p \in Shell => ShellAdds(p, mounts) \in Seq(Entry)
         /\ \A n \in 1..Len(Wants[p]) : Append(mounts, Wants[p][n]) \in Seq(Entry)
         /\ Ideally(mounts) => ideal' \in [Dir -> Seq(Entry)]
<1>1. /\ Wants[p] \in Seq(Entry) /\ Len(Wants[p]) \in Nat
      /\ \A i \in 1..Len(Wants[p]) : Wants[p][i] \in Entry
  BY WantedEntries
<1>2. p \in Shell => SubSeq(Wants[p], 1, Flags[p]) \in Seq(Entry)
  <2> SUFFICES ASSUME p \in Shell PROVE SubSeq(Wants[p], 1, Flags[p]) \in Seq(Entry)
    OBVIOUS
  <2>1. Flags[p] \in Nat /\ \A i \in 1..Flags[p] : Wants[p][i] \in Entry
    BY <1>1, WantedEntries
  <2> QED
    BY <2>1, SubSeqProperties
<1>3. EnsureAll(mounts) \in Seq(Entry)
  BY EnsureIsList
<1>4. \A n \in 1..Len(Wants[p]) : Append(mounts, Wants[p][n]) \in Seq(Entry)
  BY <1>1, AppendProperties
<1>5. HelperAdds(p, mounts) \in Seq(Entry)
  BY <1>1, ConcatProperties DEF HelperAdds
<1>6. p \in Shell => ShellAdds(p, mounts) \in Seq(Entry)
  BY <1>2, <1>3, ConcatProperties DEF ShellAdds
<1>7. Ideally(mounts) => ideal' \in [Dir -> Seq(Entry)]
  BY EmptySeq DEF Ideally, StoreInv, TypeOK
<1> QED
  BY <1>4, <1>5, <1>6, <1>7

\* Every step of every process keeps the invariant.
LEMMA StepKeepsStoreInv ==
  ASSUME StoreInv, NEW p \in Proc, Step(p)
  PROVE  StoreInv'
<1>2. /\ TypeOK /\ GoodList(mem[p], Given)
      /\ Len(Wants[p]) \in Nat /\ Ideal \in Seq(Entry) /\ given[p] \in Nat
      /\ given[p] <= Len(Wants[p])
      /\ StoragePath \in Dir \cup {"nowhere"} /\ file[p] \in Dir \cup {"nowhere"}
  <2>1. StoragePath \in Dir \cup {"nowhere"} /\ (StoragePath # "nowhere" => StoragePath \in Dir)
    BY DEF StoragePath, Dir
  <2>2. Ideal \in Seq(Entry)
    BY <2>1, EmptySeq DEF Ideal, StoreInv, TypeOK
  <2> QED
    BY <2>1, <2>2, WantedEntries DEF StoreInv, TypeOK
<1>3. ASSUME NEW label \in {"prompt", "done"}, Continue(p, label)
      PROVE  /\ Goto(p, label) /\ label \in Label \ {"start", "edit"}
             /\ mem' \in {mem, [mem EXCEPT ![p] = << >>]} /\ alone' \in [Proc -> BOOLEAN] /\ loaded' \in [Proc -> Dir \cup {"nowhere"}]
  BY <1>2, <1>3 DEF Continue, TypeOK, Label
<1>4. AfterSave(p) \in {"prompt", "done"}
  BY DEF AfterSave
<1>5. \A mounts : Unreadable("empty").mounts = << >> /\ Unreadable("garbled").mounts = << >>
                  /\ Whole(mounts).mounts = mounts /\ Whole(mounts).kind = "whole"
                  /\ Unreadable("empty").kind = "empty" /\ Unreadable("garbled").kind = "garbled"
  BY DEF Unreadable, Whole
<1>6. /\ Unreadable("empty") \in [kind : DiskKind, mounts : Seq(Entry)]
      /\ Unreadable("garbled") \in [kind : DiskKind, mounts : Seq(Entry)]
      /\ Whole(mem[p]) \in [kind : DiskKind, mounts : Seq(Entry)]
      /\ \A dir \in Dir \cup {"nowhere"} :
           /\ disk[dir] \in [kind : DiskKind, mounts : Seq(Entry)]
           /\ disk[dir].kind # "whole" => disk[dir].mounts = << >>
           /\ disk = [disk EXCEPT ![dir] = disk[dir]]
  BY <1>2, EmptySeq DEF Unreadable, Whole, DiskKind, GoodList, TypeOK
\* a process that leaves the files alone, and has none open
<1>21. ASSUME NEW label \in Label \ {"start", "write"}, pc[p] # "write",
              label = "edit" => pc[p] = "start",
              Goto(p, label), UNCHANGED <<place, disk, file, given>>,
              mem' \in {mem, [mem EXCEPT ![p] = << >>], [mem EXCEPT ![p] = disk[StoragePath].mounts]},
              alone' \in [Proc -> BOOLEAN] /\ loaded' \in [Proc -> Dir \cup {"nowhere"}], clean' \in BOOLEAN, ideal' = ideal
       PROVE  StoreInv'
  <2> DEFINE content == disk["nowhere"]
  <2>1. content \in [kind : DiskKind, mounts : Seq(Entry)] /\ disk' = [disk EXCEPT !["nowhere"] = content]
        /\ (content.kind # "whole" => content.mounts = << >>)
        /\ content.mounts \in {<< >>, disk["nowhere"].mounts, mem[p]}
    BY <1>6, <1>21
  <2>2. file' = [file EXCEPT ![p] = "nowhere"] /\ label # "write"
    BY <1>2, <1>21 DEF TypeOK
  <2>3. UNCHANGED <<place, given>> /\ label \in Label \ {"start"} /\ Goto(p, label)
        /\ (label = "edit" => pc[p] = "start") /\ ideal' = ideal
        /\ alone' \in [Proc -> BOOLEAN] /\ loaded' \in [Proc -> Dir \cup {"nowhere"}] /\ clean' \in BOOLEAN
    BY <1>21
  <2>4. mem' \in {mem, [mem EXCEPT ![p] = << >>], [mem EXCEPT ![p] = disk[StoragePath].mounts]}
    BY <1>21
  <2>5. "nowhere" \in Dir \cup {"nowhere"}
    OBVIOUS
  <2> HIDE DEF content
  <2> QED
    BY <2>1, <2>2, <2>3, <2>4, <2>5, CopyStep
\* a process that closes its file, or never had one open, and leaves it with some content
<1>22. ASSUME NEW label \in {"prompt", "done"}, Continue(p, label), UNCHANGED <<place, given, ideal>>,
              NEW content \in {disk[file[p]], Unreadable("garbled"), Whole(mem[p])},
              disk' = [disk EXCEPT ![file[p]] = content],
              file' = [file EXCEPT ![p] = "nowhere"], clean' \in BOOLEAN
       PROVE  StoreInv'
  <2>1. /\ content \in [kind : DiskKind, mounts : Seq(Entry)]
        /\ content.kind # "whole" => content.mounts = << >>
        /\ content.mounts \in {<< >>, disk[file[p]].mounts, mem[p]}
    BY <1>2, <1>5, <1>6, <1>22
  <2>2. file' = [file EXCEPT ![p] = "nowhere"] /\ label # "write"
    BY <1>22
  <2>3. /\ Goto(p, label) /\ label \in Label \ {"start"} /\ label # "edit"
        /\ mem' \in {mem, [mem EXCEPT ![p] = << >>], [mem EXCEPT ![p] = disk[StoragePath].mounts]}
        /\ alone' \in [Proc -> BOOLEAN] /\ loaded' \in [Proc -> Dir \cup {"nowhere"}]
    BY <1>3, <1>22
  <2>4. UNCHANGED <<place, given>> /\ ideal' = ideal
    BY <1>22
  <2> QED
    BY <1>2, <1>22, <2>1, <2>2, <2>3, <2>4, CopyStep
<1>7. CASE Load(p)
  <2>1. /\ clean' \in BOOLEAN /\ alone' \in [Proc -> BOOLEAN] /\ loaded' \in [Proc -> Dir \cup {"nowhere"}]
    BY <1>2, <1>7 DEF Load, TypeOK
  <2> QED
    BY <1>7, <1>21, <2>1 DEF Load, Label
<1>8. CASE Edit(p)
  <2> DEFINE n == 1
  <2>1. /\ n \in Nat /\ given[p] <= n /\ n <= Len(Wants[p])
        /\ given' = [given EXCEPT ![p] = n]
        /\ p \notin Shell \cup Viewer /\ n = 1
    <3>1. given[p] = 0 /\ Len(Wants[p]) = 1
      BY <1>8, WantedEntries DEF Edit, StoreInv
    <3> QED
      BY <1>8, <3>1 DEF Edit
  <2>2. mem' = [mem EXCEPT ![p] = HelperAdds(p, mem[p])] /\ mem'[p] = HelperAdds(p, mem[p])
    BY <1>2, <1>8 DEF Edit, TypeOK
  <2>3. Ideally(HelperAdds(p, Ideal)) /\ Goto(p, "truncate") /\ UNCHANGED <<place, disk, file, alone, loaded, clean>> /\ pc[p] # "write"
    BY <1>8 DEF Edit
  <2> HIDE DEF n
  <2>4. GoodList(mem'[p], Given')
    BY <1>2, <2>1, <2>2, AddedIsGood
  <2>5. ideal' \in [Dir -> Seq(Entry)]
    BY <1>2, <2>1, <2>3, IdealIsList
  <2> QED
    BY <2>1, <2>2, <2>3, <2>4, <2>5, EditStep
<1>9. CASE StartShell(p)
  <2> DEFINE n == Flags[p]
  <2>1. /\ n \in Nat /\ given[p] <= n /\ n <= Len(Wants[p])
        /\ given' = [given EXCEPT ![p] = n]
        /\ p \in Shell /\ n = Flags[p]
    <3>1. given[p] = 0 /\ Flags[p] \in Nat /\ Flags[p] <= Len(Wants[p])
      BY <1>9, WantedEntries DEF StartShell, StoreInv
    <3> QED
      BY <1>9, <3>1 DEF StartShell
  <2>2. mem' = [mem EXCEPT ![p] = ShellAdds(p, mem[p])] /\ mem'[p] = ShellAdds(p, mem[p])
    BY <1>2, <1>9 DEF StartShell, TypeOK
  <2>3. Ideally(ShellAdds(p, Ideal)) /\ Goto(p, "truncate") /\ UNCHANGED <<place, disk, file, alone, loaded, clean>> /\ pc[p] # "write"
    BY <1>9 DEF StartShell
  <2> HIDE DEF n
  <2>4. GoodList(mem'[p], Given')
    BY <1>2, <2>1, <2>2, AddedIsGood
  <2>5. ideal' \in [Dir -> Seq(Entry)]
    BY <1>2, <2>1, <2>3, IdealIsList
  <2> QED
    BY <2>1, <2>2, <2>3, <2>4, <2>5, EditStep
<1>10. CASE Builtin(p)
  <2> DEFINE n == given[p] + 1
  <2>1. n \in Nat /\ n > 0 /\ n \in 1..Len(Wants[p]) /\ given[p] <= n /\ n <= Len(Wants[p])
    BY <1>2, <1>10 DEF Builtin
  <2>2. /\ mem' = [mem EXCEPT ![p] = Append(mem[p], Wants[p][n])]
        /\ mem'[p] = Append(mem[p], Wants[p][n])
        /\ given' = [given EXCEPT ![p] = n]
    BY <1>2, <1>10 DEF Builtin, TypeOK
  <2>3. Ideally(Append(Ideal, Wants[p][n])) /\ Goto(p, "truncate") /\ UNCHANGED <<place, disk, file, alone, loaded, clean>> /\ pc[p] # "write"
    BY <1>10 DEF Builtin
  <2> HIDE DEF n
  <2>4. GoodList(mem'[p], Given')
    BY <1>2, <2>1, <2>2, AddedIsGood
  <2>5. ideal' \in [Dir -> Seq(Entry)]
    BY <1>2, <2>1, <2>3, IdealIsList
  <2> QED
    BY <2>1, <2>2, <2>3, <2>4, <2>5, EditStep
<1>11. CASE BadFlag(p) \/ Exit(p) \/ Show(p)
  BY <1>2, <1>3, <1>11, <1>21 DEF BadFlag, Exit, Show, TypeOK
<1>12. CASE Nsctl(p)
  BY <1>2, <1>12, <1>21 DEF Nsctl, TypeOK, Label
<1>13. CASE Truncate(p)
  <2> DEFINE content == Unreadable("empty")
  <2>1. /\ content \in [kind : DiskKind, mounts : Seq(Entry)] /\ content.mounts = << >>
        /\ disk' = [disk EXCEPT ![StoragePath] = content]
    BY <1>5, <1>6, <1>13 DEF Truncate
  <2>2. file' = [file EXCEPT ![p] = StoragePath] /\ StoragePath # "nowhere"
    BY <1>13 DEF Truncate
  <2>3. /\ Goto(p, "write") /\ UNCHANGED <<place, given>> /\ mem' = mem /\ ideal' = ideal
        /\ alone' \in [Proc -> BOOLEAN] /\ loaded' \in [Proc -> Dir \cup {"nowhere"}] /\ clean' \in BOOLEAN
    BY <1>2, <1>13 DEF Truncate, TypeOK
  <2>4. "write" \in Label \ {"start"}
    BY DEF Label
  <2> HIDE DEF content
  <2> QED
    BY <1>2, <2>1, <2>2, <2>3, <2>4, CopyStep
<1>14. CASE Write(p)
  <2>1. PICK content \in Written(disk[file[p]], mem[p]) : disk' = [disk EXCEPT ![file[p]] = content]
    BY <1>14 DEF Write
  <2>2. content \in {disk[file[p]], Unreadable("garbled"), Whole(mem[p])}
    BY <2>1 DEF Written
  <2> QED
    BY <1>2, <1>4, <1>14, <1>22, <2>1, <2>2 DEF Write, TypeOK
<1>15. CASE NowhereToSave(p) \/ OpenFails(p)
  BY <1>2, <1>3, <1>4, <1>15, <1>21 DEF NowhereToSave, OpenFails, TypeOK
<1>16. CASE WriteFails(p)
  <2>1. PICK content \in {disk[file[p]], Unreadable("garbled")} : disk' = [disk EXCEPT ![file[p]] = content]
    BY <1>16 DEF WriteFails
  <2> QED
    BY <1>4, <1>16, <1>22, <2>1 DEF WriteFails
<1>17. CASE Kill(p)
  <2>1. disk' = [disk EXCEPT ![file[p]] = disk[file[p]]]
    BY <1>2, <1>6, <1>17 DEF Kill
  <2>2. clean' \in BOOLEAN
    BY <1>2, <1>17 DEF Kill, TypeOK
  <2> QED
    BY <1>17, <1>22, <2>1, <2>2 DEF Kill
<1> QED
  BY <1>7, <1>8, <1>9, <1>10, <1>11, <1>12, <1>13, <1>14, <1>15, <1>16, <1>17 DEF Step

\* A directory that comes or goes takes no list along.
LEMMA MoveKeepsStoreInv ==
  ASSUME StoreInv, DirMoves
  PROVE  StoreInv'
<1>1. Given' = Given
  BY DEF DirMoves, Given
<1>2. TypeOK'
  <2>1. moves' \in 0..MaxMoves
    BY StoreAssumption DEF DirMoves, StoreInv, TypeOK
  <2> QED
    BY <2>1 DEF DirMoves, StoreInv, TypeOK
<1> QED
  BY <1>1, <1>2 DEF DirMoves, StoreInv

\* The invariant holds of every state the processes reach.
THEOREM StoreInvariant == Spec => []StoreInv
<1>1. Init => StoreInv
  <2> SUFFICES ASSUME Init PROVE StoreInv
    OBVIOUS
  <2>1. TypeOK
    BY EmptySeq, StoreAssumption DEF Init, TypeOK, Unreadable, DiskKind, Label
  <2>2. /\ \A dir \in Dir \cup {"nowhere"} : disk[dir].mounts = << >>
        /\ \A p \in Proc : mem[p] = << >>
    BY DEF Init, Unreadable
  <2>3. \A p \in Proc : given[p] = 0 /\ given[p] <= Len(Wants[p])
    BY WantedEntries DEF Init
  <2> QED
    BY <2>1, <2>2, <2>3, EmptyIsGood DEF StoreInv
<1>2. StoreInv /\ [Next]_vars => StoreInv'
  <2>1. StoreInv /\ UNCHANGED vars => StoreInv'
    <3> SUFFICES ASSUME StoreInv, UNCHANGED vars PROVE StoreInv'
      OBVIOUS
    <3>1. Given' = Given
      BY DEF vars, Given
    <3>2. TypeOK'
      BY DEF StoreInv, vars, place, TypeOK
    <3> QED
      BY <3>1, <3>2 DEF StoreInv, vars, place
  <2> QED
    BY <2>1, StepKeepsStoreInv, MoveKeepsStoreInv DEF Next
<1> QED
  BY <1>1, <1>2, PTL DEF Spec

\* The file, the lists in memory and the counters are always of their types.
THEOREM StoreTypeCorrect == Spec => []TypeOK
<1>1. StoreInv => TypeOK
  BY DEF StoreInv
<1> QED
  BY <1>1, StoreInvariant, PTL

\* However processes interleave, die or fail to save, ns.json and every list in
\* memory hold only what somebody asked for and the automatic mounts.
THEOREM NothingInvented == Spec => []NoInventedEntries
<1>1. StoreInv => NoInventedEntries
  BY DEF StoreInv, NoInventedEntries, Lists, TypeOK, GoodList, Only, AutoEntries
<1> QED
  BY <1>1, StoreInvariant, PTL

\* However they interleave, the automatic mounts are in no list twice and never
\* behind another mount on their target.
THEOREM AutoMountsAlwaysYield == Spec => []AutoMountsYield
<1>1. StoreInv => AutoMountsYield
  BY DEF StoreInv, AutoMountsYield, Lists, TypeOK, GoodList
<1> QED
  BY <1>1, StoreInvariant, PTL

(***************************************************************************)
(* What a process that runs alone leaves behind                            *)
(***************************************************************************)
\* nsctl never saves; nobody else saves while a process runs alone; and the file that such
\* a process has open is the empty one that it made.
AloneInv ==
  /\ \A p \in Viewer : pc[p] \in {"start", "edit", "done"}
  /\ \A p \in Proc : alone[p] => Running(p) /\ \A q \in Proc \ {p} : ~Saving(q)
  /\ \A p \in Proc : alone[p] /\ pc[p] = "write" => disk[file[p]].kind = "empty"

\* A process that goes on or ends is as much alone as before, and takes nobody's place.
LEMMA GoingOnKeepsAlone ==
  ASSUME TypeOK, AloneInv, NEW p \in Proc, Running(p), NEW label \in Label \ {"start"}, Goto(p, label),
         label \in {"edit", "done"} \/ p \notin Viewer,
         label = "done" => alone' = [alone EXCEPT ![p] = FALSE], label # "done" => alone' = alone,
         \/ UNCHANGED <<disk, file>> /\ label # "write"
         \/ pc[p] = "write" /\ label # "write" /\ \A q \in Proc \ {p} : file'[q] = file[q]
         \/ p \notin Viewer /\ file' \in [Proc -> Dir \cup {"nowhere"}] /\ disk'[file'[p]].kind = "empty"
  PROVE  AloneInv'
<1>1. /\ pc'[p] = label /\ \A q \in Proc \ {p} : pc'[q] = pc[q]
      /\ \A q \in Proc : alone'[q] => alone[q]
      /\ alone'[p] => label # "done"
  BY DEF TypeOK, Goto
<1>2. \A q \in Viewer : pc'[q] \in {"start", "edit", "done"}
  BY <1>1, StoreAssumption DEF AloneInv, Running
<1>3. \A q \in Proc : alone'[q] => Running(q)' /\ \A r \in Proc \ {q} : ~Saving(r)'
  BY <1>1, <1>2 DEF AloneInv, Running, Saving
<1>4. ASSUME NEW q \in Proc, alone'[q], pc'[q] = "write"
      PROVE  disk'[file'[q]].kind = "empty"
  <2>1. CASE q = p
    BY <1>1, <1>4, <2>1
  <2>2. CASE q # p
    <3>1. ~Saving(p) /\ pc[q] = "write" /\ alone[q]
      BY <1>1, <1>4, <2>2 DEF AloneInv
    <3>2. p \in Viewer
      BY <3>1 DEF Saving
    <3>3. UNCHANGED <<disk, file>>
      BY <3>2 DEF AloneInv
    <3> QED
      BY <1>4, <3>1, <3>3 DEF AloneInv
  <2> QED
    BY <2>1, <2>2
<1> QED
  BY <1>2, <1>3, <1>4 DEF AloneInv

\* Every step of every process keeps this invariant too.
LEMMA StepKeepsAlone ==
  ASSUME TypeOK, AloneInv, NEW p \in Proc, Step(p)
  PROVE  AloneInv'
<1>1. ASSUME NEW label \in {"prompt", "done"}, Continue(p, label)
      PROVE  /\ Goto(p, label) /\ label \in Label \ {"start"} /\ label # "write"
             /\ label = "done" => alone' = [alone EXCEPT ![p] = FALSE]
             /\ label # "done" => alone' = alone
  BY <1>1 DEF Continue, Label
<1>2. AfterSave(p) \in {"prompt", "done"}
  BY DEF AfterSave
<1>3. pc[p] \in {"truncate", "write", "prompt"} => p \notin Viewer /\ Running(p)
  BY DEF AloneInv, Running
<1>4. CASE Load(p)
  <2>1. /\ pc'[p] = "edit" /\ \A q \in Proc \ {p} : pc'[q] = pc[q]
        /\ pc[p] = "start" /\ UNCHANGED <<disk, file>>
        /\ alone'[p] => \A r \in Proc : ~Saving(r)
        /\ \A q \in Proc \ {p} : alone'[q] => alone[q] /\ (p \in Viewer \/ ~Running(q))
    BY <1>4 DEF Load, Goto, TypeOK
  <2>2. \A q \in Viewer : pc'[q] \in {"start", "edit", "done"}
    BY <2>1, StoreAssumption DEF AloneInv
  <2>3. \A q \in Proc : alone'[q] => Running(q)' /\ \A r \in Proc \ {q} : ~Saving(r)'
    BY <2>1 DEF AloneInv, Running, Saving
  <2>4. \A q \in Proc : alone'[q] /\ pc'[q] = "write" => disk'[file'[q]].kind = "empty"
    BY <2>1 DEF AloneInv
  <2> QED
    BY <2>2, <2>3, <2>4 DEF AloneInv
<1>5. CASE Show(p) \/ BadFlag(p) \/ Exit(p)
  <2>1. Continue(p, "done") /\ UNCHANGED <<disk, file>> /\ Running(p)
    BY <1>5 DEF Show, BadFlag, Exit, Running
  <2> QED
    BY <1>1, <2>1, GoingOnKeepsAlone
<1>6. CASE Edit(p) \/ StartShell(p) \/ Builtin(p) \/ Nsctl(p)
  <2>1. /\ Goto(p, "truncate") /\ UNCHANGED <<disk, file, alone, loaded>> /\ Running(p)
        /\ p \notin Viewer /\ "truncate" \in Label \ {"start"}
    BY <1>3, <1>6, StoreAssumption DEF Edit, StartShell, Builtin, Nsctl, Running, Label
  <2> QED
    BY <2>1, GoingOnKeepsAlone
<1>7. CASE Truncate(p)
  <2>1. Goto(p, "write") /\ alone' = alone /\ "write" \in Label \ {"start"}
    BY <1>7 DEF Truncate, Label
  <2>2. file' \in [Proc -> Dir \cup {"nowhere"}] /\ file'[p] = StoragePath
    BY <1>7 DEF Truncate, TypeOK, StoragePath, Dir
  <2>3. disk'[StoragePath] = Unreadable("empty")
    BY <1>7 DEF Truncate, TypeOK, StoragePath, Dir
  <2>4. disk'[file'[p]].kind = "empty"
    BY <2>2, <2>3 DEF Unreadable
  <2>5. p \notin Viewer /\ Running(p)
    BY <1>3, <1>7 DEF Truncate
  <2> QED
    BY <2>1, <2>2, <2>4, <2>5, GoingOnKeepsAlone
<1>8. CASE Write(p) \/ WriteFails(p)
  <2>1. /\ Continue(p, AfterSave(p)) /\ pc[p] = "write"
        /\ \A q \in Proc \ {p} : file'[q] = file[q]
    BY <1>8 DEF Write, WriteFails, TypeOK
  <2> QED
    BY <1>1, <1>2, <1>3, <2>1, GoingOnKeepsAlone
<1>9. CASE NowhereToSave(p) \/ OpenFails(p)
  <2>1. Continue(p, AfterSave(p)) /\ pc[p] = "truncate" /\ UNCHANGED <<disk, file>>
    BY <1>9 DEF NowhereToSave, OpenFails
  <2> QED
    BY <1>1, <1>2, <1>3, <2>1, GoingOnKeepsAlone
<1>10. CASE Kill(p)
  <2>1. Continue(p, "done") /\ Running(p) /\ file' = [file EXCEPT ![p] = "nowhere"] /\ disk' = disk
    BY <1>10 DEF Kill
  <2>2. CASE pc[p] = "write"
    <3>1. \A q \in Proc \ {p} : file'[q] = file[q]
      BY <2>1 DEF TypeOK
    <3> QED
      BY <1>1, <2>1, <2>2, <3>1, GoingOnKeepsAlone
  <2>3. CASE pc[p] # "write"
    <3>1. file[p] = "nowhere"
      BY <2>3 DEF TypeOK
    <3>2. file' = file
      BY <2>1, <3>1 DEF TypeOK
    <3> QED
      BY <1>1, <2>1, <3>2, GoingOnKeepsAlone
  <2> QED
    BY <2>2, <2>3
<1> QED
  BY <1>4, <1>5, <1>6, <1>7, <1>8, <1>9, <1>10 DEF Step

\* While a process that runs alone writes, there is nothing in its file but what it writes.
LEMMA AloneWritesWhole ==
  ASSUME TypeOK, AloneInv, NEW p \in Proc, alone[p], Write(p)
  PROVE  disk'[file[p]] = Whole(mem[p])
<1>1. pc[p] = "write" /\ file[p] \in DOMAIN disk
  BY DEF Write, TypeOK
<1>2. disk[file[p]].kind = "empty"
  BY <1>1 DEF AloneInv
<1>3. Written(disk[file[p]], mem[p]) = {Whole(mem[p])}
  BY <1>2 DEF Written
<1>4. disk' = [disk EXCEPT ![file[p]] = Whole(mem[p])]
  BY <1>3 DEF Write
<1> QED
  BY <1>1, <1>4

\* Nobody saves who is not supposed to, in every state the processes reach.
LEMMA AloneInvariant == Spec => []AloneInv
<1>1. Init => AloneInv
  BY StoreAssumption DEF Init, AloneInv
<1>2. TypeOK /\ AloneInv /\ [Next]_vars => AloneInv'
  <2>1. ASSUME TypeOK, AloneInv, DirMoves \/ UNCHANGED vars PROVE AloneInv'
    BY <2>1 DEF AloneInv, DirMoves, vars, Running, Saving
  <2> QED
    BY <2>1, StepKeepsAlone DEF Next
<1> QED
  BY <1>1, <1>2, StoreTypeCorrect, PTL DEF Spec

\* However often processes were killed before, and whatever comes and goes: a process that
\* runs alone leaves a whole file behind with the list it has in memory.
THEOREM AloneRepairs == Spec => RepairedAlone
<1>1. TypeOK /\ AloneInv /\ [Next]_vars
        => [\A p \in Proc : alone[p] /\ Write(p) => disk'[file[p]] = Whole(mem[p])]_vars
  BY AloneWritesWhole
<1> QED
  BY <1>1, AloneInvariant, StoreTypeCorrect, PTL DEF Spec, RepairedAlone

(***************************************************************************)
(* What a process that runs alone overwrites                               *)
(***************************************************************************)
\* What is added to a list takes nothing from it.
LEMMA MoreIsMore ==
  ASSUME NEW a \in Seq(Entry)
  PROVE  /\ \A e \in Entry : ToSet(a) \subseteq ToSet(Append(a, e))
         /\ \A b \in Seq(Entry) : ToSet(a) \subseteq ToSet(a \o b)
<1>1. Len(a) \in Nat /\ DOMAIN a = 1..Len(a)
  BY LenProperties
<1>2. ASSUME NEW e \in Entry PROVE ToSet(a) \subseteq ToSet(Append(a, e))
  <2>1. DOMAIN Append(a, e) = 1..(Len(a) + 1) /\ \A i \in 1..Len(a) : Append(a, e)[i] = a[i]
    BY AppendProperties, LenProperties
  <2> QED
    BY <1>1, <2>1 DEF ToSet
<1>3. ASSUME NEW b \in Seq(Entry) PROVE ToSet(a) \subseteq ToSet(a \o b)
  <2>1. /\ Len(b) \in Nat /\ a \o b \in Seq(Entry) /\ Len(a \o b) = Len(a) + Len(b)
        /\ \A i \in 1..(Len(a) + Len(b)) : (a \o b)[i] = IF i <= Len(a) THEN a[i] ELSE b[i - Len(a)]
    BY ConcatProperties, LenProperties
  <2>2. DOMAIN (a \o b) = 1..(Len(a) + Len(b))
    BY <2>1, LenProperties
  <2>3. \A i \in 1..Len(a) : i \in DOMAIN (a \o b) /\ (a \o b)[i] = a[i]
    BY <1>1, <2>1, <2>2
  <2> QED
    BY <1>1, <2>3 DEF ToSet
<1> QED
  BY <1>2, <1>3

\* Neither what a command adds nor what a shell does takes an entry from the list.
LEMMA AddsToWhatWasFound ==
  ASSUME NEW p \in Proc, NEW a \in Seq(Entry)
  PROVE  /\ ToSet(a) \subseteq ToSet(HelperAdds(p, a))
         /\ p \in Shell => ToSet(a) \subseteq ToSet(ShellAdds(p, a))
         /\ \A n \in 1..Len(Wants[p]) : ToSet(a) \subseteq ToSet(Append(a, Wants[p][n]))
<1>1. /\ Wants[p] \in Seq(Entry) /\ \A n \in 1..Len(Wants[p]) : Wants[p][n] \in Entry
      /\ p \in Shell => Flags[p] \in Nat /\ Flags[p] <= Len(Wants[p])
  BY WantedEntries
<1>2. ASSUME NEW b \in Seq(Entry), NEW e \in {ProcfsEntry, SrvfsEntry}
      PROVE  Ensure(b, e) \in Seq(Entry) /\ ToSet(b) \subseteq ToSet(Ensure(b, e))
  BY AutoEntriesAreEntries, AppendProperties, MoreIsMore DEF Ensure
<1>3. EnsureAll(a) \in Seq(Entry) /\ ToSet(a) \subseteq ToSet(EnsureAll(a))
  <2>1. Ensure(a, ProcfsEntry) \in Seq(Entry) /\ ToSet(a) \subseteq ToSet(Ensure(a, ProcfsEntry))
    BY <1>2
  <2>2. /\ EnsureAll(a) \in Seq(Entry)
        /\ ToSet(Ensure(a, ProcfsEntry)) \subseteq ToSet(EnsureAll(a))
    BY <1>2, <2>1 DEF EnsureAll
  <2> QED
    BY <2>1, <2>2
<1>4. ASSUME p \in Shell PROVE ToSet(a) \subseteq ToSet(ShellAdds(p, a))
  <2>1. SubSeq(Wants[p], 1, Flags[p]) \in Seq(Entry)
    BY <1>1, <1>4, SubSeqProperties
  <2>2. ToSet(EnsureAll(a)) \subseteq ToSet(ShellAdds(p, a))
    BY <1>3, <2>1, MoreIsMore DEF ShellAdds
  <2> QED
    BY <1>3, <2>2
<1>5. ToSet(a) \subseteq ToSet(HelperAdds(p, a))
  BY <1>1, MoreIsMore DEF HelperAdds
<1> QED
  BY <1>1, <1>4, <1>5, MoreIsMore

\* A process that runs alone has in memory what is in the file that it has loaded.
FoundInv == \A p \in Proc : alone[p] => ToSet(disk[loaded[p]].mounts) \subseteq ToSet(mem[p])

\* Nothing is in an empty list.
LEMMA NothingInEmpty == \A S : ToSet(<< >>) \subseteq S
BY EmptySeq DEF ToSet

\* A process that touches a file spoils it for nobody who runs alone.
LEMMA OwnStepKeepsFound ==
  ASSUME AloneInv, FoundInv, NEW p \in Proc, disk' = disk \/ Saving(p),
         \A q \in Proc \ {p} : alone'[q] => alone[q] /\ mem'[q] = mem[q] /\ loaded'[q] = loaded[q],
         alone'[p] => ToSet(disk'[loaded'[p]].mounts) \subseteq ToSet(mem'[p])
  PROVE  FoundInv'
<1> SUFFICES ASSUME NEW q \in Proc \ {p}, alone'[q]
             PROVE  ToSet(disk'[loaded'[q]].mounts) \subseteq ToSet(mem'[q])
  BY DEF FoundInv
<1>1. alone[q] /\ mem'[q] = mem[q] /\ loaded'[q] = loaded[q]
  OBVIOUS
<1>2. disk' = disk
  BY <1>1 DEF AloneInv
<1> QED
  BY <1>1, <1>2 DEF FoundInv

\* Every step of every process keeps that.
LEMMA StepKeepsFound ==
  ASSUME TypeOK, AloneInv, FoundInv, NEW p \in Proc, Step(p)
  PROVE  FoundInv'
<1>1. /\ mem[p] \in Seq(Entry) /\ given[p] \in Nat /\ loaded[p] \in DOMAIN disk
      /\ file[p] \in DOMAIN disk /\ StoragePath \in DOMAIN disk
  BY DEF TypeOK, StoragePath, Dir
<1>2. pc[p] \in {"truncate", "write"} => Saving(p)
  BY DEF AloneInv, Saving, Running
<1>3. alone[p] => ToSet(disk[loaded[p]].mounts) \subseteq ToSet(mem[p])
  BY DEF FoundInv
<1>4. ASSUME NEW label \in {"prompt", "done"}, Continue(p, label)
      PROVE  /\ \A q \in Proc \ {p} : alone'[q] => alone[q] /\ mem'[q] = mem[q] /\ loaded'[q] = loaded[q]
             /\ alone'[p] => alone[p] /\ mem'[p] = mem[p] /\ loaded'[p] = loaded[p]
  BY <1>4 DEF Continue, TypeOK
<1>5. AfterSave(p) \in {"prompt", "done"}
  BY DEF AfterSave
<1>6. CASE Load(p)
  <2>1. disk' = disk /\ loaded'[p] = StoragePath /\ mem'[p] = disk[StoragePath].mounts
    BY <1>6 DEF Load, TypeOK
  <2>2. \A q \in Proc \ {p} : alone'[q] => alone[q] /\ mem'[q] = mem[q] /\ loaded'[q] = loaded[q]
    BY <1>6 DEF Load, TypeOK
  <2> QED
    BY <2>1, <2>2, OwnStepKeepsFound
<1>7. ASSUME NEW list, ToSet(mem[p]) \subseteq ToSet(list), mem' = [mem EXCEPT ![p] = list],
             UNCHANGED <<disk, alone, loaded>>
      PROVE  FoundInv'
  <2>1. mem'[p] = list /\ \A q \in Proc \ {p} : mem'[q] = mem[q]
    BY <1>7 DEF TypeOK
  <2>2. alone'[p] => ToSet(disk'[loaded'[p]].mounts) \subseteq ToSet(mem'[p])
    BY <1>3, <1>7, <2>1
  <2> QED
    BY <1>7, <2>1, <2>2, OwnStepKeepsFound
<1>8. CASE Edit(p)
  BY <1>1, <1>7, <1>8, AddsToWhatWasFound DEF Edit
<1>9. CASE StartShell(p)
  BY <1>1, <1>7, <1>9, AddsToWhatWasFound DEF StartShell
<1>10. CASE Builtin(p)
  <2> DEFINE n == given[p] + 1
  <2>1. n \in 1..Len(Wants[p])
    BY <1>1, <1>10, WantedEntries DEF Builtin
  <2>2. mem' = [mem EXCEPT ![p] = Append(mem[p], Wants[p][n])] /\ UNCHANGED <<disk, alone, loaded>>
    BY <1>10 DEF Builtin
  <2> HIDE DEF n
  <2> QED
    BY <1>1, <1>7, <2>1, <2>2, AddsToWhatWasFound
<1>11. CASE Nsctl(p)
  BY <1>11 DEF Nsctl, FoundInv
<1>12. CASE Truncate(p)
  <2>1. UNCHANGED <<mem, alone, loaded>> /\ disk' = [disk EXCEPT ![StoragePath] = Unreadable("empty")]
        /\ pc[p] = "truncate"
    BY <1>12 DEF Truncate
  <2>2. disk'[loaded[p]].mounts \in {disk[loaded[p]].mounts, << >>}
    BY <1>1, <2>1 DEF TypeOK, Unreadable
  <2>3. alone'[p] => ToSet(disk'[loaded'[p]].mounts) \subseteq ToSet(mem'[p])
    BY <1>3, <2>1, <2>2, NothingInEmpty
  <2> QED
    BY <1>2, <2>1, <2>3, OwnStepKeepsFound
<1>13. CASE Write(p) \/ WriteFails(p)
  <2>1. Continue(p, AfterSave(p)) /\ pc[p] = "write"
    BY <1>13 DEF Write, WriteFails
  <2>2. PICK content : disk' = [disk EXCEPT ![file[p]] = content]
    BY <1>13 DEF Write, WriteFails
  <2>3. content = disk'[file[p]]
    BY <1>1, <2>2 DEF TypeOK
  <2>4. alone[p] => content.mounts \in {disk[file[p]].mounts, << >>, mem[p]}
    <3>1. CASE Write(p)
      <4>1. alone[p] => disk'[file[p]] = Whole(mem[p])
        BY <3>1, AloneWritesWhole
      <4> QED
        BY <2>3, <4>1 DEF Whole
    <3>2. CASE WriteFails(p)
      <4>1. PICK new \in {disk[file[p]], Unreadable("garbled")} : disk' = [disk EXCEPT ![file[p]] = new]
        BY <3>2 DEF WriteFails
      <4>2. content = new
        BY <1>1, <2>3, <4>1 DEF TypeOK
      <4> QED
        BY <4>1, <4>2 DEF Unreadable
    <3> QED
      BY <1>13, <3>1, <3>2
  <2>5. alone[p] => disk'[loaded[p]].mounts \in {disk[loaded[p]].mounts, << >>, mem[p]}
    <3>1. CASE loaded[p] = file[p]
      BY <2>3, <2>4, <3>1
    <3>2. CASE loaded[p] # file[p]
      <4>1. disk'[loaded[p]] = disk[loaded[p]]
        BY <1>1, <2>2, <3>2 DEF TypeOK
      <4> QED
        BY <4>1
    <3> QED
      BY <3>1, <3>2
  <2>6. alone'[p] => ToSet(disk'[loaded'[p]].mounts) \subseteq ToSet(mem'[p])
    BY <1>3, <1>4, <1>5, <2>1, <2>5, NothingInEmpty
  <2> QED
    BY <1>2, <1>4, <1>5, <2>1, <2>6, OwnStepKeepsFound
<1>14. ASSUME NEW label \in {"prompt", "done"}, Continue(p, label), disk' = disk
       PROVE  FoundInv'
  <2>1. alone'[p] => ToSet(disk'[loaded'[p]].mounts) \subseteq ToSet(mem'[p])
    BY <1>3, <1>4, <1>14
  <2> QED
    BY <1>4, <1>14, <2>1, OwnStepKeepsFound
<1>15. CASE Show(p) \/ BadFlag(p) \/ Exit(p) \/ NowhereToSave(p) \/ OpenFails(p) \/ Kill(p)
  BY <1>5, <1>14, <1>15 DEF Show, BadFlag, Exit, NowhereToSave, OpenFails, Kill
<1> QED
  BY <1>6, <1>8, <1>9, <1>10, <1>11, <1>12, <1>13, <1>15 DEF Step

\* However often processes were killed and saves failed before: unless the directories have
\* moved since it loaded, a process that runs alone overwrites no entry that it has not read.
THEOREM FoundStaysKept == Spec => []FoundIsKept
<1>1. Init => FoundInv
  BY DEF Init, FoundInv
<1>2. TypeOK /\ AloneInv /\ FoundInv /\ [Next]_vars => FoundInv'
  <2>1. ASSUME FoundInv, DirMoves \/ UNCHANGED vars PROVE FoundInv'
    BY <2>1 DEF FoundInv, DirMoves, vars
  <2> QED
    BY <2>1, StepKeepsFound DEF Next
<1>3. FoundInv => FoundIsKept
  BY DEF FoundInv, FoundIsKept
<1> QED
  BY <1>1, <1>2, <1>3, AloneInvariant, StoreTypeCorrect, PTL DEF Spec

(***************************************************************************)
(* Processes that save one after the other                                 *)
(***************************************************************************)
\* The file that a process works on is behind, and only while the process has not written it;
\* what the process has in memory is what that file should hold.
Behind(dir) == dir = StoragePath /\ \E p \in Proc : pc[p] \in {"truncate", "write"}

OneByOne ==
  /\ \A p, q \in Proc : Saving(p) /\ Saving(q) => p = q
  /\ \A p \in Proc : Saving(p) /\ StoragePath # "nowhere" => mem[p] = Ideal
  /\ \A p \in Proc : pc[p] = "write" => file[p] = StoragePath /\ disk[file[p]].kind = "empty"
  /\ \A dir \in Dir : Behind(dir) \/ disk[dir].mounts = ideal[dir]

CleanInv == clean => OneByOne

\* What a step of a process finds that does not end the clean time.
OnlySaver(p) ==
  /\ TypeOK /\ OneByOne /\ clean
  /\ \A q \in Viewer : pc[q] \in {"start", "edit", "done"}
  /\ p \notin Viewer /\ \A q \in Proc \ {p} : ~Saving(q)

\* Nobody else has a file open, or works on one.
LEMMA OthersAreIdle ==
  ASSUME NEW p \in Proc, OnlySaver(p), NEW label \in Label, Goto(p, label)
  PROVE  /\ pc'[p] = label
         /\ \A q \in Proc \ {p} : pc'[q] = pc[q] /\ ~Saving(q)' /\ pc'[q] \notin {"truncate", "write"}
<1>1. pc'[p] = label /\ \A q \in Proc \ {p} : pc'[q] = pc[q]
  BY DEF OnlySaver, TypeOK, Goto
<1>2. \A q \in Proc \ {p} : ~Saving(q)' /\ pc'[q] \notin {"truncate", "write"}
  BY <1>1 DEF OnlySaver, Saving, Running
<1> QED
  BY <1>1, <1>2

\* The only process that saves is through, and all files are up to date.
LEMMA EndKeepsOneByOne ==
  ASSUME NEW p \in Proc, OnlySaver(p), NEW label \in {"prompt", "done"}, Continue(p, label),
         \A dir \in Dir : disk'[dir].mounts = ideal[dir],
         StoragePath # "nowhere" => mem[p] = Ideal, UNCHANGED <<place, ideal>>
  PROVE  OneByOne'
<1>1. /\ pc'[p] = label
      /\ \A q \in Proc \ {p} : ~Saving(q)' /\ pc'[q] \notin {"truncate", "write"}
      /\ label = "prompt" => mem' = mem
  BY OthersAreIdle DEF Continue, Label
<1>2. Saving(p)' => label = "prompt"
  BY <1>1 DEF Saving, Running
<1>3. StoragePath' = StoragePath /\ Ideal' = Ideal
  BY DEF place, StoragePath, Ideal
<1>4. \A q \in Proc : Saving(q)' /\ StoragePath' # "nowhere" => mem'[q] = Ideal'
  BY <1>1, <1>2, <1>3
<1>5. \A q \in Proc : pc'[q] # "write"
  BY <1>1
<1> QED
  BY <1>1, <1>4, <1>5 DEF OneByOne

\* The only process that saves changes its list, and each file is to be changed alike.
LEMMA ChangeKeepsOneByOne ==
  ASSUME NEW p \in Proc, OnlySaver(p), NEW mounts, Goto(p, "truncate"),
         UNCHANGED <<place, disk>>, \A q \in Proc : pc[q] \notin {"truncate", "write"},
         StoragePath # "nowhere" => mem'[p] = mounts, Ideally(mounts)
  PROVE  OneByOne'
<1>1. /\ pc'[p] = "truncate"
      /\ \A q \in Proc \ {p} : ~Saving(q)' /\ pc'[q] \notin {"truncate", "write"}
  BY OthersAreIdle DEF Label
<1>2. StoragePath' = StoragePath /\ (StoragePath # "nowhere" => StoragePath \in Dir)
  BY DEF place, StoragePath, Dir
<1>3. ideal' = [dir \in Dir |-> IF dir = StoragePath THEN mounts ELSE ideal[dir]]
  BY DEF Ideally, OnlySaver
<1>4. StoragePath # "nowhere" => Ideal' = mounts
  BY <1>2, <1>3 DEF Ideal
<1>5. \A q \in Proc : Saving(q)' /\ StoragePath' # "nowhere" => mem'[q] = Ideal'
  BY <1>1, <1>2, <1>4
<1>6. \A dir \in Dir : Behind(dir)' \/ disk'[dir].mounts = ideal'[dir]
  <2>1. \A dir \in Dir : dir = StoragePath => Behind(dir)'
    BY <1>1, <1>2 DEF Behind
  <2>2. \A dir \in Dir : disk[dir].mounts = ideal[dir]
    BY DEF OnlySaver, OneByOne, Behind
  <2> QED
    BY <1>3, <2>1, <2>2
<1> QED
  BY <1>1, <1>5, <1>6 DEF OneByOne

\* Every step of every process keeps the files behind by no more than the save under way.
LEMMA StepKeepsClean ==
  ASSUME TypeOK, AloneInv, CleanInv, NEW p \in Proc, Step(p)
  PROVE  CleanInv'
<1> SUFFICES ASSUME clean' PROVE OneByOne'
  BY DEF CleanInv
<1>1. clean
  BY DEF Step, Load, Show, Edit, StartShell, BadFlag, Builtin, Nsctl, Exit, Truncate, Write,
         NowhereToSave, OpenFails, WriteFails, Kill
<1>2. OneByOne /\ \A q \in Viewer : pc[q] \in {"start", "edit", "done"}
  BY <1>1 DEF CleanInv, AloneInv
<1>3. Saving(p) => OnlySaver(p)
  BY <1>1, <1>2 DEF OnlySaver, OneByOne, Saving
<1>4. Saving(p) => (StoragePath # "nowhere" => mem[p] = Ideal)
  BY <1>2 DEF OneByOne
<1>5. Saving(p) /\ pc[p] \notin {"truncate", "write"} =>
        /\ \A q \in Proc : pc[q] \notin {"truncate", "write"}
        /\ \A dir \in Dir : disk[dir].mounts = ideal[dir]
  <2>1. \A q \in Proc : pc[q] \in {"truncate", "write"} => Saving(q)
    BY <1>2 DEF Saving, Running
  <2> QED
    BY <1>2, <2>1 DEF OneByOne, Behind
<1>6. pc[p] \in {"truncate", "write", "prompt"} => Saving(p)
  BY <1>2 DEF Saving, Running
\* whoever only looks leaves everything to the others
<1>7. ASSUME p \in Viewer, NEW label \in {"edit", "done"}, Goto(p, label),
             UNCHANGED <<place, disk, ideal>>, NEW list, mem' = [mem EXCEPT ![p] = list],
             \A q \in Proc \ {p} : file'[q] = file[q]
      PROVE  OneByOne'
  <2>1. /\ pc'[p] = label /\ \A q \in Proc \ {p} : pc'[q] = pc[q] /\ mem'[q] = mem[q]
        /\ pc[p] \in {"start", "edit", "done"}
    BY <1>2, <1>7 DEF TypeOK, Goto
  <2>2. /\ ~Saving(p)' /\ \A q \in Proc \ {p} : Saving(q)' = Saving(q)
        /\ \A q \in Proc : pc'[q] \in {"truncate", "write"} <=> pc[q] \in {"truncate", "write"}
        /\ \A q \in Proc : pc'[q] = "write" => pc[q] = "write" /\ q # p
    BY <1>7, <2>1 DEF Saving, Running
  <2>3. StoragePath' = StoragePath /\ Ideal' = Ideal
    BY <1>7 DEF place, StoragePath, Ideal
  <2>4. \A dir \in Dir : Behind(dir)' = Behind(dir)
    BY <2>2, <2>3 DEF Behind
  <2>5. \A q, r \in Proc : Saving(q)' /\ Saving(r)' => q = r
    BY <1>2, <2>2 DEF OneByOne
  <2>6. \A q \in Proc : Saving(q)' /\ StoragePath' # "nowhere" => mem'[q] = Ideal'
    BY <1>2, <2>1, <2>2, <2>3 DEF OneByOne
  <2>7. \A q \in Proc : pc'[q] = "write" => file'[q] = StoragePath' /\ disk'[file'[q]].kind = "empty"
    BY <1>2, <1>7, <2>2, <2>3 DEF OneByOne
  <2>8. \A dir \in Dir : Behind(dir)' \/ disk'[dir].mounts = ideal'[dir]
    BY <1>2, <1>7, <2>4 DEF OneByOne
  <2> QED
    BY <2>5, <2>6, <2>7, <2>8 DEF OneByOne
<1>8. CASE Load(p)
  <2>1. CASE p \in Viewer
    BY <1>7, <1>8, <2>1 DEF Load
  <2>2. CASE p \notin Viewer
    <3>1. \A q \in Proc : ~Saving(q)
      BY <1>8, <2>2 DEF Load
    <3>2. /\ pc'[p] = "edit"
          /\ \A q \in Proc \ {p} : ~Saving(q)' /\ pc'[q] \notin {"truncate", "write"}
          /\ mem'[p] = disk[StoragePath].mounts
      BY <1>1, <1>2, <1>8, <2>2, <3>1, OthersAreIdle DEF Load, OnlySaver, Label, TypeOK
    <3>3. \A dir \in Dir : disk[dir].mounts = ideal[dir]
      BY <1>2, <3>1 DEF OneByOne, Behind, Saving, Running
    <3>4. UNCHANGED <<place, disk, ideal>> /\ StoragePath' = StoragePath
      BY <1>8 DEF Load, place, StoragePath
    <3>5. StoragePath # "nowhere" => Ideal' = disk[StoragePath].mounts
      BY <3>3, <3>4 DEF Ideal, StoragePath, Dir
    <3>6. \A q \in Proc : Saving(q)' /\ StoragePath' # "nowhere" => mem'[q] = Ideal'
      BY <3>2, <3>4, <3>5
    <3>7. \A q \in Proc : pc'[q] # "write"
      BY <3>2
    <3> QED
      BY <3>2, <3>3, <3>4, <3>6, <3>7 DEF OneByOne
  <2> QED
    BY <2>1, <2>2
<1>9. CASE Show(p)
  BY <1>7, <1>9 DEF Show, Continue
<1>10. CASE Edit(p)
  <2>1. Saving(p) /\ pc[p] = "edit"
    BY <1>10 DEF Edit, Saving, Running
  <2>2. StoragePath # "nowhere" => mem'[p] = HelperAdds(p, Ideal)
    BY <1>4, <1>10, <2>1 DEF Edit, TypeOK
  <2>3. Goto(p, "truncate") /\ UNCHANGED <<place, disk>> /\ Ideally(HelperAdds(p, Ideal))
    BY <1>10 DEF Edit
  <2> QED
    BY <1>3, <1>5, <2>1, <2>2, <2>3, ChangeKeepsOneByOne
<1>11. CASE StartShell(p)
  <2>1. Saving(p) /\ pc[p] = "edit"
    BY <1>11, StoreAssumption DEF StartShell, Saving, Running
  <2>2. StoragePath # "nowhere" => mem'[p] = ShellAdds(p, Ideal)
    BY <1>4, <1>11, <2>1 DEF StartShell, TypeOK
  <2>3. Goto(p, "truncate") /\ UNCHANGED <<place, disk>> /\ Ideally(ShellAdds(p, Ideal))
    BY <1>11 DEF StartShell
  <2> QED
    BY <1>3, <1>5, <2>1, <2>2, <2>3, ChangeKeepsOneByOne
<1>12. CASE Builtin(p)
  <2> DEFINE mounts == Append(Ideal, Wants[p][given[p] + 1])
  <2>1. Saving(p) /\ pc[p] = "prompt"
    BY <1>6, <1>12 DEF Builtin
  <2>2. StoragePath # "nowhere" => mem'[p] = mounts
    BY <1>4, <1>12, <2>1 DEF Builtin, TypeOK
  <2>3. Goto(p, "truncate") /\ UNCHANGED <<place, disk>> /\ Ideally(mounts)
    BY <1>12 DEF Builtin
  <2> HIDE DEF mounts
  <2> QED
    BY <1>3, <1>5, <2>1, <2>2, <2>3, ChangeKeepsOneByOne
<1>13. CASE Nsctl(p)
  <2>1. Saving(p) /\ pc[p] = "prompt" /\ UNCHANGED <<place, disk, mem, ideal>>
    BY <1>6, <1>13 DEF Nsctl
  <2>2. StoragePath' = StoragePath /\ Ideal' = Ideal
    BY <2>1 DEF place, StoragePath, Ideal
  <2>3. /\ pc'[p] = "truncate"
        /\ \A q \in Proc \ {p} : ~Saving(q)' /\ pc'[q] \notin {"truncate", "write"}
    BY <1>3, <1>13, <2>1, OthersAreIdle DEF Nsctl, Label
  <2>4. \A q \in Proc : Saving(q)' /\ StoragePath' # "nowhere" => mem'[q] = Ideal'
    BY <1>4, <2>1, <2>2, <2>3
  <2>5. \A dir \in Dir : disk'[dir].mounts = ideal'[dir]
    BY <1>5, <2>1
  <2> QED
    BY <2>3, <2>4, <2>5 DEF OneByOne
<1>14. CASE BadFlag(p) \/ Exit(p)
  <2>1. /\ Saving(p) /\ pc[p] \in {"edit", "prompt"} /\ Continue(p, "done")
        /\ UNCHANGED <<place, disk, ideal>>
    BY <1>6, <1>14, StoreAssumption DEF BadFlag, Exit, Saving, Running
  <2> QED
    BY <1>3, <1>4, <1>5, <2>1, EndKeepsOneByOne
<1>15. CASE Truncate(p)
  <2>1. Saving(p) /\ UNCHANGED <<place, mem, ideal>> /\ StoragePath # "nowhere"
    BY <1>6, <1>15 DEF Truncate
  <2>2. StoragePath' = StoragePath /\ Ideal' = Ideal /\ StoragePath \in Dir
    BY <2>1 DEF place, StoragePath, Ideal, Dir
  <2>3. /\ pc'[p] = "write"
        /\ \A q \in Proc \ {p} : ~Saving(q)' /\ pc'[q] \notin {"truncate", "write"}
    BY <1>3, <1>15, <2>1, OthersAreIdle DEF Truncate, Label
  <2>4. \A q \in Proc : Saving(q)' /\ StoragePath' # "nowhere" => mem'[q] = Ideal'
    BY <1>4, <2>1, <2>2, <2>3
  <2>5. /\ file'[p] = StoragePath /\ disk'[StoragePath].kind = "empty"
        /\ \A dir \in Dir \ {StoragePath} : disk'[dir] = disk[dir]
    BY <1>15, <2>2 DEF Truncate, TypeOK, Unreadable
  <2>6. \A dir \in Dir : Behind(dir)' \/ disk'[dir].mounts = ideal'[dir]
    <3>1. \A dir \in Dir \ {StoragePath} : disk[dir].mounts = ideal[dir]
      BY <1>2 DEF OneByOne, Behind
    <3> QED
      BY <2>1, <2>2, <2>3, <2>5, <3>1 DEF Behind
  <2>7. \A q \in Proc : pc'[q] = "write" => file'[q] = StoragePath' /\ disk'[file'[q]].kind = "empty"
    BY <2>2, <2>3, <2>5
  <2> QED
    BY <2>3, <2>4, <2>6, <2>7 DEF OneByOne
<1>16. CASE Write(p)
  <2>1. /\ Saving(p) /\ Continue(p, AfterSave(p)) /\ UNCHANGED <<place, ideal>>
        /\ file[p] = StoragePath /\ disk[file[p]].kind = "empty" /\ file[p] # "nowhere"
    BY <1>2, <1>6, <1>16 DEF Write, OneByOne, TypeOK
  <2>2. StoragePath \in Dir /\ mem[p] = ideal[StoragePath]
    BY <1>4, <2>1 DEF StoragePath, Dir, Ideal
  <2>3. disk' = [disk EXCEPT ![StoragePath] = Whole(mem[p])]
    BY <1>16, <2>1 DEF Write, Written
  <2>4. \A dir \in Dir : disk'[dir].mounts = ideal[dir]
    <3>1. \A dir \in Dir \ {StoragePath} : disk[dir].mounts = ideal[dir]
      BY <1>2 DEF OneByOne, Behind
    <3> QED
      BY <2>2, <2>3, <3>1 DEF TypeOK, Whole
  <2> QED
    BY <1>3, <1>4, <2>1, <2>4, EndKeepsOneByOne DEF AfterSave
<1>17. CASE NowhereToSave(p)
  <2>1. /\ Saving(p) /\ Continue(p, AfterSave(p)) /\ UNCHANGED <<place, disk, ideal>>
        /\ StoragePath = "nowhere"
    BY <1>6, <1>17 DEF NowhereToSave
  <2>2. \A dir \in Dir : disk'[dir].mounts = ideal[dir]
    BY <1>2, <2>1 DEF OneByOne, Behind, Dir
  <2> QED
    BY <1>3, <2>1, <2>2, EndKeepsOneByOne DEF AfterSave
<1>18. CASE Kill(p)
  <2>1. p \in Viewer /\ Continue(p, "done") /\ UNCHANGED <<place, disk, ideal>>
        /\ \A q \in Proc \ {p} : file'[q] = file[q]
    BY <1>18 DEF Kill, TypeOK
  <2> QED
    BY <1>7, <2>1 DEF Continue
<1>19. CASE OpenFails(p) \/ WriteFails(p)
  BY <1>19 DEF OpenFails, WriteFails
<1> QED
  BY <1>8, <1>9, <1>10, <1>11, <1>12, <1>13, <1>14, <1>15, <1>16, <1>17, <1>18, <1>19 DEF Step

\* The files of processes that save one after the other are those of a store that applies
\* every change at once: load_from_file and save_to_file lose nothing and mix up nothing,
\* whatever nsctl looks at and whichever directories come and go in between.
THEOREM NothingIsLostAlone == Spec => []NothingLostAlone
<1>1. Init => CleanInv
  BY DEF Init, CleanInv, OneByOne, Saving, Running, Unreadable, Dir
<1>2. TypeOK /\ AloneInv /\ CleanInv /\ [Next]_vars => CleanInv'
  <2>1. ASSUME AloneInv, CleanInv, DirMoves PROVE CleanInv'
    <3> SUFFICES ASSUME clean' PROVE OneByOne'
      BY DEF CleanInv
    <3>1. OneByOne /\ \A q \in Proc : ~Saving(q)
      BY <2>1 DEF DirMoves, CleanInv
    <3>2. \A q \in Proc : pc[q] \notin {"truncate", "write"}
      BY <2>1, <3>1 DEF AloneInv, Saving, Running
    <3>3. /\ UNCHANGED <<disk, pc, ideal>> /\ \A q \in Proc : ~Saving(q)'
          /\ \A dir \in Dir : disk[dir].mounts = ideal[dir]
      BY <2>1, <3>1, <3>2 DEF DirMoves, OneByOne, Behind, Saving, Running
    <3> QED
      BY <3>2, <3>3 DEF OneByOne
  <2>2. ASSUME CleanInv, UNCHANGED vars PROVE CleanInv'
    BY <2>2 DEF CleanInv, OneByOne, Behind, Saving, Running, vars, place, StoragePath, Ideal
  <2> QED
    BY <2>1, <2>2, StepKeepsClean DEF Next
<1>3. AloneInv /\ CleanInv => NothingLostAlone
  <2> SUFFICES ASSUME AloneInv, OneByOne, Quiet, NEW dir \in Dir PROVE disk[dir].mounts = ideal[dir]
    BY DEF CleanInv, NothingLostAlone
  <2>1. \A p \in Proc : pc[p] \notin {"truncate", "write"}
    BY DEF AloneInv, Quiet, Saving, Running
  <2> QED
    BY <2>1 DEF OneByOne, Behind
<1> QED
  BY <1>1, <1>2, <1>3, AloneInvariant, StoreTypeCorrect, PTL DEF Spec

(***************************************************************************)
(* mount_plan, one entry at a time                                         *)
(***************************************************************************)
\* An entry with other paths.
WithPaths(e, paths) == [target |-> e.target, kind |-> e.kind, addr |-> e.addr, paths |-> paths]

\* It is an entry, as the EXCEPT of the model says.
LEMMA WithPathsIs ==
  ASSUME NEW e \in Entry, NEW paths \in Seq(Source)
  PROVE  WithPaths(e, paths) = [e EXCEPT !.paths = paths] /\ WithPaths(e, paths) \in Entry
BY DEF WithPaths, Entry

\* A plan whose last step has the paths of e behind its own.
Joined(plan, e) ==
  [i \in 1..Len(plan) |-> IF i = Len(plan) THEN WithPaths(plan[i], plan[i].paths \o e.paths) ELSE plan[i]]

\* An entry joins the last step of the plan, or is a step of its own.
LEMMA AddToPlanIs ==
  ASSUME NEW plan \in Seq(Entry), NEW e \in Entry
  PROVE  /\ AddToPlan(plan, e) \in Seq(Entry)
         /\ AddToPlan(plan, e) = IF plan # << >> /\ Joins(e, plan[Len(plan)])
                                 THEN Joined(plan, e) ELSE Append(plan, e)
<1>1. CASE plan = << >> \/ ~Joins(e, plan[Len(plan)])
  <2>1. AddToPlan(plan, e) = Append(plan, e)
    BY <1>1 DEF AddToPlan
  <2>2. Append(plan, e) \in Seq(Entry)
    BY AppendProperties
  <2> QED
    BY <1>1, <2>1, <2>2
<1>2. CASE plan # << >> /\ Joins(e, plan[Len(plan)])
  <2> DEFINE n == Len(plan)
             more == WithPaths(plan[n], plan[n].paths \o e.paths)
  <2>1. n \in 1..n /\ n \in Nat /\ plan[n] \in Entry
    BY <1>2, LenProperties, EmptySeq, ElementOfSeq
  <2>2. plan[n].paths \o e.paths \in Seq(Source)
    BY <2>1, ConcatProperties DEF Entry
  <2>3. more \in Entry /\ more = [plan[n] EXCEPT !.paths = plan[n].paths \o e.paths]
    BY <2>1, <2>2, WithPathsIs
  <2>4. AddToPlan(plan, e) = [plan EXCEPT ![n] = more]
    BY <1>2, <2>3 DEF AddToPlan
  <2>5. plan = [i \in 1..n |-> plan[i]] /\ \A i \in 1..n : plan[i] \in Entry
    BY LenProperties, ElementOfSeq
  <2>6. Joined(plan, e) = [plan EXCEPT ![n] = more]
    BY <2>1, <2>5 DEF Joined
  <2>7. [plan EXCEPT ![n] = more] \in Seq(Entry)
    BY <2>1, <2>3, ExceptSeq
  <2> QED
    BY <1>2, <2>4, <2>6, <2>7
<1> QED
  BY <1>1, <1>2

\* f is what mount_plan has after each of the first n entries.
Planned(f, mounts, n) ==
  f = [k \in 0..n |-> IF k = 0 THEN << >> ELSE AddToPlan(f[k - 1], mounts[k])]

\* MountPlan is defined by recursion; that there is such a function goes by induction.
LEMMA PlannedExists ==
  ASSUME NEW mounts \in Seq(Entry), NEW n \in 0..Len(mounts)
  PROVE  \E f : Planned(f, mounts, n)
<1> DEFINE Good == {k \in 0..Len(mounts) : \E f : Planned(f, mounts, k)}
<1>0. Len(mounts) \in Nat /\ 0 \in 0..Len(mounts)
  BY LenProperties
<1>1. 0 \in Good
  <2> DEFINE f == [k \in 0..0 |-> << >>]
  <2>1. Planned(f, mounts, 0)
    BY DEF Planned
  <2>2. \E h : Planned(h, mounts, 0)
    BY <2>1
  <2> QED
    BY <1>0, <2>2
<1>2. ASSUME NEW k \in 1..Len(mounts), k - 1 \in Good PROVE k \in Good
  <2>1. PICK f : Planned(f, mounts, k - 1)
    BY <1>2
  <2> DEFINE g == [i \in 0..k |-> IF i < k THEN f[i] ELSE AddToPlan(f[k - 1], mounts[k])]
  <2>2. ASSUME NEW i \in 0..k PROVE g[i] = IF i = 0 THEN << >> ELSE AddToPlan(g[i - 1], mounts[i])
    <3>1. CASE i < k
      <4>1. i \in 0..(k - 1) /\ (i # 0 => i - 1 \in 0..(k - 1) /\ i - 1 < k /\ i - 1 \in 0..k)
        BY <1>0, <3>1
      <4>2. f[i] = IF i = 0 THEN << >> ELSE AddToPlan(f[i - 1], mounts[i])
        BY <2>1, <4>1 DEF Planned
      <4> QED
        BY <3>1, <4>1, <4>2
    <3>2. CASE i = k
      <4>1. k # 0 /\ k - 1 \in 0..k /\ k - 1 < k /\ ~(k < k)
        BY <1>0
      <4> QED
        BY <3>2, <4>1
    <3> QED
      BY <3>1, <3>2
  <2>3. Planned(g, mounts, k)
    BY <2>2 DEF Planned
  <2>4. \E h : Planned(h, mounts, k)
    BY <2>3
  <2> QED
    BY <1>0, <2>4
<1> HIDE DEF Good
<1>3. 0..Len(mounts) \subseteq Good
  BY <1>0, <1>1, <1>2, UpTo
<1> QED
  BY <1>3 DEF Good

\* The plan of a list is at the end of what mount_plan has after each entry.
LEMMA PlanIs ==
  ASSUME NEW mounts \in Seq(Entry)
  PROVE  \E f : Planned(f, mounts, Len(mounts)) /\ MountPlan(mounts) = f[Len(mounts)]
<1>1. Len(mounts) \in 0..Len(mounts)
  BY LenProperties
<1> DEFINE f == CHOOSE f : Planned(f, mounts, Len(mounts))
<1>2. Planned(f, mounts, Len(mounts))
  BY <1>1, PlannedExists
<1>3. MountPlan(mounts) = f[Len(mounts)]
  BY DEF MountPlan, Planned
<1> QED
  BY <1>2, <1>3

(***************************************************************************)
(* The pieces of a list, one entry at a time                               *)
(***************************************************************************)
\* how many cuts a list has up to its entry i
CutsUpTo(mounts, i) == Cardinality(Cuts(mounts) \cap (1..i))

\* The cuts of a list are finitely many, and so are those up to an entry.
LEMMA CutsAreCounted ==
  ASSUME NEW m \in Seq(Entry)
  PROVE  /\ IsFiniteSet(Cuts(m)) /\ Cardinality(Cuts(m)) \in Nat /\ Cuts(m) \subseteq 1..Len(m)
         /\ \A i \in Nat : CutsUpTo(m, i) \in Nat /\ CutsUpTo(m, i) <= Cardinality(Cuts(m))
         /\ CutsUpTo(m, Len(m)) = Cardinality(Cuts(m))
<1>1. Len(m) \in Nat /\ Cuts(m) \subseteq 1..Len(m)
  BY LenProperties DEF Cuts
<1>2. IsFiniteSet(1..Len(m))
  BY <1>1, FS_Interval
<1>3. IsFiniteSet(Cuts(m))
  BY <1>1, <1>2, FS_Subset
<1>4. ASSUME NEW i \in Nat PROVE CutsUpTo(m, i) \in Nat /\ CutsUpTo(m, i) <= Cardinality(Cuts(m))
  <2>1. Cuts(m) \cap (1..i) \subseteq Cuts(m)
    OBVIOUS
  <2>2. IsFiniteSet(Cuts(m) \cap (1..i))
    BY <1>3, <2>1, FS_Subset
  <2> QED
    BY <1>3, <2>1, <2>2, FS_Subset, FS_CardinalityType DEF CutsUpTo
<1>5. Cuts(m) \cap (1..Len(m)) = Cuts(m)
  BY <1>1
<1> QED
  BY <1>1, <1>3, <1>4, <1>5, FS_CardinalityType DEF CutsUpTo

\* Whether an entry behind a list joins the last one.
JoinsOn(m, e) == Len(m) # 0 /\ Joins(e, m[Len(m)])

\* An entry behind a list adds a cut, unless it joins the last one, and changes none before it.
LEMMA CutsOfAppend ==
  ASSUME NEW m \in Seq(Entry), NEW e \in Entry
  PROVE  /\ Cuts(Append(m, e)) = Cuts(m) \cup (IF JoinsOn(m, e) THEN {} ELSE {Len(m) + 1})
         /\ Cardinality(Cuts(Append(m, e))) = Cardinality(Cuts(m)) + (IF JoinsOn(m, e) THEN 0 ELSE 1)
         /\ \A i \in 1..Len(m) : CutsUpTo(Append(m, e), i) = CutsUpTo(m, i)
<1> DEFINE p == Append(m, e)
           n == Len(m)
<1>1. /\ n \in Nat /\ p \in Seq(Entry) /\ Len(p) = n + 1 /\ p[n + 1] = e
      /\ \A i \in 1..n : p[i] = m[i]
  BY AppendProperties, LenProperties
<1> HIDE DEF p
<1>2. ASSUME NEW i \in 1..n PROVE i \in Cuts(p) <=> i \in Cuts(m)
  <2>1. i = 1 \/ i - 1 \in 1..n
    BY <1>1
  <2>2. p[i] = m[i] /\ (i # 1 => p[i - 1] = m[i - 1])
    BY <1>1, <2>1
  <2>3. i \in 1..Len(p)
    BY <1>1
  <2> QED
    BY <2>2, <2>3 DEF Cuts
<1>3. n + 1 \in Cuts(p) <=> ~JoinsOn(m, e)
  <2>1. n + 1 \in 1..Len(p) /\ (n + 1) - 1 = n /\ (n + 1 = 1 <=> n = 0)
    BY <1>1
  <2>2. n + 1 \in Cuts(p) <=> n + 1 = 1 \/ ~Joins(p[n + 1], p[(n + 1) - 1])
    BY <2>1 DEF Cuts
  <2>3. n # 0 => p[n] = m[n]
    BY <1>1
  <2> QED
    BY <1>1, <2>1, <2>2, <2>3 DEF JoinsOn
<1>4. Cuts(p) \subseteq 1..(n + 1) /\ Cuts(m) \subseteq 1..n
  BY <1>1 DEF Cuts
<1>5. Cuts(p) = Cuts(m) \cup (IF JoinsOn(m, e) THEN {} ELSE {n + 1})
  <2>1. \A i \in 1..(n + 1) : i \in 1..n \/ i = n + 1
    BY <1>1
  <2> QED
    BY <1>1, <1>2, <1>3, <1>4, <2>1
<1>6. Cardinality(Cuts(p)) = Cardinality(Cuts(m)) + (IF JoinsOn(m, e) THEN 0 ELSE 1)
  <2>1. IsFiniteSet(Cuts(m)) /\ Cardinality(Cuts(m)) \in Nat
    BY CutsAreCounted
  <2>2. n + 1 \notin Cuts(m)
    BY <1>1, <1>4
  <2>3. Cardinality(Cuts(m) \cup {n + 1}) = Cardinality(Cuts(m)) + 1
    BY <2>1, <2>2, FS_AddElement
  <2>4. CASE JoinsOn(m, e)
    <3>1. Cuts(p) = Cuts(m)
      BY <1>5, <2>4
    <3> QED
      BY <2>1, <2>4, <3>1
  <2>5. CASE ~JoinsOn(m, e)
    <3>1. Cuts(p) = Cuts(m) \cup {n + 1}
      BY <1>5, <2>5
    <3> QED
      BY <2>3, <2>5, <3>1
  <2> QED
    BY <2>4, <2>5
<1>7. ASSUME NEW i \in 1..n PROVE CutsUpTo(p, i) = CutsUpTo(m, i)
  <2>1. \A j \in 1..i : j \in 1..n
    BY <1>1
  <2>2. Cuts(p) \cap (1..i) = Cuts(m) \cap (1..i)
    BY <1>2, <2>1
  <2> QED
    BY <2>2 DEF CutsUpTo
<1> QED
  BY <1>5, <1>6, <1>7 DEF p

\* The last piece takes in the entry behind a list, or there is one more piece.
LEMMA PiecesOfAppend ==
  ASSUME NEW m \in Seq(Entry), NEW e \in Entry
  PROVE  /\ \A n \in Int : Piece(Append(m, e), n) =
                             Piece(m, n) \cup (IF n = Cardinality(Cuts(Append(m, e))) THEN {Len(m) + 1} ELSE {})
         /\ Piece(m, Cardinality(Cuts(m)) + 1) = {}
         /\ \A n \in Int : Piece(m, n) \subseteq 1..Len(m)
         /\ Len(m) # 0 => Len(m) \in Piece(m, Cardinality(Cuts(m)))
<1> DEFINE p == Append(m, e)
           l == Len(m)
<1>1. /\ l \in Nat /\ p \in Seq(Entry) /\ Len(p) = l + 1
      /\ \A i \in 1..l : CutsUpTo(p, i) = CutsUpTo(m, i)
  BY AppendProperties, LenProperties, CutsOfAppend
<1> HIDE DEF p
<1>2. CutsUpTo(p, l + 1) = Cardinality(Cuts(p))
  BY <1>1, CutsAreCounted
<1>3. ASSUME NEW n \in Int
      PROVE  Piece(p, n) = Piece(m, n) \cup (IF n = Cardinality(Cuts(p)) THEN {l + 1} ELSE {})
  <2>1. Piece(p, n) = {i \in 1..(l + 1) : CutsUpTo(p, i) = n}
    BY <1>1 DEF Piece, CutsUpTo
  <2>2. Piece(m, n) = {i \in 1..l : CutsUpTo(m, i) = n}
    BY DEF Piece, CutsUpTo
  <2>3. \A i : i \in 1..(l + 1) <=> i \in 1..l \/ i = l + 1
    BY <1>1
  <2> QED
    BY <1>1, <1>2, <2>1, <2>2, <2>3
<1>4. \A n \in Int : Piece(m, n) \subseteq 1..l
  BY DEF Piece
<1>5. Piece(m, Cardinality(Cuts(m)) + 1) = {}
  <2>1. Cardinality(Cuts(m)) \in Nat
    BY CutsAreCounted
  <2>2. \A i \in 1..l : CutsUpTo(m, i) \in Nat /\ CutsUpTo(m, i) <= Cardinality(Cuts(m))
    BY <1>1, CutsAreCounted
  <2>3. \A i \in 1..l : CutsUpTo(m, i) # Cardinality(Cuts(m)) + 1
    BY <2>1, <2>2
  <2> QED
    BY <2>3 DEF Piece, CutsUpTo
<1>6. l # 0 => l \in Piece(m, Cardinality(Cuts(m)))
  BY <1>1, CutsAreCounted DEF Piece, CutsUpTo
<1> QED
  BY <1>3, <1>4, <1>5, <1>6 DEF p

\* The paths of the entries from first to last.
PathsFrom(m, first, last) == [k \in 1..(last - first + 1) |-> m[first + k - 1].paths]

\* These are lists of paths, one for each entry.
LEMMA PathsAreLists ==
  ASSUME NEW m \in Seq(Entry), NEW first \in 1..Len(m), NEW last \in 1..Len(m), first <= last
  PROVE  /\ PathsFrom(m, first, last) \in Seq(Seq(Source))
         /\ Len(PathsFrom(m, first, last)) = last - first + 1
<1> DEFINE n == last - first + 1
<1>1. n \in Nat /\ Len(m) \in Nat
  BY LenProperties
<1>2. ASSUME NEW k \in 1..n PROVE m[first + k - 1].paths \in Seq(Source)
  <2>1. first + k - 1 \in 1..Len(m)
    BY <1>1
  <2>2. m[first + k - 1] \in Entry
    BY <2>1, ElementOfSeq
  <2> QED
    BY <2>2 DEF Entry
<1> HIDE DEF n
<1>3. [k \in 1..n |-> m[first + k - 1].paths] \in Seq(Seq(Source))
  BY <1>1, <1>2, IsASeq
<1>4. Len([k \in 1..n |-> m[first + k - 1].paths]) = n
  BY <1>1
<1> QED
  BY <1>3, <1>4 DEF PathsFrom, n

\* A piece that does not take in the new entry is the same step.
LEMMA StepStays ==
  ASSUME NEW m \in Seq(Entry), NEW e \in Entry, NEW n \in Int,
         Piece(m, n) # {}, Piece(Append(m, e), n) = Piece(m, n)
  PROVE  PieceStep(Append(m, e), n) = PieceStep(m, n)
<1> DEFINE p == Append(m, e)
           first == Min(Piece(m, n))
           last == Max(Piece(m, n))
<1>1. Len(m) \in Nat /\ \A i \in 1..Len(m) : p[i] = m[i]
  BY AppendProperties, LenProperties
<1>2. first \in 1..Len(m) /\ last \in 1..Len(m)
  <2>1. Piece(m, n) \subseteq 1..Len(m)
    BY DEF Piece
  <2>2. first \in Piece(m, n) /\ last \in Piece(m, n)
    BY <1>1, <2>1, MinMax
  <2> QED
    BY <2>1, <2>2
<1> HIDE DEF p, first, last
<1>3. PathsFrom(p, first, last) = PathsFrom(m, first, last)
  <2>1. ASSUME NEW k \in 1..(last - first + 1) PROVE p[first + k - 1] = m[first + k - 1]
    <3>1. first + k - 1 \in 1..Len(m)
      BY <1>1, <1>2
    <3> QED
      BY <1>1, <3>1
  <2> QED
    BY <2>1 DEF PathsFrom
<1>4. p[first] = m[first]
  BY <1>1, <1>2
<1>5. PieceStep(m, n) = [target |-> m[first].target, kind |-> m[first].kind, addr |-> m[first].addr,
                         paths |-> FlattenSeq(PathsFrom(m, first, last))]
  BY Zenon DEF PieceStep, PathsFrom, first, last
<1>6. PieceStep(p, n) = [target |-> p[first].target, kind |-> p[first].kind, addr |-> p[first].addr,
                         paths |-> FlattenSeq(PathsFrom(p, first, last))]
  BY Zenon DEF PieceStep, PathsFrom, first, last, p
<1> QED
  BY <1>3, <1>4, <1>5, <1>6 DEF p

\* A piece of one entry is this entry.
LEMMA StepOfOne ==
  ASSUME NEW m \in Seq(Entry), NEW n \in Int, NEW i \in 1..Len(m), Piece(m, n) = {i}
  PROVE  PieceStep(m, n) = m[i]
<1>1. i \in Int /\ Len(m) \in Nat /\ m[i] \in Entry
  BY LenProperties, ElementOfSeq
<1>2. Min({i}) = i /\ Max({i}) = i
  <2>1. {i} \subseteq 1..Len(m) /\ i \in {i} /\ \A y \in {i} : i <= y /\ i >= y
    BY <1>1
  <2> QED
    BY <1>1, <2>1, MinMaxAre
<1>3. PathsFrom(m, i, i) = Append(<< >>, m[i].paths)
  <2>1. i - i + 1 = 1 /\ i + 1 - 1 = i
    BY <1>1
  <2>2. Append(<< >>, m[i].paths) = [k \in 1..1 |-> m[i].paths]
    OBVIOUS
  <2>3. \A k \in 1..1 : i + k - 1 = i
    BY <1>1
  <2> QED
    BY <2>1, <2>2, <2>3 DEF PathsFrom
<1>4. FlattenSeq(PathsFrom(m, i, i)) = m[i].paths
  <2>1. m[i].paths \in Seq(Source) /\ << >> \in Seq(Seq(Source)) /\ << >> \in Seq(Source)
    BY <1>1, EmptySeq DEF Entry
  <2>2. FlattenSeq(<< >>) = << >>
    BY EmptySeq DEF FlattenSeq
  <2>3. FlattenSeq(Append(<< >>, m[i].paths)) = FlattenSeq(<< >>) \o m[i].paths
    BY <2>1, FlattenAppend
  <2>4. << >> \o m[i].paths = m[i].paths
    BY <2>1, ConcatEmptySeq
  <2> QED
    BY <1>3, <2>2, <2>3, <2>4
<1>5. PieceStep(m, n) = [target |-> m[i].target, kind |-> m[i].kind, addr |-> m[i].addr,
                         paths |-> FlattenSeq(PathsFrom(m, i, i))]
  BY <1>2, Zenon DEF PieceStep, PathsFrom
<1> QED
  BY <1>1, <1>4, <1>5 DEF Entry

\* A piece that takes in the new entry is a step that has its paths too.
LEMMA StepGrows ==
  ASSUME NEW m \in Seq(Entry), NEW e \in Entry, NEW n \in Int,
         Len(m) \in Piece(m, n), Piece(Append(m, e), n) = Piece(m, n) \cup {Len(m) + 1}
  PROVE  PieceStep(Append(m, e), n) = WithPaths(PieceStep(m, n), PieceStep(m, n).paths \o e.paths)
<1> DEFINE p == Append(m, e)
           first == Min(Piece(m, n))
           l == Len(m)
<1>1. /\ l \in Nat /\ p \in Seq(Entry) /\ Len(p) = l + 1 /\ p[l + 1] = e
      /\ \A i \in 1..l : p[i] = m[i]
  BY AppendProperties, LenProperties
<1>2. Piece(m, n) \subseteq 1..l
  BY DEF Piece
<1>3. /\ first \in Piece(m, n) /\ first \in 1..l /\ \A y \in Piece(m, n) : first <= y
      /\ Max(Piece(m, n)) = l
  <2>1. first \in Piece(m, n) /\ \A y \in Piece(m, n) : first <= y
    BY <1>1, <1>2, MinMax
  <2>2. \A y \in Piece(m, n) : l >= y
    BY <1>1, <1>2
  <2>3. Max(Piece(m, n)) = l
    BY <1>1, <1>2, <2>2, MinMaxAre
  <2> QED
    BY <1>2, <2>1, <2>3
<1> HIDE DEF p, first, l
<1>4. Min(Piece(p, n)) = first /\ Max(Piece(p, n)) = l + 1
  <2>1. Piece(p, n) \subseteq 1..(l + 1) /\ first \in Piece(p, n) /\ l + 1 \in Piece(p, n) /\ l + 1 \in Nat
    BY <1>1, <1>2, <1>3 DEF p, l
  <2>2. ASSUME NEW y \in Piece(p, n) PROVE first <= y /\ l + 1 >= y
    <3>1. y \in Piece(m, n) \/ y = l + 1
      BY DEF p, l
    <3> QED
      BY <1>1, <1>2, <1>3, <3>1
  <2> QED
    BY <2>1, <2>2, MinMaxAre
<1>5. PathsFrom(p, first, l + 1) = Append(PathsFrom(m, first, l), e.paths)
  <2> DEFINE len == l - first + 1
             s == PathsFrom(m, first, l)
             t == PathsFrom(p, first, l + 1)
  <2>1. len \in Nat /\ (l + 1) - first + 1 = len + 1 /\ first + (len + 1) - 1 = l + 1
    BY <1>1, <1>3
  <2>2. s \in Seq(Seq(Source)) /\ Len(s) = len
    BY <1>1, <1>3, PathsAreLists DEF l
  <2>3. t = [j \in 1..(len + 1) |-> p[first + j - 1].paths]
    <3> HIDE DEF len
    <3>1. t = [j \in 1..((l + 1) - first + 1) |-> p[first + j - 1].paths]
      BY DEF PathsFrom
    <3> QED
      BY <2>1, <3>1
  <2>4. \A j \in 1..len : t[j] = s[j]
    <3>1. ASSUME NEW j \in 1..len PROVE first + j - 1 \in 1..l
      BY <1>1, <1>3
    <3>2. s = [j \in 1..len |-> m[first + j - 1].paths]
      BY DEF PathsFrom
    <3> HIDE DEF t, s, len
    <3>3. \A j \in 1..len : j \in 1..(len + 1)
      BY <2>1
    <3> QED
      BY <1>1, <2>3, <3>1, <3>2, <3>3
  <2>5. t[len + 1] = e.paths
    <3> HIDE DEF t, s, len
    <3>1. len + 1 \in 1..(len + 1)
      BY <2>1
    <3> QED
      BY <1>1, <2>1, <2>3, <3>1
  <2> HIDE DEF t, s, len
  <2>6. e.paths \in Seq(Source)
    BY DEF Entry
  <2>7. /\ Append(s, e.paths) = [j \in 1..(len + 1) |-> Append(s, e.paths)[j]]
        /\ \A j \in 1..len : Append(s, e.paths)[j] = s[j]
        /\ Append(s, e.paths)[len + 1] = e.paths
    BY <2>1, <2>2, <2>6, AppendProperties, LenProperties
  <2>8. \A j \in 1..(len + 1) : j \in 1..len \/ j = len + 1
    BY <2>1
  <2>9. t = [j \in 1..(len + 1) |-> t[j]]
    BY <2>3
  <2>10. t = Append(s, e.paths)
    BY <2>4, <2>5, <2>7, <2>8, <2>9
  <2> QED
    BY <2>10 DEF s, t
<1>6. FlattenSeq(PathsFrom(p, first, l + 1)) = FlattenSeq(PathsFrom(m, first, l)) \o e.paths
  <2>1. PathsFrom(m, first, l) \in Seq(Seq(Source)) /\ e.paths \in Seq(Source)
    <3>1. l \in 1..l /\ first <= l
      BY <1>1, <1>3
    <3> QED
      BY <1>1, <1>3, <3>1, PathsAreLists DEF l, Entry
  <2> QED
    BY <1>5, <2>1, FlattenAppend
<1>7. p[first] = m[first]
  BY <1>1, <1>3
<1>8. PieceStep(m, n) = [target |-> m[first].target, kind |-> m[first].kind, addr |-> m[first].addr,
                         paths |-> FlattenSeq(PathsFrom(m, first, l))]
  BY <1>3, Zenon DEF PieceStep, PathsFrom, first
<1>9. PieceStep(p, n) = [target |-> p[first].target, kind |-> p[first].kind, addr |-> p[first].addr,
                         paths |-> FlattenSeq(PathsFrom(p, first, l + 1))]
  BY <1>4, Zenon DEF PieceStep, PathsFrom
<1>10. PieceStep(p, n) = WithPaths(PieceStep(m, n), PieceStep(m, n).paths \o e.paths)
  <2> DEFINE step == PieceStep(m, n)
  <2>1. /\ step.target = m[first].target /\ step.kind = m[first].kind /\ step.addr = m[first].addr
        /\ step.paths = FlattenSeq(PathsFrom(m, first, l))
    BY <1>8
  <2> HIDE DEF step
  <2>2. PieceStep(p, n) = [target |-> step.target, kind |-> step.kind, addr |-> step.addr,
                           paths |-> step.paths \o e.paths]
    BY <1>6, <1>7, <1>9, <2>1
  <2> QED
    BY <2>2, Zenon DEF WithPaths, step
<1> QED
  BY <1>10 DEF p

(***************************************************************************)
(* mount_plan builds the pieces                                            *)
(***************************************************************************)
\* A plan is that of the pieces of a list, none of which is empty, and its last step is of
\* the kind and on the target of the last entry.
Reads(plan, m) ==
  /\ plan \in Seq(Entry) /\ plan = PlanByPieces(m)
  /\ \A n \in 1..Cardinality(Cuts(m)) : Piece(m, n) # {}
  /\ Len(m) # 0 => /\ Len(plan) # 0
                   /\ plan[Len(plan)].kind = m[Len(m)].kind
                   /\ plan[Len(plan)].target = m[Len(m)].target

\* mount_plan adds an entry to its last step exactly if that is in the last piece.
LEMMA ReadsOn ==
  ASSUME NEW m \in Seq(Entry), NEW e \in Entry, NEW plan, Reads(plan, m)
  PROVE  Reads(AddToPlan(plan, e), Append(m, e))
<1> DEFINE p == Append(m, e)
           n == Cardinality(Cuts(m))
           next == AddToPlan(plan, e)
<1>1. /\ Len(m) \in Nat /\ p \in Seq(Entry) /\ Len(p) = Len(m) + 1 /\ Len(p) # 0 /\ p[Len(p)] = e
      /\ \A i \in 1..Len(m) : p[i] = m[i]
  BY AppendProperties, LenProperties
<1>2. n \in Nat /\ plan \in Seq(Entry) /\ Len(plan) = n /\ \A i \in 1..n : plan[i] = PieceStep(m, i)
  <2>1. n \in Nat
    BY CutsAreCounted
  <2>2. plan \in Seq(Entry) /\ plan = [i \in 1..n |-> PieceStep(m, i)]
    BY DEF Reads, PlanByPieces
  <2> HIDE DEF n
  <2> QED
    BY <2>1, <2>2
<1>3. plan # << >> /\ Joins(e, plan[Len(plan)]) <=> JoinsOn(m, e)
  <2>1. CASE Len(m) = 0
    <3>1. Cuts(m) = {}
      BY <2>1 DEF Cuts
    <3>2. n = 0
      BY <3>1, FS_EmptySet
    <3> QED
      BY <1>2, <2>1, <3>2, EmptySeq DEF JoinsOn
  <2>2. CASE Len(m) # 0
    <3>1. Len(plan) # 0 /\ plan # << >>
      BY <2>2, EmptySeq DEF Reads
    <3> QED
      BY <2>2, <3>1 DEF Reads, Joins, JoinsOn
  <2> QED
    BY <2>1, <2>2
<1>4. /\ next \in Seq(Entry)
      /\ JoinsOn(m, e) => next = Joined(plan, e)
      /\ ~JoinsOn(m, e) => next = Append(plan, e)
  BY <1>2, <1>3, AddToPlanIs
<1>5. /\ Piece(m, n + 1) = {}
      /\ \A i \in 1..n : Piece(m, i) # {}
      /\ \A i \in Int : Piece(p, i) =
                          Piece(m, i) \cup (IF i = Cardinality(Cuts(p)) THEN {Len(m) + 1} ELSE {})
      /\ Len(m) # 0 => Len(m) \in Piece(m, n)
  BY PiecesOfAppend DEF Reads
<1>6. PlanByPieces(p) = [i \in 1..Cardinality(Cuts(p)) |-> PieceStep(p, i)]
  BY DEF PlanByPieces
<1> HIDE DEF p, n, next
<1>7. ASSUME JoinsOn(m, e) PROVE Reads(next, p)
  <2>1. Len(m) # 0 /\ Len(plan) # 0 /\ n \in 1..n /\ Cardinality(Cuts(p)) = n
    <3>1. Len(m) # 0 /\ Len(plan) # 0
      BY <1>7 DEF JoinsOn, Reads
    <3>2. Cardinality(Cuts(p)) = n
      BY <1>2, <1>7, CutsOfAppend DEF p, n
    <3> QED
      BY <1>2, <3>1, <3>2
  <2>2. ASSUME NEW i \in 1..n, i # n PROVE PieceStep(p, i) = plan[i] /\ Piece(p, i) # {}
    <3>1. i \in Int /\ i # Cardinality(Cuts(p))
      BY <1>2, <2>1, <2>2
    <3>2. Piece(p, i) = Piece(m, i) /\ Piece(m, i) # {}
      BY <1>5, <3>1
    <3>3. PieceStep(p, i) = PieceStep(m, i)
      BY <3>1, <3>2, StepStays DEF p
    <3> QED
      BY <1>2, <3>2, <3>3
  <2>3. PieceStep(p, n) = WithPaths(plan[n], plan[n].paths \o e.paths) /\ Piece(p, n) # {}
    <3>1. n \in Int /\ Piece(p, n) = Piece(m, n) \cup {Len(m) + 1} /\ Len(m) \in Piece(m, n)
      BY <1>2, <1>5, <2>1
    <3>2. PieceStep(p, n) = WithPaths(PieceStep(m, n), PieceStep(m, n).paths \o e.paths)
      BY <3>1, StepGrows DEF p
    <3> QED
      BY <1>2, <2>1, <3>1, <3>2
  <2>4. next = [i \in 1..n |-> IF i = n THEN WithPaths(plan[n], plan[n].paths \o e.paths) ELSE plan[i]]
    BY <1>2, <1>4, <1>7 DEF Joined
  <2>5. next = PlanByPieces(p)
    <3>1. PlanByPieces(p) = [i \in 1..n |-> PieceStep(p, i)]
      BY <1>6, <2>1
    <3>2. \A i \in 1..n : PieceStep(p, i) =
             IF i = n THEN WithPaths(plan[n], plan[n].paths \o e.paths) ELSE plan[i]
      BY <2>2, <2>3
    <3> QED
      BY <2>4, <3>1, <3>2
  <2>6. Len(next) = n /\ next[n].kind = e.kind /\ next[n].target = e.target
    <3>1. Len(next) = n
      BY <1>2, <2>4
    <3>2. next[n].kind = plan[n].kind /\ next[n].target = plan[n].target
      BY <2>1, <2>4 DEF WithPaths
    <3>3. plan[n].kind = m[Len(m)].kind /\ plan[n].target = m[Len(m)].target
      BY <1>2, <2>1 DEF Reads
    <3>4. e.kind = m[Len(m)].kind /\ e.target = m[Len(m)].target
      BY <1>7 DEF JoinsOn, Joins
    <3> QED
      BY <3>1, <3>2, <3>3, <3>4
  <2>7. \A i \in 1..Cardinality(Cuts(p)) : Piece(p, i) # {}
    BY <2>1, <2>2, <2>3
  <2>8. Len(next) # 0
    BY <2>1, <2>6
  <2> QED
    BY <1>1, <1>4, <2>5, <2>6, <2>7, <2>8 DEF Reads
<1>8. ASSUME ~JoinsOn(m, e) PROVE Reads(next, p)
  <2>1. Cardinality(Cuts(p)) = n + 1 /\ n + 1 \in Int
    BY <1>2, <1>8, CutsOfAppend DEF p, n
  <2>2. ASSUME NEW i \in 1..n PROVE PieceStep(p, i) = plan[i] /\ Piece(p, i) # {}
    <3>1. i \in Int /\ i # Cardinality(Cuts(p))
      BY <1>2, <2>1
    <3>2. Piece(p, i) = Piece(m, i) /\ Piece(m, i) # {}
      BY <1>5, <3>1
    <3>3. PieceStep(p, i) = PieceStep(m, i)
      BY <3>1, <3>2, StepStays DEF p
    <3> QED
      BY <1>2, <3>2, <3>3
  <2>3. PieceStep(p, n + 1) = e /\ Piece(p, n + 1) # {}
    <3>1. Piece(p, n + 1) = {Len(p)} /\ Len(p) \in 1..Len(p)
      BY <1>1, <1>5, <2>1
    <3>2. PieceStep(p, n + 1) = p[Len(p)]
      BY <1>1, <2>1, <3>1, StepOfOne
    <3> QED
      BY <1>1, <3>1, <3>2
  <2>4. next = Append(plan, e) /\ Len(next) = n + 1 /\ next[n + 1] = e /\ \A i \in 1..n : next[i] = plan[i]
    BY <1>2, <1>4, <1>8, AppendProperties
  <2>5. \A i \in 1..(n + 1) : i \in 1..n \/ i = n + 1
    BY <1>2
  <2>6. next = PlanByPieces(p)
    <3>1. next = [i \in 1..(n + 1) |-> next[i]]
      BY <1>4, <2>4, LenProperties
    <3>2. PlanByPieces(p) = [i \in 1..(n + 1) |-> PieceStep(p, i)]
      BY <1>6, <2>1
    <3>3. \A i \in 1..(n + 1) : next[i] = PieceStep(p, i)
      BY <2>2, <2>3, <2>4, <2>5
    <3> QED
      BY <3>1, <3>2, <3>3
  <2>7. \A i \in 1..Cardinality(Cuts(p)) : Piece(p, i) # {}
    BY <2>1, <2>2, <2>3, <2>5
  <2>8. Len(next) # 0 /\ next[Len(next)] = e
    BY <1>2, <2>4
  <2> QED
    BY <1>1, <1>4, <2>6, <2>7, <2>8 DEF Reads
<1> QED
  BY <1>7, <1>8 DEF next, p

\* mount_plan cuts a list into its pieces: a union joins the step of the union before it if
\* they are on the same target, and no other step, however long the list.
THEOREM PlanOfPieces ==
  ASSUME NEW mounts \in Seq(Entry)
  PROVE  MountPlan(mounts) = PlanByPieces(mounts) /\ MountPlan(mounts) \in Seq(Entry)
<1> DEFINE l == Len(mounts)
           Prefix(k) == SubSeq(mounts, 1, k)
<1>1. PICK f : Planned(f, mounts, l) /\ MountPlan(mounts) = f[l]
  BY PlanIs
<1>2. l \in Nat /\ l \in 0..l /\ 0 \in 0..l
  BY LenProperties
<1> DEFINE Good == {k \in 0..l : Reads(f[k], Prefix(k))}
<1>3. 0 \in Good
  <2>1. Prefix(0) = << >> /\ << >> \in Seq(Entry) /\ Len(<< >>) = 0
    BY SubSeqEmpty, EmptySeq
  <2>2. f[0] = << >>
    BY <1>1, <1>2 DEF Planned
  <2>3. Cuts(<< >>) = {} /\ Cardinality({}) = 0
    BY EmptySeq, FS_EmptySet DEF Cuts
  <2>4. PlanByPieces(<< >>) = << >>
    <3>1. PlanByPieces(<< >>) = [n \in 1..0 |-> PieceStep(<< >>, n)]
      BY <2>3 DEF PlanByPieces
    <3> QED
      BY <3>1
  <2>5. Reads(<< >>, << >>)
    <3>1. 1..0 = {}
      OBVIOUS
    <3>2. \A n \in 1..Cardinality(Cuts(<< >>)) : Piece(<< >>, n) # {}
      BY <2>3, <3>1
    <3> QED
      BY <2>1, <2>4, <3>2 DEF Reads
  <2> QED
    BY <1>2, <2>1, <2>2, <2>5
<1>4. ASSUME NEW k \in 1..l, k - 1 \in Good PROVE k \in Good
  <2>1. mounts[k] \in Entry /\ k \in 0..l
    BY <1>2, ElementOfSeq
  <2>2. Prefix(k - 1) \in Seq(Entry) /\ Prefix(k) = Append(Prefix(k - 1), mounts[k])
    <3>1. 1 \in Int /\ k - 1 \in Int /\ 1 \in 1..l /\ k \in 1..l
      BY <1>2
    <3>2. \A i \in 1..(k - 1) : mounts[i] \in Entry
      BY <1>2, ElementOfSeq
    <3>3. Prefix(k - 1) \in Seq(Entry)
      BY <3>1, <3>2, SubSeqProperties
    <3>4. Prefix(k) = Prefix(k - 1) \o << mounts[k] >>
      BY <3>1, SubSeqRecursiveSecond
    <3>5. Prefix(k - 1) \o << mounts[k] >> = Append(Prefix(k - 1), mounts[k])
      BY <2>1, <3>3, AppendIsConcat
    <3> QED
      BY <3>3, <3>4, <3>5
  <2>3. f[k] = AddToPlan(f[k - 1], mounts[k])
    BY <1>1, <2>1 DEF Planned
  <2>4. Reads(f[k - 1], Prefix(k - 1))
    BY <1>4
  <2> HIDE DEF Prefix
  <2>5. Reads(f[k], Prefix(k))
    BY <2>1, <2>2, <2>3, <2>4, ReadsOn
  <2> QED
    BY <2>1, <2>5
<1> HIDE DEF Good
<1>5. 0..l \subseteq Good
  BY <1>2, <1>3, <1>4, UpTo
<1>6. Reads(f[l], Prefix(l))
  BY <1>2, <1>5 DEF Good
<1>7. Prefix(l) = mounts
  BY SubSeqFull
<1> QED
  BY <1>1, <1>6, <1>7 DEF Reads

\* Whatever list a process is about to save, the mount plan that is replayed from it is the
\* list cut into its pieces: no union joins another over something that was mounted
\* between them, or on another target, and no path changes its place.
THEOREM PlansArePieces == Spec => []PlanIsPieces
<1>1. TypeOK => PlanIsPieces
  BY PlanOfPieces DEF TypeOK, PlanIsPieces
<1> QED
  BY <1>1, StoreTypeCorrect, PTL
==============================================================================
