------------------------------- MODULE RamTree -------------------------------
(***************************************************************************)
(* The in-memory tree of libs/planten_fs_ramfs/src/lib.rs: a tree of       *)
(* Inodes, each owning a map from names to child Inodes.                   *)
(*                                                                         *)
(* A path is the sequence of names that split('/') leaves once the empty   *)
(* components are dropped, and a tree is the function from the paths that  *)
(* exist to what their Inodes hold.  Dropping an Inode drops everything    *)
(* below it, moving it moves everything below it.  Of an Inode the model   *)
(* keeps the name, the DMDIR bit of mode, and data; owner and times are    *)
(* left out, and with them the version of a qid.                           *)
(*                                                                         *)
(* Each mutating operation yields a record whose "out" is "some" or "none" *)
(* (the Option the Rust function returns) or "panic", and whose "tree" is  *)
(* the tree it leaves behind.                                              *)
(***************************************************************************)
EXTENDS Integers, Sequences, FiniteSets, SequencesExt

CONSTANTS
  Byte,            \* what a byte of file data can be; 0 is one of them
  Word,            \* one more than the largest usize: 2^64 in the code
  OverflowChecks   \* TRUE in a debug build, where an overflowing + panics

ASSUME TreeAssumption ==
  /\ 0 \in Byte
  /\ Word \in Nat \ {0}
  /\ OverflowChecks \in BOOLEAN

Root == << >>

\* stat.mode, stat.length and stat.name when Twstat leaves the field alone
Keep == -1
KeepName == ""

\* A Vec<u8> never holds more than isize::MAX bytes: resize panics first.
MaxVec == (Word \div 2) - 1

\* Inode::new with and without the DMDIR bit
Dir(name) == [name |-> name, dir |-> TRUE, data |-> << >>]
File(name) == [name |-> name, dir |-> FALSE, data |-> << >>]

WithDir(node, dir) == [name |-> node.name, dir |-> dir, data |-> node.data]
WithData(node, data) == [name |-> node.name, dir |-> node.dir, data |-> data]

EmptyTree == [p \in {Root} |-> Dir("/")]

(***************************************************************************)
(* Shape of a tree                                                         *)
(***************************************************************************)
PrefixClosed(t) == \A p \in DOMAIN t : Prefixes(p) \subseteq DOMAIN t

\* an Inode's name field agrees with the key it is filed under
NamedByKey(t) == \A p \in DOMAIN t : p # Root => t[p].name = Last(p)

Below(t, p) == {q \in DOMAIN t : IsPrefix(p, q)}
Without(t, p) == [q \in DOMAIN t \ Below(t, p) |-> t[q]]

\* stat finds something
Exists(t, p) == p \in DOMAIN t

(***************************************************************************)
(* create_dir and create_file: missing ancestors become directories, and   *)
(* what exists on the way is walked through whether a directory or not.    *)
(* create_dir leaves an existing target alone, create_file replaces it     *)
(* together with all that was below it.  Both do nothing for the root.     *)
(***************************************************************************)
\* faulty: insert for or_insert_with along the whole path
CreateDirInserting(t, p) ==
  [q \in DOMAIN t \cup Prefixes(p) |-> IF q \in Prefixes(p) \ {Root} THEN Dir(Last(q)) ELSE t[q]]

CreateDir(t, p) ==
  [q \in DOMAIN t \cup Prefixes(p) |-> IF q \in DOMAIN t THEN t[q] ELSE Dir(Last(q))]

CreateFile(t, p) ==
  IF p = Root THEN t
  ELSE [CreateDir(Without(t, p), p) EXCEPT ![p] = File(Last(p))]

(***************************************************************************)
(* remove: the Inode and everything below it; the root cannot be removed.  *)
(***************************************************************************)
RemovePath(t, p) ==
  IF p # Root /\ Exists(t, p)
  THEN [out |-> "some", tree |-> Without(t, p)]
  ELSE [out |-> "none", tree |-> t]

(***************************************************************************)
(* Vec::resize(len, 0)                                                     *)
(***************************************************************************)
Resized(data, len) == [i \in 1..len |-> IF i <= Len(data) THEN data[i] ELSE 0]

(***************************************************************************)
(* write: start + data.len() is computed in usize, so a debug build panics *)
(* where it overflows and a release build wraps.  Either way a file that   *)
(* is too short is resized, and the slice data[start..end] panics when the *)
(* sum wrapped, after the resize.  A directory is written like a file.     *)
(***************************************************************************)
\* faulty: entry().or_insert_with() where get_mut() belongs
WriteAtCreating(t, p, offset, bytes) ==
  [out  |-> IF p = Root THEN "none" ELSE "some",
   tree |-> IF p = Root \/ Exists(t, p) THEN t ELSE CreateFile(t, p)]

WriteAt(t, p, offset, bytes) ==
  LET sum      == offset + Len(bytes)
      end      == sum % Word
      old      == t[p].data
      grown    == IF end > Len(old) THEN Resized(old, end) ELSE old
      written  == [i \in 1..Len(grown) |->
                     IF i \in (offset + 1)..end THEN bytes[i - offset] ELSE grown[i]]
  IN  IF p = Root \/ ~Exists(t, p) THEN [out |-> "none", tree |-> t]
      ELSE IF (sum >= Word /\ OverflowChecks) \/ end > MaxVec
      THEN [out |-> "panic", tree |-> t]
      ELSE [out  |-> IF offset > end THEN "panic" ELSE "some",
            tree |-> [t EXCEPT ![p] = WithData(t[p], written)]]

(***************************************************************************)
(* read: start + count overflows like above, but a wrapped end is never    *)
(* used, for start is then past the end of the data.                       *)
(***************************************************************************)
\* (faulty: the slice is taken whether or not start is past the end of the data)
ReadPanicsAtSlice(offset, count) ==
  IF OverflowChecks THEN offset + count >= Word ELSE (offset + count) % Word < offset

ReadPanics(offset, count) == OverflowChecks /\ offset + count >= Word

(***************************************************************************)
(* wstat_from_stat: the changes go to a clone of the Inode, which replaces *)
(* the original at the very end, under a new key when it is renamed.       *)
(***************************************************************************)
\* faulty: the children stay behind and are lost
MovedAlone(t, p, q) ==
  [d \in (DOMAIN t \ Below(t, p)) \cup {q} |-> IF d = q THEN t[p] ELSE t[d]]

Moved(t, p, q) ==
  LET gone    == Below(t, p)
      Dest(r) == q \o SubSeq(r, Len(p) + 1, Len(r))
      came    == {Dest(r) : r \in gone}
      From(d) == p \o SubSeq(d, Len(q) + 1, Len(d))
  IN  [d \in (DOMAIN t \ gone) \cup came |-> IF d \in came THEN t[From(d)] ELSE t[d]]

\* faulty: the key changes, the name inside the Inode does not
WithStatNameless(node, st) ==
  [name |-> node.name,
   dir  |-> IF st.mode = Keep THEN node.dir ELSE st.mode = 1,
   data |-> IF st.length = Keep THEN node.data ELSE Resized(node.data, st.length)]

WithStat(node, st) ==
  [name |-> IF st.name = KeepName THEN node.name ELSE st.name,
   dir  |-> IF st.mode = Keep THEN node.dir ELSE st.mode = 1,
   data |-> IF st.length = Keep THEN node.data ELSE Resized(node.data, st.length)]

\* faulty: the Inode is changed in place before the new name is looked at
WstatInPlace(t, p, st) ==
  LET target  == IF st.name = KeepName \/ p = Root THEN p ELSE Append(Front(p), st.name)
      changed == [t EXCEPT ![p] = WithStat(t[p], [st EXCEPT !.name = KeepName])]
  IN  IF ~Exists(t, p) \/ st.length > MaxVec THEN [out |-> "none", tree |-> t]
      ELSE IF target # p /\ Exists(t, target) THEN [out |-> "none", tree |-> changed]
      ELSE [out |-> "some", tree |-> t]

WstatFromStat(t, p, st) ==
  LET target == IF st.name = KeepName THEN p ELSE Append(Front(p), st.name)
  IN  IF p = Root
      THEN [out  |-> "some",
            tree |-> IF st.mode = Keep THEN t
                     ELSE [t EXCEPT ![Root] = WithDir(t[Root], st.mode = 1)]]
      ELSE IF ~Exists(t, p) \/ (target # p /\ Exists(t, target) /\ st.length <= MaxVec)
      THEN [out |-> "none", tree |-> t]
      ELSE IF st.length > MaxVec
      THEN [out |-> "panic", tree |-> t]
      ELSE [out  |-> "some",
            tree |-> [Moved(t, p, target) EXCEPT ![target] = WithStat(t[p], st)]]

(***************************************************************************)
(* resolve_step in server.rs.  A component is the sequence of names that   *)
(* split('/') makes of it; the four that resolve_step singles out have a   *)
(* spelling of their own, which no name has.                               *)
(***************************************************************************)
NoComponent == <<"">>
Dot == <<".">>
DotDot == <<"..">>
Slash == <<"/">>

\* faulty: ".." is taken for a name
ResolveStepLiteral(base, component) ==
  IF component = Dot THEN base
  ELSE IF component = Slash THEN Root
  ELSE base \o component

ResolveStep(base, component) ==
  IF component = Dot THEN base
  ELSE IF component = Slash THEN Root
  ELSE IF component = DotDot THEN (IF base = Root THEN Root ELSE Front(base))
  ELSE base \o component

\* the paths a Twalk of these components passes through, position 0 its start
Steps(base, components) ==
  LET at[i \in 0..Len(components)] ==
        IF i = 0 THEN base ELSE ResolveStep(at[i - 1], components[i])
  IN  at

\* every component is valid and every path on the way exists
WalkSucceeds(t, base, components) ==
  \A i \in 1..Len(components) :
     /\ components[i] # NoComponent
     /\ Exists(t, Steps(base, components)[i])
==============================================================================
