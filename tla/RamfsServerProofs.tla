-------------------------- MODULE RamfsServerProofs --------------------------
(***************************************************************************)
(* Theorems about RamfsServer, for every set of clients, fids, names and   *)
(* requests, every depth of the tree and every size of the machine word.   *)
(***************************************************************************)
EXTENDS RamfsServer, RamTreeProofs

(***************************************************************************)
(* Types and the shape of the tree.  Neither is inductive alone: a fid     *)
(* established by a walk is a path because the walk found it in a tree of  *)
(* paths, a new directory has a name because the root exists already, and  *)
(* a rename of an Inode keeps the tree named because it was.               *)
(***************************************************************************)
IInv == TypeOK /\ TreeIntact

\* The two parts of IInv: a tree, and the table, threads and mutex around it.
TableOK ==
  /\ poisoned \in BOOLEAN
  /\ fids \in [Client -> [Fid -> FidState \cup {NoFid}]]
  /\ conn \in [Client -> {"up", "down"}]
  /\ reply \in [client : Client, req : Request \cup {"none"}, out : Outcome]

LEMMA IInvParts == IInv <=> IsTree(Name, fs) /\ TableOK
BY DEF IInv, TypeOK, TreeIntact, TableOK, IsTree, Inode, InodeOver, Path

\* The same of the next state.
LEMMA IInvPartsPrime == IInv' <=> IsTree(Name, fs') /\ TableOK'
BY DEF IInv, TypeOK, TreeIntact, TableOK, IsTree, Inode, InodeOver, Path

\* The tree that main builds is one.
LEMMA InitIsTree == Init => IsTree(Name, fs)
<1> SUFFICES ASSUME Init PROVE IsTree(Name, fs)
  OBVIOUS
<1>1. SeedFile \in SUBSET Name /\ SeedData \in Seq(Byte)
  BY ServerAssumption
<1> QED
  BY <1>1, SeedIsTree, Zenon DEF Init

\* The first state satisfies the invariant.
LEMMA InitIInv == Init => IInv
<1> SUFFICES ASSUME Init PROVE IInv
  OBVIOUS
<1>1. TableOK
  BY DEF Init, TableOK, NoFids, Outcome
<1> QED
  BY <1>1, InitIsTree, IInvParts

\* A fid in use names a path.
LEMMA KnownPath ==
  ASSUME IInv, NEW c \in Client, NEW f \in Fid, Known(c, f)
  PROVE  fids[c][f] \in FidState /\ PathOf(c, f) \in Path
BY DEF IInv, TypeOK, Known, PathOf, FidState

\* There is a root to walk from.
LEMMA RootIsThere ==
  ASSUME IInv
  PROVE  \A c, f : ~NoRootFor(c, f)
BY IInvParts DEF IsTree, NoRootFor, Exists

\* A component that is not refused takes a path to a path.
LEMMA ResolveStepIsPath ==
  ASSUME NEW base \in Path, NEW component \in WireComponent, component # NoComponent
  PROVE  ResolveStep(base, component) \in Path
BY ResolveStepIsSeq DEF Path, WireComponent

\* What a request that changes the tree leaves behind.
LEMMA SettleKeepsIInv ==
  ASSUME IInv, NEW c \in Client, NEW req \in Request, NEW tree, NEW out \in Outcome,
         IsTree(Name, tree), Settle(c, req, tree, out)
  PROVE  IInv'
<1>1. fs' = tree
  BY DEF Settle
<1>2. TableOK'
  BY IInvParts DEF TableOK, Settle, Answer, NoFids
<1> QED
  BY <1>1, <1>2, IInvPartsPrime

\* Every request keeps the invariant.
LEMMA NextKeepsIInv ==
  ASSUME IInv, Next
  PROVE  IInv'
<1>1. IsTree(Name, fs) /\ TableOK
  BY IInvParts
<1>2. PICK c \in Client :
        \/ Accept(c) \/ Hangup(c)
        \/ \E req \in {"Tversion", "Tauth", "Tflush"} : HandleVersionAuthFlush(c, req)
        \/ \E f \in Fid :
             \/ HandleClunk(c, f) \/ HandleAttach(c, f) \/ HandleStat(c, f) \/ HandleRemove(c, f)
             \/ \E newfid \in Fid : HandleClone(c, f, newfid)
             \/ \E newfid \in Fid, components \in Walks : HandleWalk(c, f, newfid, components)
             \/ \E mode \in OpenMode : HandleOpen(c, f, mode)
             \/ \E offset \in Offset, count \in Count : HandleRead(c, f, offset, count)
             \/ \E component \in Component, isDir \in BOOLEAN : HandleCreate(c, f, component, isDir)
             \/ \E offset \in Offset, bytes \in Buffer : HandleWrite(c, f, offset, bytes)
             \/ \E st \in NewStat : HandleWstat(c, f, st)
  BY DEF Next
<1> USE DEF TableOK
<1>3. ASSUME NEW req \in Request, SendError(c, req) PROVE IInv'
  BY <1>1, <1>3, IInvPartsPrime DEF SendError, Answer, Outcome
<1>4. ASSUME NEW req \in Request, LockPanics(c, req) PROVE IInv'
  BY <1>1, <1>4, IInvPartsPrime DEF LockPanics, ThreadDies, Answer, NoFids, Outcome
<1>5. ASSUME NEW f \in Fid, NEW req \in Request, UnknownFid(c, f, req) PROVE IInv'
  BY <1>3, <1>5 DEF UnknownFid
<1>6. CASE Accept(c) \/ Hangup(c)
  BY <1>1, <1>6, IInvPartsPrime DEF Accept, Hangup, Answer, NoFids, Outcome
<1>7. ASSUME NEW req \in {"Tversion", "Tauth", "Tflush"}, HandleVersionAuthFlush(c, req) PROVE IInv'
  BY <1>1, <1>7, IInvPartsPrime DEF HandleVersionAuthFlush, Answer, Outcome, Request
<1>8. ASSUME NEW f \in Fid, HandleClunk(c, f) PROVE IInv'
  BY <1>1, <1>8, IInvPartsPrime DEF HandleClunk, Answer, Outcome, Request
<1>9. ASSUME NEW f \in Fid, NEW newfid \in Fid, HandleClone(c, f, newfid) PROVE IInv'
  <2>1. CASE Known(c, f) /\ fids' = [fids EXCEPT ![c][newfid] = fids[c][f]]
                         /\ Answer(c, "Tclone", "ok") /\ UNCHANGED <<fs, poisoned, conn>>
    <3>1. fids[c][f] \in FidState \cup {NoFid}
      BY <1>1
    <3>2. fids' \in [Client -> [Fid -> FidState \cup {NoFid}]]
      BY <1>1, <2>1, <3>1
    <3>3. TableOK'
      BY <1>1, <2>1, <3>2 DEF Answer, Outcome, Request
    <3> QED
      BY <1>1, <2>1, <3>3, IInvPartsPrime
  <2> QED
    BY <1>5, <1>9, <2>1 DEF HandleClone, Request
<1>10. ASSUME NEW f \in Fid, HandleAttach(c, f) PROVE IInv'
  <2>1. [path |-> Root, mode |-> NoMode] \in FidState
    BY EmptySeq DEF FidState, Path, Root
  <2>2. CASE ~LockPanics(c, "Tattach")
    <3>1. /\ fids' = [fids EXCEPT ![c][f] = [path |-> Root, mode |-> NoMode]]
          /\ reply' = [client |-> c, req |-> "Tattach", out |-> "ok"]
          /\ fs' = fs /\ poisoned' = poisoned /\ conn' = conn
      BY <1>1, <1>10, <2>2 DEF HandleAttach, Answer, Exists, IsTree
    <3> QED
      BY <1>1, <2>1, <3>1, IInvPartsPrime DEF Outcome, Request
  <2> QED
    BY <1>4, <1>10, <2>2 DEF HandleAttach, Request
<1>11. ASSUME NEW f \in Fid, NEW newfid \in Fid, NEW components \in Walks,
              HandleWalk(c, f, newfid, components)
       PROVE  IInv'
  <2>1. WalkFinds(c, f, components) => WalkedFid(c, f, components) \in FidState
    <3>1. WalkFinds(c, f, components) => WalkTarget(c, f, components) \in Path
      BY <1>1 DEF WalkFinds, Exists, IsTree, Path
    <3> QED
      BY <3>1 DEF WalkedFid, FidState
  <2>2. CASE /\ WalkFinds(c, f, components)
             /\ fids' = [fids EXCEPT ![c][newfid] = WalkedFid(c, f, components)]
             /\ Answer(c, "Twalk", "ok")
             /\ UNCHANGED <<fs, poisoned, conn>>
    <3>1. fids' \in [Client -> [Fid -> FidState \cup {NoFid}]]
      BY <1>1, <2>1, <2>2
    <3>2. reply' \in [client : Client, req : Request \cup {"none"}, out : Outcome]
      BY <2>2 DEF Answer, Outcome, Request
    <3> QED
      BY <1>1, <2>2, <3>1, <3>2, IInvPartsPrime
  <2>3. "Twalk" \in Request
    BY DEF Request
  <2> QED
    BY <1>3, <1>4, <1>11, <2>2, <2>3, RootIsThere DEF HandleWalk
<1>12. ASSUME NEW f \in Fid, HandleStat(c, f) PROVE IInv'
  <2>1. CASE Answer(c, "Tstat", "ok") /\ UNCHANGED <<fs, poisoned, fids, conn>>
    BY <1>1, <2>1, IInvPartsPrime DEF Answer, Outcome, Request
  <2>2. "Tstat" \in Request
    BY DEF Request
  <2> QED
    BY <1>3, <1>4, <1>5, <1>12, <2>1, <2>2 DEF HandleStat
<1>13. ASSUME NEW f \in Fid, NEW mode \in OpenMode, HandleOpen(c, f, mode) PROVE IInv'
  <2>1. Known(c, f) => [path |-> PathOf(c, f), mode |-> mode] \in FidState
    BY KnownPath DEF FidState
  <2>2. CASE /\ Known(c, f)
             /\ fids' = [fids EXCEPT ![c][f] = [path |-> PathOf(c, f), mode |-> mode]]
             /\ Answer(c, "Topen", "ok")
             /\ UNCHANGED <<fs, poisoned, conn>>
    <3>1. fids' \in [Client -> [Fid -> FidState \cup {NoFid}]]
      BY <1>1, <2>1, <2>2
    <3>2. reply' \in [client : Client, req : Request \cup {"none"}, out : Outcome]
      BY <2>2 DEF Answer, Outcome, Request
    <3> QED
      BY <1>1, <2>2, <3>1, <3>2, IInvPartsPrime
  <2>3. "Topen" \in Request
    BY DEF Request
  <2> QED
    BY <1>3, <1>4, <1>5, <1>13, <2>2, <2>3 DEF HandleOpen
<1>14. ASSUME NEW f \in Fid, NEW offset \in Offset, NEW count \in Count,
              HandleRead(c, f, offset, count)
       PROVE  IInv'
  <2>1. CASE ThreadDies(c, "Tread") /\ UNCHANGED <<fs, poisoned>>
    BY <1>1, <2>1, IInvPartsPrime DEF ThreadDies, Answer, NoFids, Outcome, Request
  <2>2. CASE Answer(c, "Tread", "ok") /\ UNCHANGED <<fs, poisoned, fids, conn>>
    BY <1>1, <2>2, IInvPartsPrime DEF Answer, Outcome, Request
  <2>3. "Tread" \in Request
    BY DEF Request
  <2> QED
    BY <1>3, <1>4, <1>5, <1>14, <2>1, <2>2, <2>3 DEF HandleRead
<1>15. ASSUME NEW f \in Fid, NEW component \in Component, NEW isDir \in BOOLEAN,
              HandleCreate(c, f, component, isDir)
       PROVE  IInv'
  <2> DEFINE path == ResolveStep(PathOf(c, f), component)
             created == IF isDir THEN CreateDir(fs, path) ELSE CreateFile(fs, path)
             out == IF Exists(created, path) THEN "ok" ELSE "panic"
  <2>1. CASE Known(c, f) /\ component # NoComponent /\ Settle(c, "Tcreate", created, out)
    <3>1. path \in Seq(Name)
      BY <2>1, KnownPath, ResolveStepIsPath, ServerAssumption DEF Path
    <3>2. IsTree(Name, created)
      BY <1>1, <3>1, CreateDirKeepsTree, CreateFileKeepsTree
    <3>3. out \in Outcome /\ "Tcreate" \in Request
      BY DEF Outcome, Request
    <3> QED
      BY <2>1, <3>2, <3>3, SettleKeepsIInv
  <2> QED
    BY <1>3, <1>4, <1>5, <1>15, <2>1 DEF HandleCreate, Request
<1>16. ASSUME NEW f \in Fid, NEW offset \in Offset, NEW bytes \in Buffer,
              HandleWrite(c, f, offset, bytes)
       PROVE  IInv'
  <2> DEFINE result == WriteAt(fs, PathOf(c, f), offset, bytes)
             out == OutcomeOf(result.out, "zero")
  <2>1. CASE Known(c, f) /\ Settle(c, "Twrite", result.tree, out)
    <3>1. PathOf(c, f) \in Seq(Name) /\ offset \in Nat /\ bytes \in Seq(Byte)
      BY <2>1, KnownPath, ServerAssumption, TreeAssumption DEF Path
    <3>2. IsTree(Name, result.tree)
      BY <1>1, <3>1, WriteAtKeepsTree
    <3>3. out \in Outcome /\ "Twrite" \in Request
      BY DEF Outcome, OutcomeOf, Request
    <3> HIDE DEF result, out
    <3> QED
      BY <2>1, <3>2, <3>3, SettleKeepsIInv
  <2> QED
    BY <1>3, <1>4, <1>5, <1>16, <2>1 DEF HandleWrite, Request
<1>17. ASSUME NEW f \in Fid, NEW st \in NewStat, HandleWstat(c, f, st) PROVE IInv'
  <2> DEFINE result == WstatFromStat(fs, PathOf(c, f), st)
             out == OutcomeOf(result.out, "error")
  <2>1. CASE Known(c, f) /\ Settle(c, "Twstat", result.tree, out)
    <3>1. PathOf(c, f) \in Seq(Name) /\ st \in StatOver(Name)
      BY <2>1, KnownPath, ServerAssumption DEF Path, StatOver
    <3>2. IsTree(Name, result.tree)
      BY <1>1, <3>1, WstatKeepsTree
    <3>3. out \in Outcome /\ "Twstat" \in Request
      BY DEF Outcome, OutcomeOf, Request
    <3> HIDE DEF result, out
    <3> QED
      BY <2>1, <3>2, <3>3, SettleKeepsIInv
  <2> QED
    BY <1>3, <1>4, <1>5, <1>17, <2>1 DEF HandleWstat, Request
<1>18. ASSUME NEW f \in Fid, HandleRemove(c, f) PROVE IInv'
  <2> DEFINE result == RemovePath(fs, PathOf(c, f))
  <2>1. CASE Known(c, f) /\ ~LockPanics(c, "Tremove")
    <3>1. IsTree(Name, result.tree)
      BY <1>1, <2>1, KnownPath, RemovePathKeepsTree DEF Path
    <3>2. fs' = result.tree
      BY <1>18, <2>1 DEF HandleRemove, UnknownFid, Known
    <3>3. TableOK'
      BY <1>1, <1>18, <2>1 DEF HandleRemove, UnknownFid, Known, Answer, Outcome, Request
    <3> QED
      BY <3>1, <3>2, <3>3, IInvPartsPrime
  <2> QED
    BY <1>4, <1>5, <1>18, <2>1 DEF HandleRemove, Request
<1> QED
  BY <1>2, <1>6, <1>7, <1>8, <1>9, <1>10, <1>11, <1>12, <1>13, <1>14, <1>15, <1>16, <1>17, <1>18

\* The invariant holds of every state the server reaches.
THEOREM Invariant == Spec => []IInv
<1>1. IInv /\ [Next]_vars => IInv'
  <2>1. IInv /\ UNCHANGED vars => IInv'
    BY DEF IInv, vars, TypeOK, TreeIntact
  <2> QED
    BY <2>1, NextKeepsIInv
<1> QED
  BY <1>1, InitIInv, PTL DEF Spec

\* What the tree, the tables, the connections and the mutex hold is always of its
\* type.
THEOREM TypeCorrect == Spec => []TypeOK
<1>1. IInv => TypeOK
  BY DEF IInv
<1> QED
  BY <1>1, Invariant, PTL

\* The root stays, every path that exists has all its ancestors, and every Inode is
\* filed under its own name, whatever the clients do and in whatever order.
THEOREM TreeStaysIntact == Spec => []TreeIntact
<1>1. IInv => TreeIntact
  BY DEF IInv
<1> QED
  BY <1>1, Invariant, PTL

(***************************************************************************)
(* What a step may never do                                                *)
(***************************************************************************)
\* A table that is dropped.
LEMMA TableDropped ==
  ASSUME TypeOK, NEW c \in Client, fids' = [fids EXCEPT ![c] = NoFids]
  PROVE  \A d \in Client, g \in Fid : fids'[d][g] # fids[d][g] => fids'[d][g] = NoFid
BY DEF NoFids, TypeOK

\* What a panic, an error reply and a request that is refused leave alone.
LEMMA Refusals ==
  ASSUME TypeOK, NEW c \in Client, NEW f \in Fid, NEW req,
         \/ SendError(c, req)
         \/ UnknownFid(c, f, req)
         \/ LockPanics(c, req)
         \/ ThreadDies(c, req) /\ UNCHANGED <<fs, poisoned>>
  PROVE  /\ fs' = fs /\ poisoned' = poisoned
         /\ \A d \in Client, g \in Fid : fids'[d][g] # fids[d][g] => fids'[d][g] = NoFid
         /\ reply'.client = c /\ reply'.req = req /\ reply'.out \in {"error", "panic"}
         /\ reply'.out = "error" => fids' = fids /\ conn' = conn
<1>1. CASE SendError(c, req) \/ UnknownFid(c, f, req)
  BY <1>1 DEF SendError, UnknownFid, Answer
<1>2. CASE ThreadDies(c, req) /\ UNCHANGED <<fs, poisoned>>
  <2>1. /\ fids' = [fids EXCEPT ![c] = NoFids]
        /\ reply' = [client |-> c, req |-> req, out |-> "panic"]
    BY <1>2 DEF ThreadDies, Answer
  <2>2. \A d \in Client, g \in Fid : fids'[d][g] # fids[d][g] => fids'[d][g] = NoFid
    BY <2>1, TableDropped
  <2> QED
    BY <1>2, <2>1, <2>2
<1> QED
  BY <1>1, <1>2 DEF LockPanics

\* Handlers that set one fid and leave the tree alone.
FidSetTo(c, f, state) ==
  /\ fids' = [fids EXCEPT ![c][f] = state]
  /\ UNCHANGED <<fs, poisoned, conn>>

\* Setting a fid of a client leaves all others as they were.
LEMMA FidSet ==
  ASSUME TypeOK, NEW c \in Client, NEW f \in Fid, NEW state, FidSetTo(c, f, state)
  PROVE  \A d \in Client, g \in Fid :
           fids'[d][g] = IF d = c /\ g = f THEN state ELSE fids[d][g]
BY DEF FidSetTo, TypeOK

\* A poisoned mutex stays poisoned, the tree behind it never changes again, and fids
\* can only be dropped or copied.
THEOREM PoisonIsForEver == Spec => PoisonFreezesTheTree
<1> DEFINE Frozen ==
      poisoned =>
        /\ poisoned' /\ fs' = fs
        /\ \A c \in Client, f \in Fid :
             fids'[c][f] # fids[c][f] => fids'[c][f] \in {NoFid} \cup {fids[c][g] : g \in Fid}
<1>1. ASSUME IInv, Next PROVE Frozen
  <2> SUFFICES ASSUME poisoned
               PROVE  /\ poisoned' /\ fs' = fs
                      /\ \A d \in Client, g \in Fid : fids'[d][g] # fids[d][g] =>
                           fids'[d][g] \in {NoFid} \cup {fids[d][h] : h \in Fid}
    OBVIOUS
  <2>1. TypeOK
    BY <1>1 DEF IInv
  <2>2. ASSUME NEW c \in Client, Accept(c) \/ Hangup(c) PROVE Frozen
    <3>1. fids' = [fids EXCEPT ![c] = NoFids] /\ UNCHANGED <<fs, poisoned>>
      BY <2>2 DEF Accept, Hangup
    <3> QED
      BY <2>1, <3>1, TableDropped
  <2>3. ASSUME NEW c \in Client, NEW req, HandleVersionAuthFlush(c, req) PROVE Frozen
    BY <2>3 DEF HandleVersionAuthFlush
  <2>4. ASSUME NEW c \in Client, NEW f \in Fid, NEW state \in {NoFid} \cup {fids[c][h] : h \in Fid},
               FidSetTo(c, f, state)
        PROVE  Frozen
    <3>1. \A d \in Client, g \in Fid :
            fids'[d][g] = IF d = c /\ g = f THEN state ELSE fids[d][g]
      BY <2>1, <2>4, FidSet
    <3> QED
      BY <2>4, <3>1 DEF FidSetTo
  <2>5. ASSUME NEW c \in Client, NEW f \in Fid, NEW req,
               \/ SendError(c, req)
               \/ UnknownFid(c, f, req)
               \/ LockPanics(c, req)
        PROVE  Frozen
    BY <2>1, <2>5, Refusals
  <2>6. ASSUME NEW c \in Client, NEW f \in Fid, HandleClunk(c, f) PROVE Frozen
    BY <2>4, <2>6 DEF HandleClunk, FidSetTo
  <2>7. ASSUME NEW c \in Client, NEW f \in Fid, NEW newfid \in Fid, HandleClone(c, f, newfid)
        PROVE  Frozen
    <3>1. CASE FidSetTo(c, newfid, fids[c][f])
      BY <2>4, <3>1
    <3> QED
      BY <2>5, <2>7, <3>1 DEF HandleClone, FidSetTo
  <2>8. ASSUME NEW c \in Client, NEW f \in Fid,
               \/ HandleAttach(c, f) \/ HandleStat(c, f) \/ HandleRemove(c, f)
               \/ \E newfid \in Fid, components \in Walks : HandleWalk(c, f, newfid, components)
               \/ \E mode \in OpenMode : HandleOpen(c, f, mode)
               \/ \E st \in NewStat : HandleWstat(c, f, st)
        PROVE  Frozen
    BY <2>5, <2>8 DEF HandleAttach, HandleStat, HandleRemove, HandleWalk, HandleOpen, HandleWstat
  <2>9. ASSUME NEW c \in Client, NEW f \in Fid,
               \/ \E offset \in Offset, count \in Count : HandleRead(c, f, offset, count)
               \/ \E component \in Component, isDir \in BOOLEAN : HandleCreate(c, f, component, isDir)
               \/ \E offset \in Offset, bytes \in Buffer : HandleWrite(c, f, offset, bytes)
        PROVE  Frozen
    BY <2>5, <2>9 DEF HandleRead, HandleCreate, HandleWrite
  <2> HIDE DEF Frozen
  <2>10. Frozen
    BY <1>1, <2>2, <2>3, <2>6, <2>7, <2>8, <2>9 DEF Next
  <2> QED
    BY <2>10 DEF Frozen
<1>2. IInv /\ [Next]_vars => [Frozen]_vars
  BY <1>1
<1> QED
  BY <1>2, Invariant, PTL DEF Spec, PoisonFreezesTheTree

\* An Rerror means that nothing happened, except that a Tremove drops its fid.
THEOREM ErrorsAreHarmless == Spec => ErrorsChangeNothing
<1> DEFINE Harmless ==
      reply'.out = "error" =>
        /\ fs' = fs /\ poisoned' = poisoned /\ conn' = conn
        /\ \A c \in Client, f \in Fid :
             fids'[c][f] # fids[c][f] =>
               reply'.client = c /\ reply'.req = "Tremove" /\ fids'[c][f] = NoFid
<1>1. ASSUME IInv, Next PROVE Harmless
  <2>1. TypeOK
    BY <1>1 DEF IInv
  <2>2. ASSUME NEW c \in Client, NEW f \in Fid, NEW req,
               \/ SendError(c, req)
               \/ UnknownFid(c, f, req)
               \/ LockPanics(c, req)
               \/ ThreadDies(c, req) /\ UNCHANGED <<fs, poisoned>>
        PROVE  Harmless
    BY <2>1, <2>2, Refusals
  <2>3. ASSUME NEW c, NEW req, Answer(c, req, "ok") PROVE Harmless
    BY <2>3 DEF Answer
  <2>4. ASSUME NEW c, NEW req, NEW tree, NEW out, Settle(c, req, tree, out), out = "error" => tree = fs,
               ~poisoned
        PROVE  Harmless
    <3> SUFFICES ASSUME reply'.out = "error" PROVE Harmless
      OBVIOUS
    <3>1. out = "error" /\ fs' = fs /\ poisoned' = FALSE /\ conn' = conn /\ fids' = fids
      BY <2>4 DEF Settle, Answer
    <3> QED
      BY <2>1, <2>4, <3>1 DEF TypeOK
  <2>5. ASSUME NEW c \in Client, NEW f \in Fid, HandleAttach(c, f) PROVE Harmless
    <3>1. Exists(fs, Root)
      BY <1>1, IInvParts DEF Exists, IsTree
    <3> QED
      BY <2>2, <2>3, <2>5, <3>1 DEF HandleAttach
  <2>6. ASSUME NEW c \in Client, NEW f \in Fid, NEW component \in Component, NEW isDir \in BOOLEAN,
               HandleCreate(c, f, component, isDir)
        PROVE  Harmless
    BY <2>2, <2>4, <2>6 DEF HandleCreate
  <2>7. ASSUME NEW c \in Client, NEW f \in Fid, NEW offset \in Offset, NEW bytes \in Buffer,
               HandleWrite(c, f, offset, bytes)
        PROVE  Harmless
    BY <2>2, <2>4, <2>7 DEF HandleWrite, OutcomeOf
  <2>8. ASSUME NEW c \in Client, NEW f \in Fid, NEW st \in NewStat, HandleWstat(c, f, st)
        PROVE  Harmless
    <3> DEFINE result == WstatFromStat(fs, PathOf(c, f), st)
    <3>1. OutcomeOf(result.out, "error") = "error" => result.tree = fs
      BY WstatNone DEF OutcomeOf
    <3> QED
      BY <2>2, <2>4, <2>8, <3>1 DEF HandleWstat
  <2>9. ASSUME NEW c \in Client, NEW f \in Fid, HandleRemove(c, f) PROVE Harmless
    <3>1. CASE UnknownFid(c, f, "Tremove") \/ LockPanics(c, "Tremove")
      BY <2>2, <3>1
    <3>2. CASE ~(UnknownFid(c, f, "Tremove") \/ LockPanics(c, "Tremove"))
      <4>1. /\ fids' = [fids EXCEPT ![c][f] = NoFid]
            /\ reply' = [client |-> c, req |-> "Tremove",
                         out |-> IF RemovePath(fs, PathOf(c, f)).out = "some" THEN "ok" ELSE "error"]
            /\ fs' = RemovePath(fs, PathOf(c, f)).tree
            /\ poisoned' = poisoned /\ conn' = conn
        BY <2>9, <3>2 DEF HandleRemove, Answer
      <4>2. reply'.out = "error" => fs' = fs
        BY <4>1 DEF RemovePath
      <4>3. \A d \in Client, g \in Fid :
              fids'[d][g] # fids[d][g] => d = c /\ fids'[d][g] = NoFid
        BY <2>1, <4>1 DEF TypeOK
      <4> QED
        BY <4>1, <4>2, <4>3
    <3> QED
      BY <3>1, <3>2
  <2> HIDE DEF Harmless
  <2>10. ASSUME NEW c \in Client,
               \/ Accept(c) \/ Hangup(c)
               \/ \E req \in {"Tversion", "Tauth", "Tflush"} : HandleVersionAuthFlush(c, req)
               \/ \E f \in Fid : HandleClunk(c, f)
         PROVE Harmless
    BY <2>3, <2>10 DEF Accept, Hangup, HandleVersionAuthFlush, HandleClunk
  <2>11. ASSUME NEW c \in Client, NEW f \in Fid,
               \/ HandleStat(c, f)
               \/ \E newfid \in Fid : HandleClone(c, f, newfid)
               \/ \E newfid \in Fid, components \in Walks : HandleWalk(c, f, newfid, components)
               \/ \E mode \in OpenMode : HandleOpen(c, f, mode)
               \/ \E offset \in Offset, count \in Count : HandleRead(c, f, offset, count)
         PROVE Harmless
    BY <1>1, <2>2, <2>3, <2>11, RootIsThere DEF HandleStat, HandleClone, HandleWalk, HandleOpen, HandleRead
  <2> QED
    BY <1>1, <2>5, <2>6, <2>7, <2>8, <2>9, <2>10, <2>11 DEF Next
<1>2. IInv /\ [Next]_vars => [Harmless]_vars
  BY <1>1
<1> QED
  BY <1>2, Invariant, PTL DEF Spec, ErrorsChangeNothing

\* A Tcreate that gets past its checks: it creates, and what it creates is there.
LEMMA CreateStep ==
  ASSUME IInv, ~poisoned, NEW c \in Client, NEW f \in Fid, NEW component \in Component,
         NEW isDir \in BOOLEAN, HandleCreate(c, f, component, isDir)
  PROVE  \/ reply'.req = "Tcreate" /\ reply'.out = "error"
         \/ /\ reply'.req = "Tcreate" /\ reply'.out = "ok"
            /\ \A p \in DOMAIN fs : p \in DOMAIN fs' /\ fs'[p] = fs[p]
            /\ \E p \in DOMAIN fs' \ DOMAIN fs : DOMAIN fs' = DOMAIN fs \cup Prefixes(p)
<1> DEFINE path == ResolveStep(PathOf(c, f), component)
           created == IF isDir THEN CreateDir(fs, path) ELSE CreateFile(fs, path)
<1>1. CASE SendError(c, "Tcreate") \/ UnknownFid(c, f, "Tcreate")
  BY <1>1 DEF SendError, UnknownFid, Answer
<1>2. CASE /\ Known(c, f) /\ component # NoComponent /\ ~Exists(fs, path)
           /\ Settle(c, "Tcreate", created, IF Exists(created, path) THEN "ok" ELSE "panic")
  <2>1. path \in Seq(Name)
    BY <1>2, KnownPath, ResolveStepIsPath, ServerAssumption DEF Path
  <2>2. IsTree(Name, fs)
    BY IInvParts
  <2>3. path \notin DOMAIN fs /\ path \in DOMAIN created
    BY <1>2, <2>1, <2>2, CreateDirKeepsTree, CreateFileKeepsTree DEF Exists
  <2>4. /\ DOMAIN created = DOMAIN fs \cup Prefixes(path)
        /\ \A q \in DOMAIN fs : created[q] = fs[q]
    BY <2>1, <2>2, <2>3, CreateAdds
  <2> HIDE DEF path, created
  <2>5. fs' = created /\ reply' = [client |-> c, req |-> "Tcreate", out |-> "ok"]
    BY <1>2, <2>3 DEF Settle, Answer, Exists
  <2> QED
    BY <2>3, <2>4, <2>5
<1> QED
  BY <1>1, <1>2 DEF HandleCreate, LockPanics

\* A thread that panics on a healthy mutex does so in Vec::resize or around it, and poisons
\* the mutex, or in the sum of an offset and a count, and does not.
PanicIsKnown ==
  ~poisoned /\ reply'.out = "panic" =>
    \/ reply'.req \in {"Twrite", "Twstat"} /\ poisoned'
    \/ reply'.req = "Tread" /\ OverflowChecks /\ ~poisoned'

\* The handlers other than that of Tcreate do not answer in its name, and panic on a
\* healthy mutex only where Vec::resize, or the sum of an offset and a length, does.
LEMMA OtherSteps ==
  ASSUME IInv, Next,
         ~\E c \in Client, f \in Fid, component \in Component, isDir \in BOOLEAN :
            HandleCreate(c, f, component, isDir)
  PROVE  reply'.req # "Tcreate" /\ PanicIsKnown
<1> DEFINE Good == reply'.req # "Tcreate" /\ PanicIsKnown
<1>1. ASSUME NEW c \in Client, NEW f \in Fid, NEW req, req # "Tcreate",
             \/ SendError(c, req)
             \/ UnknownFid(c, f, req)
             \/ LockPanics(c, req)
      PROVE  Good
  BY <1>1 DEF SendError, UnknownFid, LockPanics, ThreadDies, Answer, PanicIsKnown
<1>2. ASSUME NEW c, NEW req, NEW out, req # "Tcreate", out # "panic", Answer(c, req, out) PROVE Good
  BY <1>2 DEF Answer, PanicIsKnown
<1>3. ASSUME NEW c, NEW req \in {"Twrite", "Twstat"}, NEW tree, NEW out, Settle(c, req, tree, out)
      PROVE  Good
  BY <1>3 DEF Settle, Answer, PanicIsKnown
<1>9. ASSUME NEW c, OverflowChecks, UNCHANGED poisoned, Answer(c, "Tread", "panic") PROVE Good
  BY <1>9 DEF Answer, PanicIsKnown
<1> HIDE DEF Good
<1>4. ASSUME NEW c \in Client,
             \/ Accept(c) \/ Hangup(c)
             \/ \E req \in {"Tversion", "Tauth", "Tflush"} : HandleVersionAuthFlush(c, req)
             \/ \E f \in Fid : HandleClunk(c, f)
      PROVE  Good
  BY <1>2, <1>4 DEF Accept, Hangup, HandleVersionAuthFlush, HandleClunk
<1>5. ASSUME NEW c \in Client, NEW f \in Fid,
             \/ HandleAttach(c, f) \/ HandleStat(c, f) \/ HandleRemove(c, f)
             \/ \E newfid \in Fid : HandleClone(c, f, newfid)
      PROVE  Good
  BY <1>1, <1>2, <1>5 DEF HandleAttach, HandleStat, HandleRemove, HandleClone
<1>6. ASSUME NEW c \in Client, NEW f \in Fid,
             \/ \E newfid \in Fid, components \in Walks : HandleWalk(c, f, newfid, components)
             \/ \E mode \in OpenMode : HandleOpen(c, f, mode)
      PROVE  Good
  <2> QED
    BY <1>1, <1>2, <1>6, RootIsThere DEF HandleWalk, HandleOpen
<1>7. ASSUME NEW c \in Client, NEW f \in Fid,
             \/ \E offset \in Offset, count \in Count : HandleRead(c, f, offset, count)
             \/ \E offset \in Offset, bytes \in Buffer : HandleWrite(c, f, offset, bytes)
             \/ \E st \in NewStat : HandleWstat(c, f, st)
      PROVE  Good
  <2>1. CASE \E offset \in Offset, count \in Count : HandleRead(c, f, offset, count)
    BY <1>1, <1>2, <1>9, <2>1 DEF HandleRead, ThreadDies, ReadPanics
  <2>2. CASE \E offset \in Offset, bytes \in Buffer : HandleWrite(c, f, offset, bytes)
    BY <1>1, <1>3, <2>2 DEF HandleWrite
  <2>3. CASE \E st \in NewStat : HandleWstat(c, f, st)
    BY <1>1, <1>3, <2>3 DEF HandleWstat
  <2> QED
    BY <1>7, <2>1, <2>2, <2>3
<1>8. Good
  BY <1>4, <1>5, <1>6, <1>7 DEF Next
<1> QED
  BY <1>8 DEF Good

\* The unwraps and expects of the handlers hold.
THEOREM UnwrapsHold == Spec => OnlyResizePanics
<1>1. IInv /\ [Next]_vars => [PanicIsKnown]_vars
  BY CreateStep, OtherSteps DEF PanicIsKnown
<1> QED
  BY <1>1, Invariant, PTL DEF Spec, OnlyResizePanics, PanicIsKnown

\* A Tcreate adds a path and its missing ancestors, and changes nothing else.
THEOREM CreateOnlyAdds == Spec => CreateNeverClobbers
<1> DEFINE Adds ==
      Replied("Tcreate", "ok") =>
        /\ \A p \in DOMAIN fs : p \in DOMAIN fs' /\ fs'[p] = fs[p]
        /\ \E p \in DOMAIN fs' \ DOMAIN fs : DOMAIN fs' = DOMAIN fs \cup Prefixes(p)
<1>1. ASSUME IInv, Next, Replied("Tcreate", "ok") PROVE Adds
  <2>1. PICK c \in Client, f \in Fid, component \in Component, isDir \in BOOLEAN :
          HandleCreate(c, f, component, isDir)
    BY <1>1, OtherSteps DEF Replied
  <2>2. ~poisoned
    <3>1. UnknownFid(c, f, "Tcreate") \/ SendError(c, "Tcreate") \/ LockPanics(c, "Tcreate")
             => reply'.out # "ok"
      BY DEF UnknownFid, SendError, LockPanics, ThreadDies, Answer
    <3> QED
      BY <1>1, <2>1, <3>1 DEF HandleCreate, Replied
  <2> QED
    BY <1>1, <2>1, <2>2, CreateStep DEF Replied
<1>2. IInv /\ [Next]_vars => [Adds]_vars
  BY <1>1
<1> QED
  BY <1>2, Invariant, PTL DEF Spec, CreateNeverClobbers

\* A fid that a Tattach or a Twalk establishes names a path that exists.
THEOREM EstablishedFidsAreLive == Spec => NewFidsAreLive
<1> DEFINE Live ==
      \A c \in Client, f \in Fid :
        fids'[c][f] # fids[c][f] /\ reply'.req \in {"Tattach", "Twalk"} /\ reply'.out = "ok" =>
          Exists(fs', fids'[c][f].path)
<1>1. ASSUME IInv, Next PROVE Live
  <2>1. TypeOK /\ Exists(fs, Root)
    BY <1>1, IInvParts DEF IInv, Exists, IsTree
  <2>2. ASSUME NEW c, NEW req, NEW out, Answer(c, req, out),
               req \notin {"Tattach", "Twalk"} \/ out # "ok"
        PROVE  Live
    BY <2>2 DEF Answer
  <2>3. ASSUME NEW c \in Client, NEW f \in Fid, NEW state, Exists(fs, state.path),
               FidSetTo(c, f, state)
        PROVE  Live
    BY <2>1, <2>3, FidSet DEF FidSetTo
  <2> HIDE DEF Live
  <2>4. ASSUME NEW c \in Client, NEW f \in Fid, HandleAttach(c, f) PROVE Live
    <3>1. CASE LockPanics(c, "Tattach")
      BY <2>2, <3>1 DEF LockPanics, ThreadDies
    <3>2. CASE FidSetTo(c, f, [path |-> Root, mode |-> NoMode])
      BY <2>1, <2>3, <3>2
    <3> QED
      BY <2>1, <2>4, <3>1, <3>2 DEF HandleAttach, FidSetTo
  <2>5. ASSUME NEW c \in Client, NEW f \in Fid, NEW newfid \in Fid, NEW components \in Walks,
               HandleWalk(c, f, newfid, components)
        PROVE  Live
    <3>1. CASE LockPanics(c, "Twalk") \/ SendError(c, "Twalk")
      BY <2>2, <3>1 DEF LockPanics, ThreadDies, SendError
    <3>2. CASE WalkFinds(c, f, components) /\ FidSetTo(c, newfid, WalkedFid(c, f, components))
      BY <2>3, <3>2 DEF WalkFinds, WalkedFid
    <3> QED
      BY <2>1, <2>5, <3>1, <3>2, RootIsThere, <1>1 DEF HandleWalk, FidSetTo
  <2>6. ASSUME NEW c \in Client, NEW f \in Fid, NEW req, req \notin {"Tattach", "Twalk"},
               \/ SendError(c, req)
               \/ UnknownFid(c, f, req)
               \/ LockPanics(c, req)
        PROVE  Live
    BY <2>2, <2>6 DEF SendError, UnknownFid, LockPanics, ThreadDies
  <2>7. ASSUME NEW c \in Client,
               \/ Accept(c) \/ Hangup(c)
               \/ \E req \in {"Tversion", "Tauth", "Tflush"} : HandleVersionAuthFlush(c, req)
               \/ \E f \in Fid : HandleClunk(c, f)
        PROVE  Live
    BY <2>2, <2>7 DEF Accept, Hangup, HandleVersionAuthFlush, HandleClunk
  <2>8. ASSUME NEW c \in Client, NEW f \in Fid,
               \/ HandleStat(c, f) \/ HandleRemove(c, f)
               \/ \E newfid \in Fid : HandleClone(c, f, newfid)
               \/ \E mode \in OpenMode : HandleOpen(c, f, mode)
               \/ \E offset \in Offset, count \in Count : HandleRead(c, f, offset, count)
        PROVE  Live
    BY <2>2, <2>6, <2>8 DEF HandleStat, HandleRemove, HandleClone, HandleOpen, HandleRead, ThreadDies
  <2>9. ASSUME NEW c \in Client, NEW f \in Fid,
               \/ \E component \in Component, isDir \in BOOLEAN : HandleCreate(c, f, component, isDir)
               \/ \E offset \in Offset, bytes \in Buffer : HandleWrite(c, f, offset, bytes)
               \/ \E st \in NewStat : HandleWstat(c, f, st)
        PROVE  Live
    BY <2>2, <2>6, <2>9 DEF HandleCreate, HandleWrite, HandleWstat, Settle
  <2> QED
    BY <1>1, <2>4, <2>5, <2>7, <2>8, <2>9 DEF Next
<1>2. IInv /\ [Next]_vars => [Live]_vars
  BY <1>1
<1> QED
  BY <1>2, Invariant, PTL DEF Spec, NewFidsAreLive

(***************************************************************************)
(* What may happen to the tree                                             *)
(***************************************************************************)
\* The four ways in which the handler of client c changes the tree, each through a fid f
\* that the client holds.
Creates(p) ==
  /\ reply'.req = "Tcreate"
  /\ DOMAIN fs' = DOMAIN fs \cup Prefixes(p)
  /\ \A q \in DOMAIN fs : fs'[q] = fs[q]

Writes(c, f, offset, bytes) ==
  /\ reply'.req = "Twrite"
  /\ MayWrite(c, f)
  /\ fs' = WriteAt(fs, PathOf(c, f), offset, bytes).tree

Restats(c, f, st) ==
  /\ reply'.req = "Twstat"
  /\ fs' = WstatFromStat(fs, PathOf(c, f), st).tree

Removes(c, f) ==
  /\ reply'.req = "Tremove"
  /\ fs' = RemovePath(fs, PathOf(c, f)).tree

ChangesTree(c, f) ==
  /\ reply'.client = c
  /\ fids[c][f] # NoFid
  /\ PathOf(c, f) \in Seq(Name)
  /\ \/ \E p \in Seq(Name) : Creates(p)
     \/ \E offset \in Nat, bytes \in Seq(Byte) : Writes(c, f, offset, bytes)
     \/ \E st \in StatOver(Name) : Restats(c, f, st)
     \/ Removes(c, f)

\* Nothing else changes the tree.
LEMMA TreeSteps ==
  ASSUME IInv, Next, fs' # fs
  PROVE  \E c \in Client, f \in Fid : ChangesTree(c, f)
<1>1. IsTree(Name, fs) /\ TypeOK
  BY IInvParts DEF IInv
<1>2. ASSUME NEW c \in Client, NEW f \in Fid, NEW req,
             \/ SendError(c, req)
             \/ UnknownFid(c, f, req)
             \/ LockPanics(c, req)
             \/ ThreadDies(c, req) /\ UNCHANGED <<fs, poisoned>>
      PROVE  FALSE
  BY <1>2 DEF SendError, UnknownFid, LockPanics
<1>3. ASSUME NEW c \in Client,
             \/ Accept(c) \/ Hangup(c)
             \/ \E req \in {"Tversion", "Tauth", "Tflush"} : HandleVersionAuthFlush(c, req)
             \/ \E f \in Fid :
                  \/ HandleClunk(c, f) \/ HandleAttach(c, f) \/ HandleStat(c, f)
                  \/ \E newfid \in Fid : HandleClone(c, f, newfid)
                  \/ \E newfid \in Fid, components \in Walks : HandleWalk(c, f, newfid, components)
                  \/ \E mode \in OpenMode : HandleOpen(c, f, mode)
                  \/ \E offset \in Offset, count \in Count : HandleRead(c, f, offset, count)
      PROVE  FALSE
  <2>1. CASE Accept(c) \/ Hangup(c)
    BY <2>1 DEF Accept, Hangup
  <2>2. CASE \E req \in {"Tversion", "Tauth", "Tflush"} : HandleVersionAuthFlush(c, req)
    BY <2>2 DEF HandleVersionAuthFlush
  <2>3. ASSUME NEW f \in Fid,
               \/ HandleClunk(c, f) \/ HandleAttach(c, f) \/ HandleStat(c, f)
               \/ \E newfid \in Fid : HandleClone(c, f, newfid)
        PROVE  FALSE
    BY <1>2, <2>3 DEF HandleClunk, HandleAttach, HandleStat, HandleClone
  <2>4. ASSUME NEW f \in Fid,
               \/ \E newfid \in Fid, components \in Walks : HandleWalk(c, f, newfid, components)
               \/ \E mode \in OpenMode : HandleOpen(c, f, mode)
               \/ \E offset \in Offset, count \in Count : HandleRead(c, f, offset, count)
        PROVE  FALSE
    BY <1>2, <2>4, RootIsThere DEF HandleWalk, HandleOpen, HandleRead
  <2> QED
    BY <1>3, <2>1, <2>2, <2>3, <2>4
<1>4. ASSUME NEW c \in Client, NEW f \in Fid, NEW component \in Component, NEW isDir \in BOOLEAN,
             HandleCreate(c, f, component, isDir)
      PROVE  ChangesTree(c, f)
  <2> DEFINE path == ResolveStep(PathOf(c, f), component)
             created == IF isDir THEN CreateDir(fs, path) ELSE CreateFile(fs, path)
             out == IF Exists(created, path) THEN "ok" ELSE "panic"
  <2>1. /\ Known(c, f) /\ component # NoComponent /\ path \notin DOMAIN fs
        /\ Settle(c, "Tcreate", created, out)
    BY <1>2, <1>4 DEF HandleCreate, Exists
  <2>2. PathOf(c, f) \in Seq(Name) /\ path \in Seq(Name)
    BY <2>1, KnownPath, ResolveStepIsPath, ServerAssumption DEF Path
  <2>3. /\ DOMAIN created = DOMAIN fs \cup Prefixes(path)
        /\ \A q \in DOMAIN fs : created[q] = fs[q]
    BY <1>1, <2>1, <2>2, CreateAdds
  <2> HIDE DEF path, created, out
  <2>4. Creates(path)
    BY <2>1, <2>3 DEF Creates, Settle, Answer
  <2> QED
    BY <2>1, <2>2, <2>4 DEF ChangesTree, Known, Settle, Answer
<1>5. ASSUME NEW c \in Client, NEW f \in Fid, NEW offset \in Offset, NEW bytes \in Buffer,
             HandleWrite(c, f, offset, bytes)
      PROVE  ChangesTree(c, f)
  <2> DEFINE result == WriteAt(fs, PathOf(c, f), offset, bytes)
  <2>1. Known(c, f) /\ MayWrite(c, f) /\ Settle(c, "Twrite", result.tree, OutcomeOf(result.out, "zero"))
    BY <1>2, <1>5 DEF HandleWrite
  <2>2. PathOf(c, f) \in Seq(Name) /\ offset \in Nat /\ bytes \in Seq(Byte)
    BY <2>1, KnownPath, ServerAssumption, TreeAssumption DEF Path
  <2>3. Writes(c, f, offset, bytes)
    BY <2>1 DEF Writes, Settle, Answer
  <2> QED
    BY <2>1, <2>2, <2>3 DEF ChangesTree, Known, Settle, Answer
<1>6. ASSUME NEW c \in Client, NEW f \in Fid, NEW st \in NewStat, HandleWstat(c, f, st)
      PROVE  ChangesTree(c, f)
  <2> DEFINE result == WstatFromStat(fs, PathOf(c, f), st)
  <2>1. Known(c, f) /\ Settle(c, "Twstat", result.tree, OutcomeOf(result.out, "error"))
    BY <1>2, <1>6 DEF HandleWstat
  <2>2. PathOf(c, f) \in Seq(Name) /\ st \in StatOver(Name)
    BY <2>1, KnownPath, ServerAssumption DEF Path, StatOver
  <2>3. Restats(c, f, st)
    BY <2>1 DEF Restats, Settle, Answer
  <2> QED
    BY <2>1, <2>2, <2>3 DEF ChangesTree, Known, Settle, Answer
<1>7. ASSUME NEW c \in Client, NEW f \in Fid, HandleRemove(c, f) PROVE ChangesTree(c, f)
  <2>1. /\ Known(c, f)
        /\ fs' = RemovePath(fs, PathOf(c, f)).tree
        /\ reply'.client = c /\ reply'.req = "Tremove"
    BY <1>2, <1>7 DEF HandleRemove, Answer
  <2>2. PathOf(c, f) \in Seq(Name)
    BY <2>1, KnownPath DEF Path
  <2> QED
    BY <2>1, <2>2 DEF ChangesTree, Removes, Known
<1> QED
  BY <1>3, <1>4, <1>5, <1>6, <1>7 DEF Next

\* The tree stays finite, so that its Inodes can be counted.
LEMMA TreeStaysFinite ==
  ASSUME IInv, [Next]_vars, IsFiniteSet(DOMAIN fs)
  PROVE  IsFiniteSet(DOMAIN fs')
<1> SUFFICES ASSUME Next, fs' # fs PROVE IsFiniteSet(DOMAIN fs')
  BY DEF vars
<1>1. PICK c \in Client, f \in Fid : ChangesTree(c, f)
  BY TreeSteps
<1> DEFINE path == PathOf(c, f)
<1>2. IsTree(Name, fs) /\ path \in Seq(Name)
  BY <1>1, IInvParts DEF ChangesTree
<1>3. ASSUME NEW p \in Seq(Name), Creates(p) PROVE IsFiniteSet(DOMAIN fs')
  BY <1>3, PrefixesFinite, FS_Union DEF Creates
<1>4. ASSUME NEW offset \in Nat, NEW bytes \in Seq(Byte), Writes(c, f, offset, bytes)
      PROVE  IsFiniteSet(DOMAIN fs')
  BY <1>2, <1>4, WriteAtStays DEF Writes
<1>5. ASSUME NEW st \in StatOver(Name), Restats(c, f, st) PROVE IsFiniteSet(DOMAIN fs')
  <2>1. ExistsBijection(DOMAIN fs, DOMAIN fs')
    BY <1>2, <1>5, WstatStays DEF Restats
  <2> QED
    BY <2>1, FS_Bijection
<1>6. ASSUME Removes(c, f) PROVE IsFiniteSet(DOMAIN fs')
  <2>1. DOMAIN fs' \subseteq DOMAIN fs
    BY <1>6 DEF Removes, RemovePath, Without
  <2> QED
    BY <2>1, FS_Subset
<1> QED
  BY <1>1, <1>3, <1>4, <1>5, <1>6 DEF ChangesTree

\* Every reachable tree is finite.
THEOREM FiniteTree == Spec => []IsFiniteSet(DOMAIN fs)
<1>1. Init => IsFiniteSet(DOMAIN fs)
  <2> SUFFICES ASSUME Init PROVE IsFiniteSet(DOMAIN fs)
    OBVIOUS
  <2> DEFINE g == [n \in SeedFile |-> <<n>>]
             S == {<<n>> : n \in SeedFile}
  <2>1. g \in Surjection(SeedFile, S)
    <3>1. g \in [SeedFile -> S] /\ \A s \in S : \E n \in SeedFile : g[n] = s
      OBVIOUS
    <3> HIDE DEF g, S
    <3> QED
      BY <3>1 DEF Surjection
  <2> HIDE DEF g
  <2>2. IsFiniteSet(S)
    BY <2>1, FS_Surjection, ServerAssumption
  <2>3. DOMAIN fs = S \cup {Root}
    BY DEF Init
  <2> HIDE DEF S
  <2> QED
    BY <2>2, <2>3, FS_AddElement
<1>2. IInv /\ [Next]_vars /\ IsFiniteSet(DOMAIN fs) => IsFiniteSet(DOMAIN fs')
  BY TreeStaysFinite
<1>3. (IsFiniteSet(DOMAIN fs))' <=> IsFiniteSet(DOMAIN fs')
  OBVIOUS
<1> QED
  BY <1>1, <1>2, <1>3, Invariant, PTL DEF Spec

\* A Twstat loses no Inode, neither under the new name nor below the old.
THEOREM RenamesLoseNothing == Spec => RenameKeepsEveryInode
<1> DEFINE Keeps ==
      reply'.req = "Twstat" /\ fs' # fs =>
        /\ Cardinality(DOMAIN fs') = Cardinality(DOMAIN fs)
        /\ \E f \in Fid :
             /\ fids[reply'.client][f] # NoFid
             /\ \A q \in DOMAIN fs \ Below(fs, PathOf(reply'.client, f)) :
                  q \in DOMAIN fs' /\ fs'[q] = fs[q]
<1>1. ASSUME IInv, [Next]_vars, IsFiniteSet(DOMAIN fs) PROVE [Keeps]_vars
  <2> SUFFICES ASSUME Next, reply'.req = "Twstat", fs' # fs PROVE Keeps
    BY <1>1 DEF vars
  <2>1. PICK c \in Client, f \in Fid : ChangesTree(c, f)
    BY <1>1, TreeSteps
  <2>2. PICK st \in StatOver(Name) : Restats(c, f, st)
    BY <2>1 DEF ChangesTree, Creates, Writes, Removes
  <2> DEFINE path == PathOf(c, f)
  <2>3. IsTree(Name, fs) /\ path \in Seq(Name) /\ reply'.client = c /\ fids[c][f] # NoFid
    BY <1>1, <2>1, IInvParts DEF ChangesTree
  <2>4. /\ \A q \in DOMAIN fs \ Below(fs, path) : q \in DOMAIN fs' /\ fs'[q] = fs[q]
        /\ ExistsBijection(DOMAIN fs, DOMAIN fs')
    BY <2>2, <2>3, WstatStays DEF Restats
  <2>5. Cardinality(DOMAIN fs') = Cardinality(DOMAIN fs)
    BY <1>1, <2>4, FS_Bijection
  <2> QED
    BY <2>3, <2>4, <2>5
<1> QED
  BY <1>1, Invariant, FiniteTree, PTL DEF Spec, RenameKeepsEveryInode

\* Paths come to exist through a Tcreate or a rename only, and stop existing through a
\* Tremove or a rename only, by a client that holds a fid there or above.
THEOREM PathsHaveReasons == Spec => PathsComeAndGo
<1> DEFINE Reasons ==
      /\ DOMAIN fs' \ DOMAIN fs # {} => reply'.req \in {"Tcreate", "Twstat"}
      /\ \A p \in DOMAIN fs \ DOMAIN fs' :
           /\ reply'.req \in {"Tremove", "Twstat"}
           /\ \E f \in Fid : /\ fids[reply'.client][f] # NoFid
                             /\ IsPrefix(PathOf(reply'.client, f), p)
<1>1. ASSUME IInv, [Next]_vars PROVE [Reasons]_vars
  <2> SUFFICES ASSUME Next, fs' # fs PROVE Reasons
    BY <1>1 DEF vars
  <2>1. PICK c \in Client, f \in Fid : ChangesTree(c, f)
    BY <1>1, TreeSteps
  <2> DEFINE path == PathOf(c, f)
  <2>2. IsTree(Name, fs) /\ path \in Seq(Name) /\ reply'.client = c /\ fids[c][f] # NoFid
    BY <1>1, <2>1, IInvParts DEF ChangesTree
  <2>3. ASSUME NEW p \in Seq(Name), Creates(p) PROVE Reasons
    BY <2>3 DEF Creates
  <2>4. ASSUME NEW offset \in Nat, NEW bytes \in Seq(Byte), Writes(c, f, offset, bytes) PROVE Reasons
    <3>1. DOMAIN fs' = DOMAIN fs
      BY <2>2, <2>4, WriteAtStays DEF Writes
    <3> QED
      BY <3>1
  <2>5. ASSUME NEW st \in StatOver(Name), Restats(c, f, st) PROVE Reasons
    <3>1. DOMAIN fs \ Below(fs, path) \subseteq DOMAIN fs'
      BY <2>2, <2>5, WstatStays DEF Restats
    <3>2. \A p \in DOMAIN fs \ DOMAIN fs' : IsPrefix(path, p)
      BY <3>1 DEF Below
    <3> QED
      BY <2>2, <2>5, <3>2 DEF Restats
  <2>6. ASSUME Removes(c, f) PROVE Reasons
    <3>1. /\ DOMAIN fs' \subseteq DOMAIN fs
          /\ \A p \in DOMAIN fs \ DOMAIN fs' : IsPrefix(path, p)
      BY <2>6 DEF Removes, RemovePath, Without, Below
    <3> QED
      BY <2>2, <2>6, <3>1 DEF Removes
  <2> QED
    BY <2>1, <2>3, <2>4, <2>5, <2>6 DEF ChangesTree
<1> QED
  BY <1>1, Invariant, PTL DEF Spec, PathsComeAndGo

\* The bytes of a file that stays where it is change by the length of a Twstat, or by a Twrite
\* through a fid that is open for writing at that path, which leaves them no fewer.
THEOREM BytesNeedWriteMode == Spec => WritesNeedWriteMode
<1> DEFINE Allowed(p) ==
      \/ reply'.req = "Twstat"
      \/ reply'.req = "Twrite" /\ Len(fs'[p].data) >= Len(fs[p].data) /\ \E f \in Fid :
           /\ fids[reply'.client][f] # NoFid
           /\ PathOf(reply'.client, f) = p
           /\ LET mode == fids[reply'.client][f].mode
              IN  mode # NoMode /\ (mode % 4 \in {1, 2} \/ (mode \div 16) % 2 = 1)
<1>1. ASSUME IInv, [Next]_vars
      PROVE  [\A p \in DOMAIN fs \cap DOMAIN fs' : fs'[p].data # fs[p].data => Allowed(p)]_vars
  <2> SUFFICES ASSUME Next, NEW p \in DOMAIN fs \cap DOMAIN fs', fs'[p].data # fs[p].data
               PROVE  Allowed(p)
    BY <1>1 DEF vars
  <2>1. PICK c \in Client, f \in Fid : ChangesTree(c, f)
    BY <1>1, TreeSteps
  <2>2. /\ IsTree(Name, fs) /\ PathOf(c, f) \in Seq(Name)
        /\ reply'.client = c /\ fids[c][f] # NoFid
    BY <1>1, <2>1, IInvParts DEF ChangesTree
  <2>3. ASSUME NEW q \in Seq(Name), Creates(q) PROVE Allowed(p)
    BY <2>3 DEF Creates
  <2>4. ASSUME NEW offset \in Nat, NEW bytes \in Seq(Byte), Writes(c, f, offset, bytes)
        PROVE  Allowed(p)
    <3>1. /\ \A q \in DOMAIN fs : q # PathOf(c, f) => fs'[q] = fs[q]
          /\ PathOf(c, f) \in DOMAIN fs =>
               Len(fs'[PathOf(c, f)].data) >= Len(fs[PathOf(c, f)].data)
      BY <2>2, <2>4, WriteAtStays DEF Writes
    <3>2. p = PathOf(c, f) /\ Len(fs'[p].data) >= Len(fs[p].data)
      BY <3>1
    <3>3. LET mode == fids[c][f].mode
          IN  mode # NoMode /\ (mode % 4 \in {1, 2} \/ (mode \div 16) % 2 = 1)
      BY <2>4 DEF Writes, MayWrite, AllowsWrite
    <3> QED
      BY <2>2, <2>4, <3>2, <3>3 DEF Writes
  <2>5. ASSUME NEW st \in StatOver(Name), Restats(c, f, st) PROVE Allowed(p)
    BY <2>5 DEF Restats
  <2>6. ASSUME Removes(c, f) PROVE Allowed(p)
    BY <2>6 DEF Removes, RemovePath, Without
  <2> QED
    BY <2>1, <2>3, <2>4, <2>5, <2>6 DEF ChangesTree
<1> QED
  BY <1>1, Invariant, PTL DEF Spec, WritesNeedWriteMode

\* A fid is open only by a Topen of its own at a path that exists, or as the clone of an open
\* one.
THEOREM OpeningIsGranted == Spec => OpenModesAreGranted
<1> DEFINE Granted ==
      \A c \in Client, f \in Fid :
        fids'[c][f] # fids[c][f] /\ fids'[c][f] # NoFid /\ fids'[c][f].mode # NoMode =>
          \/ /\ Replied("Topen", "ok")
             /\ fids'[c][f].path = fids[c][f].path
             /\ Exists(fs, fids[c][f].path)
          \/ Replied("Tclone", "ok") /\ \E g \in Fid : fids'[c][f] = fids[c][g]
<1>1. ASSUME IInv, Next PROVE Granted
  <2>1. TypeOK
    BY <1>1 DEF IInv
  <2>2. ASSUME NEW c \in Client, fids' = [fids EXCEPT ![c] = NoFids] PROVE Granted
    BY <2>1, <2>2, TableDropped
  <2>3. ASSUME fids' = fids PROVE Granted
    BY <2>3
  <2>4. ASSUME NEW c \in Client, NEW f \in Fid, NEW state, FidSetTo(c, f, state),
               state = NoFid \/ state.mode = NoMode
        PROVE  Granted
    BY <2>1, <2>4, FidSet
  <2>5. ASSUME NEW c \in Client, NEW f \in Fid, NEW req,
               \/ SendError(c, req)
               \/ UnknownFid(c, f, req)
               \/ LockPanics(c, req)
               \/ ThreadDies(c, req)
        PROVE  Granted
    <3> HIDE DEF Granted
    <3> QED
      BY <2>2, <2>3, <2>5 DEF SendError, UnknownFid, LockPanics, ThreadDies
  <2>6. ASSUME NEW c \in Client, NEW f \in Fid, NEW mode \in OpenMode, HandleOpen(c, f, mode)
        PROVE  Granted
    <3>1. CASE /\ Exists(fs, PathOf(c, f)) /\ Answer(c, "Topen", "ok")
               /\ FidSetTo(c, f, [path |-> PathOf(c, f), mode |-> mode])
      BY <2>1, <3>1, FidSet DEF Answer, Replied, PathOf
    <3> HIDE DEF Granted
    <3> QED
      BY <2>5, <2>6, <3>1 DEF HandleOpen, FidSetTo
  <2>7. ASSUME NEW c \in Client, NEW f \in Fid, NEW newfid \in Fid, HandleClone(c, f, newfid)
        PROVE  Granted
    <3>1. CASE Answer(c, "Tclone", "ok") /\ FidSetTo(c, newfid, fids[c][f])
      BY <2>1, <3>1, FidSet DEF Answer, Replied
    <3> HIDE DEF Granted
    <3> QED
      BY <2>5, <2>7, <3>1 DEF HandleClone, FidSetTo
  <2> HIDE DEF Granted
  <2>8. ASSUME NEW c \in Client,
               \/ Accept(c) \/ Hangup(c)
               \/ \E req \in {"Tversion", "Tauth", "Tflush"} : HandleVersionAuthFlush(c, req)
        PROVE Granted
    BY <2>2, <2>3, <2>8 DEF Accept, Hangup, HandleVersionAuthFlush
  <2>9. ASSUME NEW c \in Client, NEW f \in Fid, HandleClunk(c, f) \/ HandleRemove(c, f)
        PROVE  Granted
    <3>1. CASE fids' = [fids EXCEPT ![c][f] = NoFid]
      <4>1. \A d \in Client, g \in Fid : fids'[d][g] # fids[d][g] => fids'[d][g] = NoFid
        BY <2>1, <3>1 DEF TypeOK
      <4> QED
        BY <4>1 DEF Granted
    <3> QED
      BY <2>5, <2>9, <3>1 DEF HandleClunk, HandleRemove
  <2>10. ASSUME NEW c \in Client, NEW f \in Fid, HandleAttach(c, f) PROVE Granted
    <3>1. CASE FidSetTo(c, f, [path |-> Root, mode |-> NoMode])
      BY <2>4, <3>1
    <3> QED
      BY <2>3, <2>5, <2>10, <3>1 DEF HandleAttach, FidSetTo
  <2>11. ASSUME NEW c \in Client, NEW f \in Fid, NEW newfid \in Fid, NEW components \in Walks,
                HandleWalk(c, f, newfid, components)
         PROVE  Granted
    <3>1. CASE FidSetTo(c, newfid, WalkedFid(c, f, components))
      BY <2>4, <3>1 DEF WalkedFid
    <3> QED
      BY <2>1, <2>5, <2>11, <3>1, RootIsThere, <1>1 DEF HandleWalk, FidSetTo
  <2>12. ASSUME NEW c \in Client, NEW f \in Fid,
               \/ HandleStat(c, f)
               \/ \E offset \in Offset, count \in Count : HandleRead(c, f, offset, count)
        PROVE  Granted
    BY <2>3, <2>5, <2>12 DEF HandleStat, HandleRead
  <2>13. ASSUME NEW c \in Client, NEW req, NEW tree, NEW out, Settle(c, req, tree, out) PROVE Granted
    BY <2>2, <2>3, <2>13 DEF Settle
  <2>14. ASSUME NEW c \in Client, NEW f \in Fid,
               \/ \E component \in Component, isDir \in BOOLEAN : HandleCreate(c, f, component, isDir)
               \/ \E offset \in Offset, bytes \in Buffer : HandleWrite(c, f, offset, bytes)
               \/ \E st \in NewStat : HandleWstat(c, f, st)
        PROVE  Granted
    BY <2>5, <2>13, <2>14 DEF HandleCreate, HandleWrite, HandleWstat
  <2> QED
    BY <1>1, <2>6, <2>7, <2>8, <2>9, <2>10, <2>11, <2>12, <2>14 DEF Next
<1>2. IInv /\ [Next]_vars => [Granted]_vars
  BY <1>1
<1> QED
  BY <1>2, Invariant, PTL DEF Spec, OpenModesAreGranted
==============================================================================
