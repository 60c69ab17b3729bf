-------------------------- MODULE RamfsThreadsProofs -------------------------
(***************************************************************************)
(* Theorems about RamfsThreads, for any number of clients, any requests    *)
(* and any room in the sockets.                                            *)
(***************************************************************************)
EXTENDS RamfsThreads, RamTreeProofs

(***************************************************************************)
(* Mutual exclusion.  That the threads inside hold the guard is inductive  *)
(* only together with what the holder of the guard may be doing.           *)
(***************************************************************************)
Label == {"down", "recv", "begin", "rootlock", "rootstat", "lock", "inside", "make", "after", "send"}

GuardInv ==
  /\ pc \in [Client -> Label]
  /\ lock \in Client \cup {Free}
  /\ OneThreadInside

\* A thread outside the mutex goes to another place outside it.
LEMMA OutsideStep ==
  ASSUME GuardInv, NEW c \in Client, pc[c] \notin {"rootstat", "inside", "make", "send"},
         NEW label \in Label \ {"rootstat", "inside", "make"}, Goto(c, label),
         lock' = lock \/ lock' = (IF lock = c THEN Free ELSE lock)
  PROVE  GuardInv'
<1>1. lock # c
  BY ThreadsAssumption DEF GuardInv, OneThreadInside
<1> QED
  BY <1>1, ThreadsAssumption DEF GuardInv, OneThreadInside, Goto

\* A thread gives the guard back, or ends, which gives back a guard it may hold.
LEMMA ReleaseStep ==
  ASSUME GuardInv, NEW c \in Client,
         NEW label \in Label \ {"rootstat", "inside", "make"}, Goto(c, label),
         lock' = IF lock = c THEN Free ELSE lock
  PROVE  GuardInv'
BY ThreadsAssumption DEF GuardInv, OneThreadInside, Goto

\* A thread that holds the guard keeps it.
LEMMA HoldStep ==
  ASSUME GuardInv, NEW c \in Client, lock = c,
         NEW label \in {"rootstat", "inside", "make", "send"}, Goto(c, label), lock' = lock
  PROVE  GuardInv'
BY ThreadsAssumption DEF GuardInv, OneThreadInside, Goto, Label

\* A thread takes the guard.
LEMMA AcquireStep ==
  ASSUME GuardInv, NEW c \in Client, Acquire(c)
  PROVE  GuardInv'
<1>1. \A d \in Client : pc[d] \notin {"rootstat", "inside", "make"}
  BY ThreadsAssumption DEF GuardInv, OneThreadInside, Acquire
<1>2. PICK label \in {"rootstat", "inside"} : Goto(c, label) /\ lock' = c
  BY DEF Acquire
<1> QED
  BY <1>1, <1>2, ThreadsAssumption DEF GuardInv, OneThreadInside, Goto, Label

\* Each way of leaving a handler's last step under the mutex.
LEMMA InsideStep ==
  ASSUME GuardInv, NEW c \in Client, lock = c, NEW out, NEW f, NEW state,
         CarriesOn(c, out, f, state) \/ AnswersHolding(c, out) \/ Panics(c)
  PROVE  GuardInv'
<1>1. CASE CarriesOn(c, out, f, state)
  BY <1>1, ReleaseStep DEF CarriesOn, Label
<1>2. CASE AnswersHolding(c, out)
  BY <1>2, HoldStep DEF AnswersHolding
<1>3. CASE Panics(c)
  BY <1>3, ReleaseStep DEF Panics, ThreadEnds, Label
<1> QED
  BY <1>1, <1>2, <1>3

\* Every step keeps the invariant.
LEMMA NextKeepsGuardInv ==
  ASSUME GuardInv, Next
  PROVE  GuardInv'
<1>1. PICK c \in Client :
        \/ Accept(c) \/ EndOfFile(c) \/ SendFails(c) \/ ClientReads(c) \/ ThreadStep(c)
        \/ \E m \in Message : Receive(c, m)
  BY DEF Next
<1>2. CASE Accept(c) \/ EndOfFile(c) \/ \E m \in Message : Receive(c, m)
  BY <1>2, OutsideStep DEF Accept, EndOfFile, ThreadEnds, Receive, Label
<1>3. CASE SendFails(c)
  BY <1>3, ReleaseStep DEF SendFails, ThreadEnds, Label
<1>4. CASE ClientReads(c)
  BY <1>4 DEF ClientReads, GuardInv, OneThreadInside
<1>5. CASE Refuse(c) \/ Local(c) \/ GoForLock(c)
  BY <1>5, OutsideStep DEF Refuse, Local, GoForLock, Label
<1>6. CASE Acquire(c)
  BY <1>6, AcquireStep
<1>7. CASE AcquirePoisoned(c) \/ ReadOverflows(c)
  BY <1>7, OutsideStep DEF AcquirePoisoned, ReadOverflows, Doomed, ThreadEnds, Label
<1>8. CASE UpdateTable(c)
  BY <1>8, OutsideStep DEF UpdateTable, Label
<1>9. CASE Send(c)
  BY <1>9, ReleaseStep DEF Send, Label
<1>10. CASE UnderMutex(c)
  <2>1. lock = c
    BY <1>10 DEF UnderMutex, RootStat, AttachInside, WalkInside, StatInside, OpenInside, ReadInside,
         WriteInside, WstatInside, RemoveInside, CreateCheck, CreateMake, Inside, GuardInv,
         OneThreadInside
  <2>2. CASE RootStat(c)
    <3>1. lock' = Free /\ (Goto(c, "lock") \/ Panics(c))
      BY <2>1, <2>2 DEF RootStat, Panics, ThreadEnds
    <3> QED
      BY <2>1, <3>1, ReleaseStep, InsideStep DEF Label
  <2>3. CASE AttachInside(c) \/ StatInside(c) \/ WriteInside(c)
    BY <2>1, <2>3, InsideStep DEF AttachInside, StatInside, WriteInside
  <2>4. CASE WalkInside(c) \/ OpenInside(c) \/ ReadInside(c)
    BY <2>1, <2>4, InsideStep DEF WalkInside, OpenInside, ReadInside
  <2>5. CASE WstatInside(c) \/ RemoveInside(c) \/ CreateMake(c)
    BY <2>1, <2>5, InsideStep DEF WstatInside, RemoveInside, CreateMake
  <2>6. CASE CreateCheck(c)
    BY <2>1, <2>6, InsideStep, HoldStep DEF CreateCheck
  <2> QED
    BY <1>10, <2>2, <2>3, <2>4, <2>5, <2>6 DEF UnderMutex
<1> QED
  BY <1>1, <1>2, <1>3, <1>4, <1>5, <1>6, <1>7, <1>8, <1>9, <1>10 DEF ThreadStep

\* One thread at most works on the tree at any time, and it holds the guard; nobody
\* who waits for the mutex or for the next request holds it.
THEOREM MutualExclusion == Spec => []OneThreadInside
<1>1. Init => GuardInv
  BY DEF Init, GuardInv, OneThreadInside, Label
<1>2. GuardInv /\ [Next]_vars => GuardInv'
  <2>1. GuardInv /\ UNCHANGED vars => GuardInv'
    BY DEF GuardInv, OneThreadInside, vars
  <2> QED
    BY <2>1, NextKeepsGuardInv
<1>3. GuardInv => OneThreadInside
  BY DEF GuardInv
<1> QED
  BY <1>1, <1>2, <1>3, PTL DEF Spec

(***************************************************************************)
(* The threads implement the one-step server.  A handler takes effect in   *)
(* its last step under the mutex, by what it has seen there and before.    *)
(* That this is what the one-step server would see needs to be known of    *)
(* every thread on its way there: what it works on, that it was not        *)
(* refused, that its table has not changed, and, for a Tcreate between its *)
(* look and its creation, that what it did not see is still not there.     *)
(***************************************************************************)
\* The places of a thread that has a request and has not taken effect.
Inner == {"rootstat", "inside", "make"}
Working == {"begin", "rootlock", "lock"} \cup Inner

FidStates == [path : Seq(Name), mode : {Server!NoMode} \cup OpenMode] \cup {NoFid}

Placed(c) ==
  /\ pc[c] = "down" => table[c] = Server!NoFids
  /\ pc[c] \in Working => job[c] \in Message /\ WithinDepth(c, job[c])
  /\ pc[c] \in Working \ {"begin"} => ~Refused(c) /\ job[c].type \notin LockFree
  /\ pc[c] \in Inner => ~poisoned
  /\ pc[c] = "make" => job[c].type = "Tcreate" /\ ~Exists(fs, NewPath(c))
  /\ pc[c] = "after" => found[c].fid \in Fid /\ found[c].state \in FidStates

Tables ==
  /\ IsTree(Name, fs)
  /\ poisoned \in BOOLEAN
  /\ table \in [Client -> [Fid -> FidStates]]
  /\ DOMAIN job = Client /\ DOMAIN found = Client

ThreadInv == GuardInv /\ Tables /\ \A c \in Client : Placed(c)

\* What the constants are.
LEMMA Constants ==
  /\ Free \notin Client
  /\ Message \subseteq Requests
  /\ NoFid \notin [path : Seq(Name), mode : {Server!NoMode} \cup OpenMode]
  /\ SeedFile \subseteq Name /\ SeedData \in Seq(Byte)
  /\ Component \subseteq Seq(Name) \cup {NoComponent, Dot, DotDot, Slash}
  /\ Offset \subseteq Nat /\ Count \subseteq Nat /\ Buffer \subseteq Seq(Byte)
  /\ NewStat \subseteq StatOver(Name)
<1>1. Word \in Nat \ {0}
  BY TreeAssumption
<1>2. /\ Free \notin Client
      /\ Message \subseteq Requests
      /\ NoFid \notin [path : Seq(Name), mode : {Server!NoMode} \cup OpenMode]
      /\ SeedFile \subseteq Name /\ SeedData \in Seq(Byte)
      /\ Component \subseteq Seq(Name) \cup {NoComponent, Dot, DotDot, Slash}
  BY ThreadsAssumption DEF Server!ServerAssumption, Server!FidState, Server!Path, Server!WireComponent,
                           Server!NoComponent, Server!Dot, Server!DotDot, Server!Slash,
                           NoComponent, Dot, DotDot, Slash
<1>3. Offset \subseteq Nat /\ Count \subseteq Nat /\ Buffer \subseteq Seq(Byte)
  BY <1>1, ThreadsAssumption DEF Server!ServerAssumption
<1>4. NewStat \subseteq StatOver(Name)
  BY ThreadsAssumption DEF Server!ServerAssumption, StatOver, Server!Keep, Server!KeepName, Keep, KeepName
<1> QED
  BY <1>2, <1>3, <1>4

\* What a request holds.
LEMMA RequestFields ==
  ASSUME NEW m \in Message
  PROVE  /\ m.type \in Server!Request /\ m.fid \in Fid
         /\ m.type = "Tclone" => m.newfid \in Fid
         /\ m.type = "Twalk" => m.newfid \in Fid /\ m.names \in Walks
         /\ m.type = "Topen" => m.mode \in OpenMode
         /\ m.type = "Tread" => m.offset \in Offset /\ m.count \in Count
         /\ m.type = "Tcreate" => m.name \in Component /\ m.dir \in BOOLEAN
         /\ m.type = "Twrite" => m.offset \in Offset /\ m.bytes \in Buffer
         /\ m.type = "Twstat" => m.stat \in NewStat
<1>1. m \in Requests
  BY Constants
<1> QED
  BY <1>1 DEF Requests, Server!Request

\* A fid that is not unknown has a path.
LEMMA StateHasPath ==
  ASSUME ThreadInv, NEW c \in Client, job[c] \in Message, ~Unknown(c)
  PROVE  /\ StateOf(c) \in FidStates /\ StateOf(c) # NoFid
         /\ StateOf(c).mode \in {Server!NoMode} \cup OpenMode
         /\ PathOf(c) \in Seq(Name)
<1>1. job[c].fid \in Fid
  BY RequestFields
<1>2. StateOf(c) \in FidStates /\ StateOf(c) # NoFid
  BY <1>1 DEF ThreadInv, Tables, StateOf, Unknown
<1> QED
  BY <1>2 DEF FidStates, PathOf

\* A thread that works on a request has it, and was not refused once it is past its beginning.
LEMMA WorkingJob ==
  ASSUME ThreadInv, NEW c \in Client, pc[c] \in Working
  PROVE  /\ job[c] \in Message /\ job[c].fid \in Fid /\ WithinDepth(c, job[c])
         /\ pc[c] # "begin" => ~Refused(c) /\ job[c].type \notin LockFree
         /\ pc[c] # "begin" /\ job[c].type \in NeedsFid => ~Unknown(c) /\ PathOf(c) \in Seq(Name)
<1>1. /\ job[c] \in Message /\ job[c].fid \in Fid /\ WithinDepth(c, job[c])
      /\ pc[c] # "begin" => ~Refused(c) /\ job[c].type \notin LockFree
  BY RequestFields DEF ThreadInv, Placed
<1>2. ~Refused(c) /\ job[c].type \in NeedsFid => ~Unknown(c)
  BY DEF Refused
<1> QED
  BY <1>1, <1>2, StateHasPath

(***************************************************************************)
(* One thread moves                                                        *)
(***************************************************************************)
Alone(c) ==
  /\ \A d \in Client \ {c} :
       pc'[d] = pc[d] /\ table'[d] = table[d] /\ job'[d] = job[d] /\ found'[d] = found[d]
  /\ (fs' = fs /\ poisoned' = poisoned) \/ lock = c

\* The others stay placed: while a thread changes the tree or poisons the mutex, no other is
\* between its look and its effect.
LEMMA OthersStayPlaced ==
  ASSUME ThreadInv, NEW c \in Client, Alone(c)
  PROVE  \A d \in Client \ {c} : Placed(d)'
<1> SUFFICES ASSUME NEW d \in Client, d # c PROVE Placed(d)'
  OBVIOUS
<1>1. /\ pc'[d] = pc[d] /\ table'[d] = table[d] /\ job'[d] = job[d] /\ found'[d] = found[d]
      /\ Placed(d)
  BY DEF Alone, ThreadInv
<1>2. (fs' = fs /\ poisoned' = poisoned) \/ pc[d] \notin Inner
  BY DEF Alone, ThreadInv, GuardInv, OneThreadInside, Inner
<1>3. /\ Unknown(d)' = Unknown(d) /\ StateOf(d)' = StateOf(d) /\ NewPath(d)' = NewPath(d)
      /\ WithinDepth(d, job[d])' = WithinDepth(d, job[d])
  BY <1>1 DEF Unknown, StateOf, NewPath, PathOf, WithinDepth
<1>4. Refused(d)' = Refused(d)
  BY <1>1, <1>3 DEF Refused, NotOpenFor
<1> QED
  BY <1>1, <1>2, <1>3, <1>4 DEF Placed, Inner, Exists

\* The path that a Tcreate is for.
LEMMA NewPathIsPath ==
  ASSUME ThreadInv, NEW c \in Client, pc[c] \in Working \ {"begin"}, job[c].type = "Tcreate"
  PROVE  NewPath(c) \in Seq(Name) /\ job[c].name # NoComponent
<1>1. job[c] \in Message /\ ~Refused(c) /\ PathOf(c) \in Seq(Name)
  BY WorkingJob DEF NeedsFid
<1>2. job[c].name \in Component /\ job[c].name # NoComponent
  BY <1>1, RequestFields DEF Refused
<1> QED
  BY <1>1, <1>2, Constants, ResolveStepIsSeq DEF NewPath

(***************************************************************************)
(* The invariant                                                           *)
(***************************************************************************)
\* A thread that ends has no place to keep.
LEMMA EndKeepsPlace ==
  ASSUME ThreadInv, NEW c \in Client, ThreadEnds(c), IsTree(Name, fs'), poisoned' \in BOOLEAN
  PROVE  Tables' /\ Placed(c)'
<1>1. table' = [table EXCEPT ![c] = Server!NoFids] /\ Server!NoFids \in [Fid -> FidStates]
  BY DEF ThreadEnds, Server!NoFids, FidStates
<1>2. Tables'
  BY <1>1 DEF ThreadInv, Tables, ThreadEnds
<1>3. pc'[c] = "down" /\ table'[c] = Server!NoFids
  BY <1>1 DEF ThreadInv, GuardInv, Tables, ThreadEnds, Goto
<1> QED
  BY <1>2, <1>3 DEF Placed, Working, Inner

\* A thread that leaves the mutex with a result, or to send, or by a panic.
LEMMA LeavesPlaced ==
  ASSUME ThreadInv, NEW c \in Client, NEW out, NEW f \in Fid, NEW state \in FidStates,
         \/ CarriesOn(c, out, f, state) /\ poisoned' \in BOOLEAN
         \/ AnswersHolding(c, out) /\ poisoned' \in BOOLEAN
         \/ Panics(c),
         IsTree(Name, fs')
  PROVE  Tables' /\ Placed(c)'
<1>1. CASE CarriesOn(c, out, f, state) /\ poisoned' \in BOOLEAN
  <2>1. pc'[c] = "after" /\ found'[c].fid = f /\ found'[c].state = state
    BY <1>1 DEF CarriesOn, Goto, ThreadInv, GuardInv, Tables
  <2>2. Tables'
    BY <1>1 DEF CarriesOn, ThreadInv, Tables
  <2> QED
    BY <2>1, <2>2 DEF Placed, Working, Inner
<1>2. CASE AnswersHolding(c, out) /\ poisoned' \in BOOLEAN
  <2>1. pc'[c] = "send"
    BY <1>2 DEF AnswersHolding, Goto, ThreadInv, GuardInv
  <2>2. Tables'
    BY <1>2 DEF AnswersHolding, ThreadInv, Tables
  <2> QED
    BY <2>1, <2>2 DEF Placed, Working, Inner
<1>3. CASE Panics(c)
  BY <1>3, EndKeepsPlace DEF Panics
<1> QED
  BY <1>1, <1>2, <1>3

\* The root is there, and its stat has no effect.
LEMMA RootStatPasses ==
  ASSUME ThreadInv, NEW c \in Client, RootStat(c)
  PROVE  /\ pc[c] = "rootstat" /\ lock' = Free /\ Goto(c, "lock")
         /\ UNCHANGED <<fs, poisoned, table, job, found, unread, reply>>
<1>1. Exists(fs, Root)
  BY DEF ThreadInv, Tables, IsTree, Exists
<1> QED
  BY <1>1 DEF RootStat

\* Every step under the mutex keeps the tables, and its thread placed.
LEMMA UnderMutexKeepsPlace ==
  ASSUME ThreadInv, NEW c \in Client, UnderMutex(c)
  PROVE  Tables' /\ Placed(c)'
<1>1. /\ IsTree(Name, fs) /\ poisoned \in BOOLEAN /\ pc \in [Client -> Label] /\ pc[c] \in Inner
      /\ Placed(c) /\ Tables
  BY DEF ThreadInv, Tables, GuardInv, UnderMutex, RootStat, AttachInside, WalkInside, StatInside,
         OpenInside, ReadInside, WriteInside, WstatInside, RemoveInside, CreateCheck, CreateMake,
         Inside, Inner
<1>2. pc[c] \in Working \ {"begin"}
  BY <1>1 DEF Working, Inner
<1>3. /\ job[c] \in Message /\ job[c].fid \in Fid /\ ~Refused(c) /\ job[c].type \notin LockFree
      /\ job[c].type \in NeedsFid => ~Unknown(c) /\ PathOf(c) \in Seq(Name)
      /\ WithinDepth(c, job[c])
  BY <1>2, WorkingJob
<1>4. NoFid \in FidStates /\ (job[c].type \in NeedsFid => StateOf(c) \in FidStates)
  BY <1>3, StateHasPath DEF FidStates
<1>5. CASE RootStat(c)
  <2>1. /\ pc'[c] = "lock" /\ Tables' /\ job' = job /\ table' = table
    BY <1>1, <1>5, RootStatPasses DEF Goto, Tables
  <2>2. WithinDepth(c, job[c])' /\ ~Refused(c)'
    BY <1>3, <2>1 DEF WithinDepth, Refused, NotOpenFor, Unknown, StateOf
  <2> QED
    BY <1>3, <2>1, <2>2 DEF Placed, Inner, Working
<1>6. CASE AttachInside(c)
  <2>1. [path |-> Root, mode |-> Server!NoMode] \in FidStates
    BY EmptySeq DEF FidStates, Root
  <2> QED
    BY <1>1, <1>3, <1>6, <2>1, LeavesPlaced DEF AttachInside
<1>7. CASE WalkInside(c)
  <2> DEFINE base   == IF Unknown(c) THEN Root ELSE PathOf(c)
             target == Steps(base, job[c].names)[Len(job[c].names)]
  <2>1. job[c].newfid \in Fid
    BY <1>3, <1>7, RequestFields DEF WalkInside, Inside
  <2>2. fs' = fs /\ poisoned' = poisoned
    BY <1>7 DEF WalkInside
  <2>3. \/ /\ Exists(fs, target)
           /\ CarriesOn(c, "ok", job[c].newfid, [path |-> target, mode |-> Server!NoMode])
        \/ AnswersHolding(c, "error")
    BY <1>7 DEF WalkInside
  <2> HIDE DEF target
  <2>4. Exists(fs, target) => [path |-> target, mode |-> Server!NoMode] \in FidStates
    BY <1>1 DEF FidStates, Exists, IsTree
  <2> QED
    BY <1>1, <1>4, <2>1, <2>2, <2>3, <2>4, LeavesPlaced
<1>8. CASE StatInside(c)
  BY <1>1, <1>3, <1>4, <1>8, LeavesPlaced DEF StatInside
<1>9. CASE OpenInside(c)
  <2>1. job[c].type \in NeedsFid /\ job[c].mode \in OpenMode
    BY <1>3, <1>9, RequestFields DEF OpenInside, Inside, NeedsFid
  <2>2. [path |-> PathOf(c), mode |-> job[c].mode] \in FidStates
    BY <1>3, <2>1 DEF FidStates
  <2> QED
    BY <1>1, <1>3, <1>4, <1>9, <2>1, <2>2, LeavesPlaced DEF OpenInside
<1>10. CASE ReadInside(c)
  <2>1. job[c].type \in NeedsFid
    BY <1>10 DEF ReadInside, Inside, NeedsFid
  <2>2. fs' = fs /\ poisoned' = poisoned
    BY <1>10 DEF ReadInside
  <2>3. (\E out : CarriesOn(c, out, job[c].fid, StateOf(c))) \/ AnswersHolding(c, "error")
    BY <1>10 DEF ReadInside
  <2> QED
    BY <1>1, <1>3, <1>4, <2>1, <2>2, <2>3, LeavesPlaced
<1>11. CASE WriteInside(c)
  <2> DEFINE result == WriteAt(fs, PathOf(c), job[c].offset, job[c].bytes)
  <2>1. job[c].type \in NeedsFid /\ job[c].offset \in Nat /\ job[c].bytes \in Seq(Byte)
    BY <1>3, <1>11, RequestFields, Constants DEF WriteInside, Inside, NeedsFid
  <2>2. IsTree(Name, result.tree)
    BY <1>1, <1>3, <2>1, WriteAtKeepsTree
  <2>3. /\ fs' = result.tree
        /\ Panics(c) \/ (poisoned' = poisoned /\ \E out : CarriesOn(c, out, job[c].fid, StateOf(c)))
    BY <1>11 DEF WriteInside
  <2> HIDE DEF result
  <2> QED
    BY <1>1, <1>3, <1>4, <2>1, <2>2, <2>3, LeavesPlaced
<1>12. CASE WstatInside(c)
  <2> DEFINE result == WstatFromStat(fs, PathOf(c), job[c].stat)
  <2>1. job[c].type \in NeedsFid /\ job[c].stat \in StatOver(Name)
    BY <1>3, <1>12, RequestFields, Constants DEF WstatInside, Inside, NeedsFid
  <2>2. IsTree(Name, result.tree)
    BY <1>1, <1>3, <2>1, WstatKeepsTree
  <2>3. /\ fs' = result.tree
        /\ Panics(c) \/ (poisoned' = poisoned /\ \E out : AnswersHolding(c, out))
    BY <1>12 DEF WstatInside
  <2> HIDE DEF result
  <2> QED
    BY <1>1, <1>3, <1>4, <2>1, <2>2, <2>3, LeavesPlaced
<1>13. CASE RemoveInside(c)
  <2>1. job[c].type \in NeedsFid
    BY <1>13 DEF RemoveInside, Inside, NeedsFid
  <2>2. IsTree(Name, RemovePath(fs, PathOf(c)).tree)
    BY <1>1, <1>3, <2>1, RemovePathKeepsTree
  <2>3. /\ fs' = RemovePath(fs, PathOf(c)).tree
        /\ poisoned' = poisoned /\ \E out : CarriesOn(c, out, job[c].fid, NoFid)
    BY <1>13 DEF RemoveInside
  <2> QED
    BY <1>1, <1>3, <1>4, <2>2, <2>3, LeavesPlaced
<1>14. CASE CreateCheck(c)
  <2>1. CASE AnswersHolding(c, "error")
    BY <1>1, <1>3, <1>4, <1>14, <2>1, LeavesPlaced DEF CreateCheck
  <2>2. CASE ~AnswersHolding(c, "error")
    <3>1. /\ pc'[c] = "make" /\ Tables' /\ job' = job /\ table' = table /\ fs' = fs
          /\ poisoned' = poisoned /\ ~Exists(fs, NewPath(c)) /\ job[c].type = "Tcreate"
      BY <1>1, <1>14, <2>2 DEF CreateCheck, Goto, Tables, Inside
    <3>2. WithinDepth(c, job[c])' /\ ~Refused(c)' /\ NewPath(c)' = NewPath(c)
      BY <1>3, <3>1 DEF WithinDepth, Refused, NotOpenFor, Unknown, StateOf, NewPath, PathOf
    <3>3. ~poisoned
      BY <1>1 DEF Placed
    <3> QED
      BY <1>3, <3>1, <3>2, <3>3 DEF Placed, Inner, Working
  <2> QED
    BY <2>1, <2>2
<1>15. CASE CreateMake(c)
  <2>1. NewPath(c) \in Seq(Name)
    BY <1>1, <1>2, <1>15, NewPathIsPath DEF CreateMake, Placed
  <2>2. IsTree(Name, CreateDir(fs, NewPath(c))) /\ IsTree(Name, CreateFile(fs, NewPath(c)))
    BY <1>1, <2>1, CreateDirKeepsTree, CreateFileKeepsTree
  <2>3. /\ fs' = CreateDir(fs, NewPath(c)) \/ fs' = CreateFile(fs, NewPath(c))
        /\ poisoned' = poisoned /\ AnswersHolding(c, "ok")
    BY <1>15 DEF CreateMake
  <2> QED
    BY <1>1, <1>3, <1>4, <2>2, <2>3, LeavesPlaced
<1> QED
  BY <1>5, <1>6, <1>7, <1>8, <1>9, <1>10, <1>11, <1>12, <1>13, <1>14, <1>15 DEF UnderMutex

\* Every step of a thread leaves the others where they are.
LEMMA StepsAreAlone ==
  ASSUME ThreadInv, NEW c \in Client,
         \/ Accept(c) \/ EndOfFile(c) \/ SendFails(c) \/ ClientReads(c) \/ ThreadStep(c)
         \/ \E m \in Message : Receive(c, m)
  PROVE  Alone(c)
<1> DEFINE Others == \A d \in Client \ {c} :
                       pc'[d] = pc[d] /\ table'[d] = table[d] /\ job'[d] = job[d] /\ found'[d] = found[d]
<1> USE DEF ThreadInv, Tables, GuardInv
<1>1. ASSUME ThreadEnds(c) PROVE Others
  BY <1>1 DEF ThreadEnds, Goto
<1>2. ASSUME NEW out, NEW f, NEW state,
             CarriesOn(c, out, f, state) \/ AnswersHolding(c, out) \/ Panics(c)
      PROVE  Others
  BY <1>1, <1>2 DEF CarriesOn, AnswersHolding, Panics, Goto
<1>3. CASE Accept(c) \/ EndOfFile(c) \/ SendFails(c) \/ ClientReads(c) \/ \E m \in Message : Receive(c, m)
  <2>1. fs' = fs /\ poisoned' = poisoned
    BY <1>3 DEF Accept, EndOfFile, SendFails, ClientReads, Receive
  <2>2. Others
    BY <1>1, <1>3 DEF Accept, EndOfFile, SendFails, ClientReads, Receive, Goto
  <2> QED
    BY <2>1, <2>2 DEF Alone
<1>4. CASE \/ Refuse(c) \/ GoForLock(c) \/ Acquire(c) \/ AcquirePoisoned(c) \/ UpdateTable(c)
           \/ ReadOverflows(c) \/ Send(c)
  <2>1. fs' = fs /\ poisoned' = poisoned
    BY <1>4 DEF Refuse, GoForLock, Acquire, AcquirePoisoned, UpdateTable, ReadOverflows, Send
  <2>2. Others
    BY <1>1, <1>4 DEF Refuse, GoForLock, Acquire, AcquirePoisoned, UpdateTable, ReadOverflows, Send, Goto
  <2> QED
    BY <2>1, <2>2 DEF Alone
<1>5. CASE Local(c)
  <2>1. fs' = fs /\ poisoned' = poisoned /\ job' = job /\ found' = found
    BY <1>5 DEF Local
  <2>2. \A d \in Client \ {c} : pc'[d] = pc[d] /\ table'[d] = table[d]
    <3>1. \/ table' = [table EXCEPT ![c][job[c].newfid] = StateOf(c)]
          \/ table' = [table EXCEPT ![c][job[c].fid] = NoFid]
          \/ table' = table
      BY <1>5 DEF Local
    <3>2. \A d \in Client \ {c} : table'[d] = table[d]
      BY <3>1
    <3> QED
      BY <1>5, <3>2 DEF Local, Goto
  <2> QED
    BY <2>1, <2>2 DEF Alone
<1>6. CASE UnderMutex(c)
  <2>1. lock = c
    <3>1. pc[c] \in {"rootstat", "inside", "make"}
      BY <1>6 DEF UnderMutex, RootStat, AttachInside, WalkInside, StatInside, OpenInside, ReadInside,
             WriteInside, WstatInside, RemoveInside, CreateCheck, CreateMake, Inside
    <3> QED
      BY <3>1 DEF OneThreadInside
  <2>2. Others
    <3>1. CASE RootStat(c)
      BY <3>1, RootStatPasses DEF Goto
    <3> HIDE DEF Others
    <3>2. CASE AttachInside(c) \/ WalkInside(c) \/ StatInside(c) \/ OpenInside(c) \/ ReadInside(c)
      BY <1>2, <3>2 DEF AttachInside, WalkInside, StatInside, OpenInside, ReadInside
    <3>3. CASE WriteInside(c) \/ WstatInside(c) \/ RemoveInside(c) \/ CreateMake(c)
      BY <1>2, <3>3 DEF WriteInside, WstatInside, RemoveInside, CreateMake
    <3>4. CASE CreateCheck(c)
      <4>1. CASE AnswersHolding(c, "error")
        BY <1>2, <4>1
      <4>2. CASE ~AnswersHolding(c, "error")
        BY <3>4, <4>2 DEF CreateCheck, Goto, Others
      <4> QED
        BY <4>1, <4>2
    <3> QED
      BY <1>6, <3>1, <3>2, <3>3, <3>4 DEF UnderMutex
  <2> QED
    BY <2>1, <2>2 DEF Alone
<1> QED
  BY <1>3, <1>4, <1>5, <1>6 DEF ThreadStep

\* The steps outside the mutex keep the tables, and their thread placed.
LEMMA OutsideKeepsPlace ==
  ASSUME ThreadInv, NEW c \in Client,
         \/ Accept(c) \/ EndOfFile(c) \/ SendFails(c) \/ ClientReads(c)
         \/ \E m \in Message : Receive(c, m)
         \/ Refuse(c) \/ Local(c) \/ GoForLock(c) \/ Acquire(c) \/ AcquirePoisoned(c)
         \/ UpdateTable(c) \/ ReadOverflows(c) \/ Send(c)
  PROVE  Tables' /\ Placed(c)'
<1>1. /\ IsTree(Name, fs) /\ poisoned \in BOOLEAN /\ pc \in [Client -> Label]
      /\ Placed(c) /\ Tables /\ table \in [Client -> [Fid -> FidStates]]
      /\ DOMAIN job = Client /\ DOMAIN found = Client
  BY DEF ThreadInv, Tables, GuardInv
<1>2. CASE EndOfFile(c) \/ SendFails(c) \/ AcquirePoisoned(c) \/ ReadOverflows(c)
  BY <1>1, <1>2, EndKeepsPlace DEF EndOfFile, SendFails, AcquirePoisoned, ReadOverflows
<1>3. CASE Accept(c) \/ Refuse(c) \/ Send(c)
  <2>1. pc'[c] \in {"recv", "send"} /\ Tables'
    BY <1>1, <1>3 DEF Accept, Refuse, Send, Goto, Tables
  <2> QED
    BY <2>1 DEF Placed, Working, Inner
<1>4. CASE ClientReads(c)
  <2>1. /\ pc' = pc /\ fs' = fs /\ table' = table /\ job' = job /\ poisoned' = poisoned /\ found' = found
    BY <1>4 DEF ClientReads
  <2>2. WithinDepth(c, job[c])' = WithinDepth(c, job[c]) /\ Refused(c)' = Refused(c) /\ NewPath(c)' = NewPath(c)
    BY <2>1 DEF WithinDepth, Refused, NotOpenFor, Unknown, StateOf, NewPath, PathOf
  <2> QED
    BY <1>1, <2>1, <2>2 DEF Placed, Tables, Exists
<1>5. ASSUME NEW m \in Message, Receive(c, m) PROVE Tables' /\ Placed(c)'
  <2>1. pc'[c] = "begin" /\ job'[c] = m /\ table' = table /\ Tables'
    BY <1>1, <1>5 DEF Receive, Goto, Tables
  <2>2. WithinDepth(c, job[c])'
    BY <1>5, <2>1 DEF Receive, WithinDepth
  <2> QED
    BY <2>1, <2>2 DEF Placed, Inner, Working
<1>6. CASE Local(c)
  <2>1. pc[c] \in Working /\ pc'[c] = "send" /\ ~Refused(c)
    BY <1>1, <1>6 DEF Local, Goto, Working
  <2>2. job[c] \in Message /\ job[c].fid \in Fid /\ (job[c].type = "Tclone" => job[c].newfid \in Fid)
    BY <2>1, WorkingJob, RequestFields
  <2>3. StateOf(c) \in FidStates /\ NoFid \in FidStates
    BY <1>1, <2>2 DEF StateOf, FidStates
  <2>4. \/ job[c].type = "Tclone" /\ table' = [table EXCEPT ![c][job[c].newfid] = StateOf(c)]
        \/ table' = [table EXCEPT ![c][job[c].fid] = NoFid]
        \/ table' = table
    BY <1>6 DEF Local
  <2>5. table' \in [Client -> [Fid -> FidStates]]
    BY <1>1, <2>2, <2>3, <2>4
  <2>6. Tables'
    BY <1>1, <1>6, <2>5 DEF Local, Tables
  <2> QED
    BY <2>1, <2>6 DEF Placed, Inner, Working
<1>7. CASE GoForLock(c) \/ Acquire(c)
  <2>1. /\ fs' = fs /\ poisoned' = poisoned /\ table' = table /\ job' = job /\ Tables'
        /\ pc[c] \in Working /\ pc'[c] \in Working \ {"begin", "make"}
        /\ pc'[c] \in Inner => ~poisoned
    BY <1>1, <1>7 DEF GoForLock, Acquire, Goto, Tables, Working, Inner
  <2>2. ~Refused(c) /\ job[c].type \notin LockFree /\ WithinDepth(c, job[c]) /\ job[c] \in Message
    BY <1>7, <2>1, WorkingJob DEF GoForLock, Acquire
  <2>3. WithinDepth(c, job[c])' /\ ~Refused(c)'
    BY <2>1, <2>2 DEF WithinDepth, Refused, NotOpenFor, Unknown, StateOf
  <2> QED
    BY <2>1, <2>2, <2>3 DEF Placed, Working, Inner
<1>8. CASE UpdateTable(c)
  <2>1. found[c].fid \in Fid /\ found[c].state \in FidStates /\ pc'[c] = "send"
    BY <1>1, <1>8 DEF UpdateTable, Placed, Goto
  <2>2. table' \in [Client -> [Fid -> FidStates]]
    BY <1>1, <1>8, <2>1 DEF UpdateTable
  <2>3. Tables'
    BY <1>1, <1>8, <2>2 DEF UpdateTable, Tables
  <2> QED
    BY <2>1, <2>3 DEF Placed, Inner, Working
<1> QED
  BY <1>2, <1>3, <1>4, <1>5, <1>6, <1>7, <1>8

\* Every step keeps the invariant.
LEMMA NextKeepsThreadInv ==
  ASSUME ThreadInv, Next
  PROVE  ThreadInv'
<1>1. PICK c \in Client :
        \/ Accept(c) \/ EndOfFile(c) \/ SendFails(c) \/ ClientReads(c) \/ ThreadStep(c)
        \/ \E m \in Message : Receive(c, m)
  BY DEF Next
<1>2. GuardInv'
  BY NextKeepsGuardInv DEF ThreadInv
<1>3. Tables' /\ Placed(c)'
  BY <1>1, UnderMutexKeepsPlace, OutsideKeepsPlace DEF ThreadStep
<1>4. \A d \in Client \ {c} : Placed(d)'
  BY <1>1, StepsAreAlone, OthersStayPlaced
<1> QED
  BY <1>2, <1>3, <1>4 DEF ThreadInv

(***************************************************************************)
(* What the one-step server sees                                           *)
(***************************************************************************)
\* The tree of the one-step server is this tree.
LEMMA SameTree ==
  /\ Server!Root = Root /\ Server!NoComponent = NoComponent
  /\ \A t, p : Server!Exists(t, p) <=> Exists(t, p)
  /\ \A p, component : Server!ResolveStep(p, component) = ResolveStep(p, component)
  /\ \A p, components : Server!Steps(p, components) = Steps(p, components)
  /\ \A t, p : Server!CreateDir(t, p) = CreateDir(t, p)
  /\ \A t, p : Server!CreateFile(t, p) = CreateFile(t, p)
  /\ \A t, p : Server!RemovePath(t, p) = RemovePath(t, p)
  /\ \A t, p, offset, bytes : Server!WriteAt(t, p, offset, bytes) = WriteAt(t, p, offset, bytes)
  /\ \A t, p, st : Server!WstatFromStat(t, p, st) = WstatFromStat(t, p, st)
  /\ \A offset, count : Server!ReadPanics(offset, count) <=> ReadPanics(offset, count)
<1>1. /\ Server!Root = Root /\ Server!NoComponent = NoComponent
      /\ \A t, p : Server!Exists(t, p) <=> Exists(t, p)
      /\ \A offset, count : Server!ReadPanics(offset, count) <=> ReadPanics(offset, count)
      /\ Server!MaxVec = MaxVec /\ Server!Keep = Keep /\ Server!KeepName = KeepName
  BY DEF Server!Root, Root, Server!NoComponent, NoComponent, Server!Exists, Exists,
         Server!ReadPanics, ReadPanics, Server!MaxVec, MaxVec, Server!Keep, Keep,
         Server!KeepName, KeepName
<1>2. \A p, component : Server!ResolveStep(p, component) = ResolveStep(p, component)
  BY <1>1 DEF Server!ResolveStep, ResolveStep, Server!Dot, Dot, Server!DotDot, DotDot, Server!Slash,
         Slash, Server!Front, Front
<1>3. \A p, components : Server!Steps(p, components) = Steps(p, components)
  BY <1>2 DEF Server!Steps, Steps
<1>4. \A t, p : Server!CreateDir(t, p) = CreateDir(t, p) /\ Server!Without(t, p) = Without(t, p)
                /\ Server!Below(t, p) = Below(t, p) /\ Server!File(Server!Last(p)) = File(Last(p))
  BY DEF Server!CreateDir, CreateDir, Server!Prefixes, Prefixes, Server!Dir, Dir, Server!Last, Last,
         Server!Without, Without, Server!Below, Below, Server!IsPrefix, IsPrefix, Server!File, File
<1>5. \A t, p : Server!CreateFile(t, p) = CreateFile(t, p)
  BY <1>1, <1>4 DEF Server!CreateFile, CreateFile
<1>6. \A t, p : Server!RemovePath(t, p) = RemovePath(t, p)
  BY <1>1, <1>4 DEF Server!RemovePath, RemovePath
<1>7. \A t, p, offset, bytes : Server!WriteAt(t, p, offset, bytes) = WriteAt(t, p, offset, bytes)
  <2> SUFFICES ASSUME NEW t, NEW p, NEW offset, NEW bytes
               PROVE  Server!WriteAt(t, p, offset, bytes) = WriteAt(t, p, offset, bytes)
    OBVIOUS
  <2> QED
    BY Zenon DEF Server!WriteAt, WriteAt, Server!Resized, Resized, Server!WithData, WithData,
           Server!Root, Root, Server!Exists, Exists, Server!MaxVec, MaxVec
<1>8. \A t, p, q : Server!Moved(t, p, q) = Moved(t, p, q)
  <2> SUFFICES ASSUME NEW t, NEW p, NEW q PROVE Server!Moved(t, p, q) = Moved(t, p, q)
    OBVIOUS
  <2> QED
    BY Zenon DEF Server!Moved, Moved, Server!Below, Below, Server!IsPrefix, IsPrefix
<1>9. \A t, p, st : Server!WstatFromStat(t, p, st) = WstatFromStat(t, p, st)
  <2> SUFFICES ASSUME NEW t, NEW p, NEW st
               PROVE  Server!WstatFromStat(t, p, st) = WstatFromStat(t, p, st)
    OBVIOUS
  <2> QED
    BY Zenon DEF Server!WstatFromStat, WstatFromStat, Server!Root, Root, Server!Exists, Exists,
           Server!MaxVec, MaxVec, Server!Keep, Keep, Server!KeepName, KeepName, Server!Moved, Moved,
           Server!Below, Below, Server!IsPrefix, IsPrefix, Server!WithStat, WithStat,
           Server!WithDir, WithDir, Server!Resized, Resized, Server!Front, Front
<1> QED
  BY <1>1, <1>2, <1>3, <1>4, <1>5, <1>6, <1>7, <1>9

\* What the one-step server knows of the others does not change.
LEMMA OthersSeem ==
  ASSUME NEW c \in Client, Alone(c)
  PROVE  /\ ServerFids' = [ServerFids EXCEPT ![c] = ServerFids'[c]]
         /\ ServerConn' = [ServerConn EXCEPT ![c] = ServerConn'[c]]
<1>1. \A d \in Client \ {c} : ServerFids'[d] = ServerFids[d]
  BY DEF Alone, ServerFids, Doomed
<1>2. \A d \in Client \ {c} : ServerConn'[d] = ServerConn[d]
  BY DEF Alone, ServerConn, Doomed
<1>3. /\ ServerFids = [d \in Client |-> ServerFids[d]] /\ ServerFids' = [d \in Client |-> ServerFids'[d]]
      /\ ServerConn = [d \in Client |-> ServerConn[d]] /\ ServerConn' = [d \in Client |-> ServerConn'[d]]
  BY DEF ServerFids, ServerConn
<1> QED
  BY <1>1, <1>2, <1>3

\* A thread between its steps under the mutex and its end seems as its table is.
LEMMA Seems ==
  ASSUME NEW c \in Client
  PROVE  /\ pc[c] \notin {"down", "after"} => ServerFids[c] = table[c] /\ ServerConn[c] = "up"
         /\ pc[c] = "down" => ServerFids[c] = table[c] /\ ServerConn[c] = "down"
         /\ Doomed(c) => ServerFids[c] = Server!NoFids /\ ServerConn[c] = "down"
         /\ pc[c] = "after" /\ ~Doomed(c) =>
              ServerFids[c] = [table[c] EXCEPT ![found[c].fid] = found[c].state] /\ ServerConn[c] = "up"
BY DEF ServerFids, ServerConn, Doomed, Server!NoFids

\* The same of the next state.
LEMMA SeemsNext ==
  ASSUME NEW c \in Client
  PROVE  /\ pc'[c] \notin {"down", "after"} => ServerFids'[c] = table'[c] /\ ServerConn'[c] = "up"
         /\ pc'[c] = "down" => ServerFids'[c] = table'[c] /\ ServerConn'[c] = "down"
         /\ Doomed(c)' => ServerFids'[c] = Server!NoFids /\ ServerConn'[c] = "down"
         /\ pc'[c] = "after" /\ ~Doomed(c)' =>
              ServerFids'[c] = [table'[c] EXCEPT ![found'[c].fid] = found'[c].state] /\ ServerConn'[c] = "up"
BY DEF ServerFids, ServerConn, Doomed, Server!NoFids

\* The table stays as it seems while the thread only moves.
LEMMA SeemsToStay ==
  ASSUME NEW c \in Client, Alone(c), table'[c] = table[c],
         pc[c] \notin {"down", "after"}, pc'[c] \notin {"down", "after"}
  PROVE  ServerFids' = ServerFids /\ ServerConn' = ServerConn
<1>1. ServerFids'[c] = ServerFids[c] /\ ServerConn'[c] = ServerConn[c]
  BY Seems, SeemsNext
<1>2. ServerFids = [d \in Client |-> ServerFids[d]] /\ ServerConn = [d \in Client |-> ServerConn[d]]
  BY DEF ServerFids, ServerConn
<1> QED
  BY <1>1, <1>2, OthersSeem

\* A thread that has its result seems to have put it into its table.
LEMMA SeemsToSet ==
  ASSUME ThreadInv, NEW c \in Client, Alone(c), pc[c] \notin {"down", "after"},
         NEW out, NEW f \in Fid, NEW state, CarriesOn(c, out, f, state), out # "panic"
  PROVE  /\ ServerFids' = [ServerFids EXCEPT ![c][f] = state]
         /\ state = table[c][f] => ServerFids' = ServerFids
         /\ ServerConn' = ServerConn
<1>1. /\ pc'[c] = "after" /\ found'[c] = [out |-> out, fid |-> f, state |-> state]
      /\ table' = table /\ table[c] \in [Fid -> FidStates]
  BY DEF CarriesOn, Goto, ThreadInv, GuardInv, Tables
<1>2. ~Doomed(c)'
  BY <1>1 DEF Doomed
<1>3. ServerFids'[c] = [ServerFids[c] EXCEPT ![f] = state] /\ ServerConn'[c] = ServerConn[c]
  <2>1. found'[c].fid = f /\ found'[c].state = state
    BY <1>1
  <2>2. ServerFids'[c] = [table'[c] EXCEPT ![found'[c].fid] = found'[c].state] /\ ServerConn'[c] = "up"
    BY <1>1, <1>2, SeemsNext
  <2>3. ServerFids[c] = table[c] /\ ServerConn[c] = "up"
    BY Seems
  <2> QED
    BY <1>1, <2>1, <2>2, <2>3
<1>4. state = table[c][f] => ServerFids'[c] = ServerFids[c]
  BY <1>1, <1>3, Seems
<1>5. ServerFids = [d \in Client |-> ServerFids[d]] /\ ServerConn = [d \in Client |-> ServerConn[d]]
  BY DEF ServerFids, ServerConn
<1> QED
  BY <1>3, <1>4, <1>5, OthersSeem

\* A thread that ends, or is going to, seems to have ended.
LEMMA SeemsToEnd ==
  ASSUME ThreadInv, NEW c \in Client, Alone(c), NEW f, NEW state,
         ThreadEnds(c) \/ CarriesOn(c, "panic", f, state)
  PROVE  /\ ServerFids' = [ServerFids EXCEPT ![c] = Server!NoFids]
         /\ ServerConn' = [ServerConn EXCEPT ![c] = "down"]
<1>1. CASE ThreadEnds(c)
  <2>1. pc'[c] = "down" /\ table'[c] = Server!NoFids
    BY <1>1 DEF ThreadEnds, Goto, ThreadInv, GuardInv, Tables
  <2> QED
    BY <2>1, SeemsNext, OthersSeem
<1>2. CASE CarriesOn(c, "panic", f, state)
  <2>1. Doomed(c)'
    BY <1>2 DEF CarriesOn, Goto, Doomed, ThreadInv, GuardInv, Tables
  <2> QED
    BY <2>1, SeemsNext, OthersSeem
<1> QED
  BY <1>1, <1>2

(***************************************************************************)
(* The simulation                                                          *)
(***************************************************************************)
\* The one-step server handles the request that a thread works on.
Served(c) ==
  LET m == job[c]
      f == job[c].fid
  IN  \/ m.type \in {"Tversion", "Tauth", "Tflush"} /\ Server!HandleVersionAuthFlush(c, m.type)
      \/ m.type = "Tclone" /\ Server!HandleClone(c, f, m.newfid)
      \/ m.type = "Tclunk" /\ Server!HandleClunk(c, f)
      \/ m.type = "Tattach" /\ Server!HandleAttach(c, f)
      \/ m.type = "Twalk" /\ Server!HandleWalk(c, f, m.newfid, m.names)
      \/ m.type = "Tstat" /\ Server!HandleStat(c, f)
      \/ m.type = "Topen" /\ Server!HandleOpen(c, f, m.mode)
      \/ m.type = "Tread" /\ Server!HandleRead(c, f, m.offset, m.count)
      \/ m.type = "Tcreate" /\ Server!HandleCreate(c, f, m.name, m.dir)
      \/ m.type = "Twrite" /\ Server!HandleWrite(c, f, m.offset, m.bytes)
      \/ m.type = "Twstat" /\ Server!HandleWstat(c, f, m.stat)
      \/ m.type = "Tremove" /\ Server!HandleRemove(c, f)

LEMMA ServedIsStep ==
  ASSUME NEW c \in Client, job[c] \in Message, Served(c)
  PROVE  Server!Next
<1> DEFINE m == job[c]
           f == job[c].fid
<1>1. f \in Fid
  BY RequestFields
<1>2. CASE m.type \in {"Tversion", "Tauth", "Tflush"} /\ Server!HandleVersionAuthFlush(c, m.type)
  BY <1>2 DEF Server!Next
<1>3. CASE m.type = "Tclone" /\ Server!HandleClone(c, f, m.newfid)
  BY <1>1, <1>3, RequestFields DEF Server!Next
<1>4. CASE m.type = "Twalk" /\ Server!HandleWalk(c, f, m.newfid, m.names)
  BY <1>1, <1>4, RequestFields DEF Server!Next
<1>5. CASE m.type = "Topen" /\ Server!HandleOpen(c, f, m.mode)
  BY <1>1, <1>5, RequestFields DEF Server!Next
<1>6. CASE m.type = "Tread" /\ Server!HandleRead(c, f, m.offset, m.count)
  BY <1>1, <1>6, RequestFields DEF Server!Next
<1>7. CASE m.type = "Tcreate" /\ Server!HandleCreate(c, f, m.name, m.dir)
  BY <1>1, <1>7, RequestFields DEF Server!Next
<1>8. CASE m.type = "Twrite" /\ Server!HandleWrite(c, f, m.offset, m.bytes)
  BY <1>1, <1>8, RequestFields DEF Server!Next
<1>9. CASE m.type = "Twstat" /\ Server!HandleWstat(c, f, m.stat)
  BY <1>1, <1>9, RequestFields DEF Server!Next
<1>10. CASE \/ Server!HandleClunk(c, f) \/ Server!HandleAttach(c, f) \/ Server!HandleStat(c, f)
            \/ Server!HandleRemove(c, f)
  BY <1>1, <1>10 DEF Server!Next
<1> QED
  BY <1>2, <1>3, <1>4, <1>5, <1>6, <1>7, <1>8, <1>9, <1>10 DEF Served

\* A thread that has not taken effect seems to be what it is.
LEMMA WorkingSeems ==
  ASSUME ThreadInv, NEW c \in Client, pc[c] \in Working
  PROVE  /\ job[c] \in Message /\ job[c].fid \in Fid
         /\ ServerFids[c] = table[c] /\ ServerFids[c][job[c].fid] = StateOf(c)
         /\ Server!Up(c) /\ Server!PathOf(c, job[c].fid) = PathOf(c)
         /\ ServerFids[c][job[c].fid] = NoFid <=> Unknown(c)
         /\ Server!Known(c, job[c].fid) <=> ~Unknown(c)
<1>1. job[c] \in Message /\ job[c].fid \in Fid
  BY WorkingJob
<1>2. pc[c] \notin {"down", "after"}
  BY DEF Working, Inner
<1>3. ServerFids[c] = table[c] /\ ServerConn[c] = "up"
  BY <1>2, Seems
<1> QED
  BY <1>1, <1>3 DEF StateOf, Unknown, PathOf, Server!PathOf, Server!Up, Server!Known

\* A thread that answers without an effect seems to have answered and nothing else.
LEMMA AnswerSeems ==
  ASSUME ThreadInv, NEW c \in Client, Alone(c), pc[c] \in Working, NEW out,
         TakesEffect(c, out), Goto(c, "send"), table' = table
  PROVE  /\ ServerFids' = ServerFids /\ ServerConn' = ServerConn
         /\ Server!Answer(c, job[c].type, out)
<1>1. pc[c] \notin {"down", "after"} /\ pc'[c] = "send"
  BY DEF Working, Inner, Goto, ThreadInv, GuardInv
<1> QED
  BY <1>1, SeemsToStay DEF TakesEffect, Server!Answer

\* To be refused.
LEMMA RefuseIsServed ==
  ASSUME ThreadInv, NEW c \in Client, Alone(c), Refuse(c)
  PROVE  Served(c)
<1>1. pc[c] \in Working /\ (Refused(c) \/ job[c].type = "Twstat")
  BY DEF Refuse, Working
<1>2. Server!SendError(c, job[c].type)
  BY <1>1, AnswerSeems DEF Refuse, Server!SendError
<1>3. CASE job[c].type \in NeedsFid /\ Unknown(c)
  <2>1. Server!UnknownFid(c, job[c].fid, job[c].type)
    BY <1>1, <1>2, <1>3, WorkingSeems DEF Server!UnknownFid
  <2> QED
    BY <1>3, <2>1 DEF NeedsFid, Served, Server!HandleClone, Server!HandleStat, Server!HandleOpen,
       Server!HandleRead, Server!HandleCreate, Server!HandleWrite, Server!HandleWstat,
       Server!HandleRemove
<1>4. CASE ~(job[c].type \in NeedsFid /\ Unknown(c))
  <2>1. /\ job[c].type \in {"Tcreate", "Tread", "Twrite", "Twstat"}
        /\ job[c].type = "Tcreate" => job[c].name = NoComponent
        /\ job[c].type = "Tread" => NotOpenFor(c, Server!AllowsRead)
        /\ job[c].type = "Twrite" => NotOpenFor(c, Server!AllowsWrite)
    BY <1>1, <1>4 DEF Refused
  <2>2. Server!Known(c, job[c].fid)
    BY <1>1, <1>4, <2>1, WorkingSeems DEF NeedsFid
  <2>3. CASE job[c].type = "Tcreate"
    BY <1>2, <2>1, <2>2, <2>3, SameTree DEF Served, Server!HandleCreate
  <2>4. CASE job[c].type = "Tread"
    <3>1. ~Server!MayRead(c, job[c].fid)
      BY <1>1, <2>1, <2>4, WorkingSeems DEF NotOpenFor, Server!MayRead
    <3> QED
      BY <1>2, <2>2, <2>4, <3>1 DEF Served, Server!HandleRead
  <2>5. CASE job[c].type = "Twrite"
    <3>1. ~Server!MayWrite(c, job[c].fid)
      BY <1>1, <2>1, <2>5, WorkingSeems DEF NotOpenFor, Server!MayWrite
    <3> QED
      BY <1>2, <2>2, <2>5, <3>1 DEF Served, Server!HandleWrite
  <2>6. CASE job[c].type = "Twstat"
    BY <1>2, <2>2, <2>6 DEF Served, Server!HandleWstat
  <2> QED
    BY <2>1, <2>3, <2>4, <2>5, <2>6
<1> QED
  BY <1>3, <1>4

\* The handlers that know the table only.
LEMMA LocalIsServed ==
  ASSUME ThreadInv, NEW c \in Client, Alone(c), Local(c)
  PROVE  Served(c)
<1> DEFINE f == job[c].fid
<1>1. pc[c] \in Working /\ ~Refused(c) /\ pc[c] \notin {"down", "after"}
  BY DEF Local, Working
<1>2. pc'[c] = "send" /\ fs' = fs /\ poisoned' = poisoned
  BY DEF Local, Goto, ThreadInv, GuardInv
<1>3. Server!Answer(c, job[c].type, "ok")
  BY DEF Local, TakesEffect, Server!Answer
<1>4. /\ ServerFids'[c] = table'[c] /\ ServerFids[c] = table[c]
      /\ ServerConn'[c] = ServerConn[c] /\ ServerConn' = ServerConn
  <2>1. /\ ServerFids'[c] = table'[c] /\ ServerFids[c] = table[c]
        /\ ServerConn'[c] = ServerConn[c]
    BY <1>1, <1>2, Seems, SeemsNext
  <2>2. ServerConn = [d \in Client |-> ServerConn[d]]
    BY DEF ServerConn
  <2> QED
    BY <2>1, <2>2, OthersSeem
<1>5. ServerFids = [d \in Client |-> ServerFids[d]] /\ table \in [Client -> [Fid -> FidStates]]
  BY DEF ServerFids, ThreadInv, Tables
<1>6. CASE job[c].type = "Tclone"
  <2>1. table' = [table EXCEPT ![c][job[c].newfid] = StateOf(c)]
    BY <1>6 DEF Local
  <2>2. ServerFids' = [ServerFids EXCEPT ![c][job[c].newfid] = ServerFids[c][f]]
    BY <1>4, <1>5, <2>1, OthersSeem DEF StateOf
  <2>3. Server!Known(c, f)
    BY <1>1, <1>6, WorkingSeems DEF Refused, NeedsFid
  <2> QED
    BY <1>2, <1>3, <1>4, <1>6, <2>2, <2>3 DEF Served, Server!HandleClone
<1>7. CASE job[c].type = "Tclunk"
  <2>1. table' = [table EXCEPT ![c][f] = NoFid]
    BY <1>7 DEF Local
  <2>2. ServerFids' = [ServerFids EXCEPT ![c][f] = NoFid]
    BY <1>4, <1>5, <2>1, OthersSeem
  <2> QED
    BY <1>1, <1>2, <1>3, <1>4, <1>7, <2>2, WorkingSeems DEF Served, Server!HandleClunk
<1>8. CASE job[c].type \in {"Tversion", "Tauth", "Tflush"}
  <2>1. table' = table
    BY <1>8 DEF Local
  <2>2. ServerFids' = ServerFids
    BY <1>4, <1>5, <2>1, OthersSeem
  <2> QED
    BY <1>1, <1>2, <1>3, <1>4, <1>8, <2>2, WorkingSeems DEF Served, Server!HandleVersionAuthFlush
<1> QED
  BY <1>6, <1>7, <1>8 DEF Local, LockFree

\* lock().unwrap() on a poisoned mutex.
LEMMA PoisonedIsServed ==
  ASSUME ThreadInv, NEW c \in Client, Alone(c), AcquirePoisoned(c)
  PROVE  Served(c)
<1> DEFINE f == job[c].fid
<1>1. pc[c] \in Working \ {"begin"}
  BY DEF AcquirePoisoned, Working
<1>2. /\ ~Refused(c) /\ job[c].type \notin LockFree
      /\ job[c].type \in Server!Request
      /\ job[c].type \in NeedsFid => ~Unknown(c)
  BY <1>1, WorkingJob, RequestFields
<1>3. Server!LockPanics(c, job[c].type)
  <2>1. ThreadEnds(c) /\ poisoned /\ UNCHANGED <<fs, poisoned>> /\ TakesEffect(c, "panic")
    BY DEF AcquirePoisoned
  <2>2. /\ ServerFids' = [ServerFids EXCEPT ![c] = Server!NoFids]
        /\ ServerConn' = [ServerConn EXCEPT ![c] = "down"]
    BY <2>1, SeemsToEnd
  <2> QED
    BY <2>1, <2>2 DEF Server!LockPanics, Server!ThreadDies, TakesEffect, Server!Answer
<1>4. Server!Up(c) /\ (job[c].type \in NeedsFid => Server!Known(c, f))
  BY <1>1, <1>2, WorkingSeems
<1>5. /\ job[c].type = "Tread" => Server!MayRead(c, f)
      /\ job[c].type = "Twrite" => Server!MayWrite(c, f)
      /\ job[c].type = "Tcreate" => job[c].name # Server!NoComponent
  BY <1>1, <1>2, WorkingSeems, SameTree DEF Refused, NeedsFid, NotOpenFor, Server!MayRead, Server!MayWrite
<1>6. job[c].type \in {"Tattach", "Twalk", "Tstat", "Topen", "Tread", "Tcreate", "Twrite", "Twstat", "Tremove"}
  BY <1>2 DEF LockFree, Server!Request
<1> QED
  BY <1>3, <1>4, <1>5, <1>6 DEF Served, NeedsFid, Server!HandleAttach, Server!HandleWalk, Server!HandleStat,
     Server!HandleOpen, Server!HandleRead, Server!HandleCreate, Server!HandleWrite, Server!HandleWstat,
     Server!HandleRemove

\* The outcome of a handler under the mutex: an answer, a result taken along, or a panic.
LEMMA CarrySeems ==
  ASSUME ThreadInv, NEW c \in Client, Alone(c), pc[c] \in Working,
         NEW out \in {"ok", "zero", "error"}, NEW f \in Fid, NEW state, CarriesOn(c, out, f, state)
  PROVE  /\ ServerFids' = [ServerFids EXCEPT ![c][f] = state]
         /\ state = table[c][f] => ServerFids' = ServerFids
         /\ ServerConn' = ServerConn
         /\ Server!Answer(c, job[c].type, out)
<1>1. pc[c] \notin {"down", "after"}
  BY DEF Working, Inner
<1>2. Server!Answer(c, job[c].type, out)
  BY DEF CarriesOn, TakesEffect, Server!Answer
<1>3. /\ ServerFids' = [ServerFids EXCEPT ![c][f] = state]
      /\ state = table[c][f] => ServerFids' = ServerFids
      /\ ServerConn' = ServerConn
  <2>1. out # "panic"
    OBVIOUS
  <2> QED
    BY <1>1, <2>1, SeemsToSet, Zenon
<1> QED
  BY <1>2, <1>3

LEMMA PanicSeems ==
  ASSUME ThreadInv, NEW c \in Client, Alone(c), NEW f, NEW state,
         Panics(c) \/ CarriesOn(c, "panic", f, state)
  PROVE  /\ ServerFids' = [ServerFids EXCEPT ![c] = Server!NoFids]
         /\ ServerConn' = [ServerConn EXCEPT ![c] = "down"]
         /\ Server!Answer(c, job[c].type, "panic")
<1>1. Server!Answer(c, job[c].type, "panic")
  BY DEF Panics, CarriesOn, TakesEffect, Server!Answer
<1> QED
  BY <1>1, SeemsToEnd DEF Panics

\* What is known of a thread under the mutex that has a request of this kind.
LEMMA InsideSeems ==
  ASSUME ThreadInv, NEW c \in Client, pc[c] \in {"inside", "make"}
  PROVE  /\ pc[c] \in Working /\ poisoned = FALSE
         /\ job[c] \in Message /\ job[c].fid \in Fid /\ Server!Up(c)
         /\ ServerFids[c][job[c].fid] = StateOf(c) /\ Server!PathOf(c, job[c].fid) = PathOf(c)
         /\ ServerFids[c][job[c].fid] = NoFid <=> Unknown(c)
         /\ job[c].type \in NeedsFid => ~Unknown(c) /\ Server!Known(c, job[c].fid)
<1>1. pc[c] \in Working \ {"begin"} /\ pc[c] \in Inner
  BY DEF Working, Inner
<1>2. poisoned = FALSE
  BY <1>1 DEF ThreadInv, Tables, Placed
<1> QED
  BY <1>1, <1>2, WorkingJob, WorkingSeems

\* The handlers that read the tree.
LEMMA ReadersAreServed ==
  ASSUME ThreadInv, NEW c \in Client, Alone(c),
         AttachInside(c) \/ WalkInside(c) \/ StatInside(c) \/ OpenInside(c) \/ ReadInside(c)
  PROVE  Served(c)
<1> DEFINE f == job[c].fid
<1>1. pc[c] \in {"inside", "make"} /\ fs' = fs /\ poisoned' = poisoned
  BY DEF AttachInside, WalkInside, StatInside, OpenInside, ReadInside, Inside
<1>2. /\ pc[c] \in Working /\ poisoned = FALSE /\ job[c] \in Message /\ f \in Fid /\ Server!Up(c)
      /\ ServerFids[c][f] = StateOf(c) /\ Server!PathOf(c, f) = PathOf(c)
      /\ ServerFids[c][f] = NoFid <=> Unknown(c)
      /\ job[c].type \in NeedsFid => ~Unknown(c) /\ Server!Known(c, f)
  BY <1>1, InsideSeems
<1>3. ASSUME AnswersHolding(c, "error") PROVE Server!SendError(c, job[c].type)
  BY <1>1, <1>2, <1>3, AnswerSeems DEF AnswersHolding, Server!SendError
<1>4. CASE AttachInside(c)
  <2> DEFINE state == [path |-> Root, mode |-> Server!NoMode]
  <2>1. CarriesOn(c, "ok", f, state) /\ job[c].type = "Tattach"
    BY <1>4 DEF AttachInside, Inside
  <2> HIDE DEF state
  <2>2. Exists(fs, Root)
    BY DEF ThreadInv, Tables, IsTree, Exists
  <2>3. /\ ServerFids' = [ServerFids EXCEPT ![c][f] = state]
        /\ ServerConn' = ServerConn /\ Server!Answer(c, job[c].type, "ok")
    BY <1>2, <2>1, CarrySeems
  <2>4. Server!HandleAttach(c, f)
    BY <1>1, <1>2, <2>1, <2>2, <2>3, SameTree DEF Server!HandleAttach, state
  <2> QED
    BY <2>1, <2>4 DEF Served
<1>5. CASE WalkInside(c)
  <2> DEFINE base   == IF Unknown(c) THEN Root ELSE PathOf(c)
             target == Steps(base, job[c].names)[Len(job[c].names)]
             finds  == WalkSucceeds(fs, base, job[c].names) /\ Exists(fs, target)
             state  == [path |-> target, mode |-> Server!NoMode]
  <2>1. job[c].type = "Twalk" /\ job[c].newfid \in Fid
    BY <1>2, <1>5, RequestFields DEF WalkInside, Inside
  <2>2. Server!WalkBase(c, f) = base
    BY <1>2, SameTree DEF Server!WalkBase
  <2>3. Server!WalkTarget(c, f, job[c].names) = target
    BY <2>2, SameTree DEF Server!WalkTarget
  <2>4. Server!WalkFinds(c, f, job[c].names) <=> finds
    <3>1. Server!WalkSucceeds(fs, base, job[c].names) <=> WalkSucceeds(fs, base, job[c].names)
      BY SameTree DEF Server!WalkSucceeds, WalkSucceeds
    <3> QED
      BY <2>2, <2>3, <3>1, SameTree DEF Server!WalkFinds
  <2>5. /\ finds => CarriesOn(c, "ok", job[c].newfid, state)
        /\ ~finds => AnswersHolding(c, "error")
    BY <1>5 DEF WalkInside
  <2>6. ~Server!NoRootFor(c, f)
    BY SameTree DEF ThreadInv, Tables, IsTree, Exists, Server!NoRootFor
  <2> HIDE DEF base, target, finds, state
  <2>7. CASE finds
    <3>1. Server!WalkedFid(c, f, job[c].names) = state
      BY <2>3 DEF Server!WalkedFid, state
    <3>2. /\ ServerFids' = [ServerFids EXCEPT ![c][job[c].newfid] = state]
          /\ ServerConn' = ServerConn /\ Server!Answer(c, job[c].type, "ok")
      BY <1>2, <2>1, <2>5, <2>7, CarrySeems
    <3>3. Server!HandleWalk(c, f, job[c].newfid, job[c].names)
      BY <1>1, <1>2, <2>1, <2>4, <2>7, <2>6, <3>1, <3>2 DEF Server!HandleWalk
    <3> QED
      BY <2>1, <3>3 DEF Served
  <2>8. CASE ~finds
    BY <1>1, <1>2, <1>3, <2>1, <2>4, <2>5, <2>8, <2>6 DEF Served, Server!HandleWalk
  <2> QED
    BY <2>7, <2>8
<1>6. CASE StatInside(c)
  <2>1. /\ job[c].type = "Tstat" /\ Server!Known(c, f)
        /\ AnswersHolding(c, IF Exists(fs, PathOf(c)) THEN "ok" ELSE "error")
    BY <1>2, <1>6 DEF StatInside, Inside, NeedsFid
  <2>2. CASE Exists(fs, PathOf(c))
    <3>1. AnswersHolding(c, "ok")
      BY <2>1, <2>2
    <3>2. ServerFids' = ServerFids /\ ServerConn' = ServerConn /\ Server!Answer(c, job[c].type, "ok")
      BY <1>2, <3>1, AnswerSeems DEF AnswersHolding
    <3> QED
      BY <1>1, <1>2, <2>1, <2>2, <3>2, SameTree DEF Served, Server!HandleStat
  <2>3. CASE ~Exists(fs, PathOf(c))
    BY <1>2, <1>3, <2>1, <2>3, SameTree DEF Served, Server!HandleStat
  <2> QED
    BY <2>2, <2>3
<1>7. CASE OpenInside(c)
  <2>1. job[c].type = "Topen" /\ Server!Known(c, f)
    BY <1>2, <1>7 DEF OpenInside, Inside, NeedsFid
  <2>2. CASE Exists(fs, PathOf(c))
    <3> DEFINE state == [path |-> PathOf(c), mode |-> job[c].mode]
    <3>1. CarriesOn(c, "ok", f, state)
      BY <1>7, <2>2 DEF OpenInside
    <3> HIDE DEF state
    <3>2. /\ ServerFids' = [ServerFids EXCEPT ![c][f] = state]
          /\ ServerConn' = ServerConn /\ Server!Answer(c, job[c].type, "ok")
      BY <1>2, <3>1, CarrySeems
    <3> QED
      BY <1>1, <1>2, <2>1, <2>2, <3>2, SameTree DEF Served, Server!HandleOpen, state
  <2>3. CASE ~Exists(fs, PathOf(c))
    <3>1. CarriesOn(c, "error", f, StateOf(c))
      BY <1>7, <2>3 DEF OpenInside
    <3>2. ServerFids' = ServerFids /\ ServerConn' = ServerConn /\ Server!Answer(c, job[c].type, "error")
      BY <1>2, <3>1, CarrySeems DEF StateOf
    <3>3. Server!SendError(c, "Topen")
      BY <1>1, <2>1, <3>2 DEF Server!SendError
    <3> QED
      BY <1>2, <2>1, <2>3, <3>3, SameTree DEF Served, Server!HandleOpen
  <2> QED
    BY <2>2, <2>3
<1>8. CASE ReadInside(c)
  <2>1. job[c].type = "Tread" /\ Server!Known(c, f) /\ ~Unknown(c)
    BY <1>2, <1>8 DEF ReadInside, Inside, NeedsFid
  <2>2. Server!MayRead(c, f)
    <3>1. ~Refused(c)
      BY <1>8, WorkingJob DEF ReadInside, Inside, Working, Inner
    <3> QED
      BY <1>2, <2>1, <3>1 DEF Refused, NotOpenFor, Server!MayRead
  <2>3. Server!Readable(PathOf(c)) <=> Exists(fs, PathOf(c)) /\ (fs[PathOf(c)].dir \/ PathOf(c) # Root)
    BY SameTree DEF Server!Readable
  <2>4. CASE ~Server!Readable(PathOf(c))
    <3>1. AnswersHolding(c, "error")
      BY <1>8, <2>3, <2>4 DEF ReadInside
    <3> QED
      BY <1>2, <1>3, <2>1, <2>2, <2>4, <3>1 DEF Served, Server!HandleRead
  <2>5. CASE Server!Readable(PathOf(c)) /\ ReadPanics(job[c].offset, job[c].count)
    <3>1. CarriesOn(c, "panic", f, StateOf(c))
      BY <1>8, <2>3, <2>5 DEF ReadInside
    <3>2. Server!ThreadDies(c, "Tread")
      BY <2>1, <3>1, PanicSeems DEF Server!ThreadDies
    <3> QED
      BY <1>1, <1>2, <2>1, <2>2, <2>5, <3>2, SameTree DEF Served, Server!HandleRead
  <2>6. CASE Server!Readable(PathOf(c)) /\ ~ReadPanics(job[c].offset, job[c].count)
    <3>1. CarriesOn(c, "ok", f, StateOf(c))
      BY <1>8, <2>3, <2>6 DEF ReadInside
    <3>2. ServerFids' = ServerFids /\ ServerConn' = ServerConn /\ Server!Answer(c, job[c].type, "ok")
      BY <1>2, <3>1, CarrySeems DEF StateOf
    <3> QED
      BY <1>1, <1>2, <2>1, <2>2, <2>6, <3>2, SameTree DEF Served, Server!HandleRead
  <2> QED
    BY <2>4, <2>5, <2>6
<1> QED
  BY <1>4, <1>5, <1>6, <1>7, <1>8

\* The handlers that change the tree.
LEMMA WritersAreServed ==
  ASSUME ThreadInv, NEW c \in Client, Alone(c),
         \/ WriteInside(c) \/ WstatInside(c) \/ RemoveInside(c) \/ CreateMake(c)
         \/ CreateCheck(c) /\ Exists(fs, NewPath(c))
  PROVE  Served(c)
<1> DEFINE f == job[c].fid
<1>1. pc[c] \in {"inside", "make"}
  BY DEF WriteInside, WstatInside, RemoveInside, CreateMake, CreateCheck, Inside
<1>2. /\ pc[c] \in Working /\ poisoned = FALSE /\ job[c] \in Message /\ f \in Fid /\ Server!Up(c)
      /\ ServerFids[c][f] = StateOf(c) /\ Server!PathOf(c, f) = PathOf(c)
      /\ ServerFids[c][f] = NoFid <=> Unknown(c)
      /\ job[c].type \in NeedsFid => ~Unknown(c) /\ Server!Known(c, f)
  BY <1>1, InsideSeems
<1>3. ~Refused(c)
  BY <1>1, WorkingJob DEF Working, Inner
<1>4. ASSUME NEW out \in {"ok", "error"}, AnswersHolding(c, out), poisoned' = poisoned
      PROVE  Server!Settle(c, job[c].type, fs', out)
  <2>1. ServerFids' = ServerFids /\ ServerConn' = ServerConn /\ Server!Answer(c, job[c].type, out)
    BY <1>2, <1>4, AnswerSeems DEF AnswersHolding
  <2> QED
    BY <1>2, <1>4, <2>1 DEF Server!Settle
<1>5. ASSUME NEW out \in {"ok", "zero"}, CarriesOn(c, out, f, StateOf(c)), poisoned' = poisoned
      PROVE  Server!Settle(c, job[c].type, fs', out)
  <2>1. ServerFids' = ServerFids /\ ServerConn' = ServerConn /\ Server!Answer(c, job[c].type, out)
    BY <1>2, <1>5, CarrySeems DEF StateOf
  <2> QED
    BY <1>2, <1>5, <2>1 DEF Server!Settle
<1>6. ASSUME Panics(c) PROVE Server!Settle(c, job[c].type, fs', "panic")
  <2>1. poisoned' = TRUE
    BY <1>6 DEF Panics
  <2> QED
    BY <1>6, <2>1, PanicSeems DEF Server!Settle
<1>7. CASE WriteInside(c)
  <2> DEFINE result == WriteAt(fs, PathOf(c), job[c].offset, job[c].bytes)
  <2>1. job[c].type = "Twrite" /\ Server!Known(c, f) /\ ~Unknown(c) /\ fs' = result.tree
    BY <1>2, <1>7 DEF WriteInside, Inside, NeedsFid
  <2>2. Server!MayWrite(c, f)
    BY <1>2, <1>3, <2>1 DEF Refused, NotOpenFor, Server!MayWrite
  <2>3. Server!WriteAt(fs, PathOf(c), job[c].offset, job[c].bytes) = result
    BY SameTree
  <2>4. result.out \in {"some", "none", "panic"}
    BY DEF WriteAt
  <2>5. /\ result.out = "panic" => Panics(c)
        /\ result.out = "some" => CarriesOn(c, "ok", f, StateOf(c)) /\ poisoned' = poisoned
        /\ result.out = "none" => CarriesOn(c, "zero", f, StateOf(c)) /\ poisoned' = poisoned
    BY <1>7 DEF WriteInside
  <2> HIDE DEF result
  <2>6. Server!Settle(c, "Twrite", result.tree, Server!OutcomeOf(result.out, "zero"))
    BY <1>5, <1>6, <2>1, <2>4, <2>5 DEF Server!OutcomeOf
  <2> QED
    BY <1>2, <2>1, <2>2, <2>3, <2>6 DEF Served, Server!HandleWrite
<1>8. CASE WstatInside(c)
  <2> DEFINE result == WstatFromStat(fs, PathOf(c), job[c].stat)
  <2>1. job[c].type = "Twstat" /\ Server!Known(c, f) /\ fs' = result.tree
    BY <1>2, <1>8 DEF WstatInside, Inside, NeedsFid
  <2>2. Server!WstatFromStat(fs, PathOf(c), job[c].stat) = result
    BY SameTree
  <2>3. result.out \in {"some", "none", "panic"}
    BY DEF WstatFromStat
  <2>4. /\ result.out = "panic" => Panics(c)
        /\ result.out = "some" => AnswersHolding(c, "ok") /\ poisoned' = poisoned
        /\ result.out = "none" => AnswersHolding(c, "error") /\ poisoned' = poisoned
    BY <1>8 DEF WstatInside
  <2> HIDE DEF result
  <2>5. Server!Settle(c, "Twstat", result.tree, Server!OutcomeOf(result.out, "error"))
    BY <1>4, <1>6, <2>1, <2>3, <2>4 DEF Server!OutcomeOf
  <2> QED
    BY <1>2, <2>1, <2>2, <2>5 DEF Served, Server!HandleWstat
<1>9. CASE RemoveInside(c)
  <2> DEFINE out == IF RemovePath(fs, PathOf(c)).out = "some" THEN "ok" ELSE "error"
  <2>1. /\ job[c].type = "Tremove" /\ Server!Known(c, f) /\ fs' = RemovePath(fs, PathOf(c)).tree
        /\ CarriesOn(c, out, f, NoFid) /\ poisoned' = poisoned /\ out \in {"ok", "zero", "error"}
    BY <1>2, <1>9 DEF RemoveInside, Inside, NeedsFid
  <2> HIDE DEF out
  <2>2. /\ ServerFids' = [ServerFids EXCEPT ![c][f] = NoFid]
        /\ ServerConn' = ServerConn /\ Server!Answer(c, job[c].type, out)
    BY <1>2, <2>1, CarrySeems
  <2>3. Server!RemovePath(fs, PathOf(c)) = RemovePath(fs, PathOf(c))
    BY SameTree
  <2> QED
    BY <1>2, <2>1, <2>2, <2>3 DEF Served, Server!HandleRemove, out
<1>10. CASE CreateCheck(c) /\ Exists(fs, NewPath(c))
  <2>1. /\ job[c].type = "Tcreate" /\ Server!Known(c, f) /\ AnswersHolding(c, "error")
        /\ fs' = fs /\ poisoned' = poisoned
    BY <1>2, <1>10 DEF CreateCheck, Inside, NeedsFid
  <2>2. Server!SendError(c, "Tcreate")
    BY <1>2, <2>1, AnswerSeems DEF AnswersHolding, Server!SendError
  <2>3. job[c].name # Server!NoComponent
    BY <1>3, <2>1, SameTree DEF Refused
  <2>4. Server!ResolveStep(Server!PathOf(c, f), job[c].name) = NewPath(c)
    BY <1>2, SameTree DEF NewPath
  <2>5. Server!Exists(fs, NewPath(c))
    BY <1>10, SameTree
  <2> QED
    BY <1>2, <2>1, <2>2, <2>3, <2>4, <2>5 DEF Served, Server!HandleCreate
<1>11. CASE CreateMake(c)
  <2> DEFINE created == IF job[c].dir THEN CreateDir(fs, NewPath(c)) ELSE CreateFile(fs, NewPath(c))
  <2>1. job[c].type = "Tcreate" /\ ~Exists(fs, NewPath(c))
    BY <1>11 DEF CreateMake, ThreadInv, Placed
  <2>2. /\ Server!Known(c, f) /\ fs' = created /\ AnswersHolding(c, "ok") /\ poisoned' = poisoned
        /\ ~Unknown(c)
    BY <1>2, <1>11, <2>1 DEF CreateMake, NeedsFid
  <2>3. job[c].name # Server!NoComponent
    BY <1>3, <2>1, SameTree DEF Refused
  <2>4. Server!ResolveStep(Server!PathOf(c, f), job[c].name) = NewPath(c)
    BY <1>2, SameTree DEF NewPath
  <2>5. ~Server!Exists(fs, NewPath(c))
    BY <2>1, SameTree
  <2>6. Len(NewPath(c)) <= MaxDepth
    <3>1. WithinDepth(c, job[c])
      BY <1>2, WorkingJob
    <3> QED
      BY <2>1, <2>2, <3>1 DEF WithinDepth, NewPath, PathOf, StateOf, Unknown
  <2>7. (IF job[c].dir THEN Server!CreateDir(fs, NewPath(c)) ELSE Server!CreateFile(fs, NewPath(c))) = created
    BY SameTree
  <2>8. Server!Exists(created, NewPath(c))
    <3>1. NewPath(c) \in Seq(Name)
      BY <1>1, <2>1, NewPathIsPath DEF Working, Inner
    <3>2. NewPath(c) \in DOMAIN created
      BY <3>1, CreateDirKeepsTree, CreateFileKeepsTree DEF ThreadInv, Tables
    <3> QED
      BY <3>2, SameTree DEF Exists
  <2>9. Server!Settle(c, "Tcreate", created, "ok")
    BY <1>4, <2>1, <2>2
  <2> HIDE DEF created
  <2> QED
    BY <1>2, <2>1, <2>2, <2>3, <2>4, <2>5, <2>6, <2>7, <2>8, <2>9 DEF Served, Server!HandleCreate
<1> QED
  BY <1>7, <1>8, <1>9, <1>10, <1>11

\* The steps that take no effect.
LEMMA QuietSteps ==
  ASSUME ThreadInv, NEW c \in Client, Alone(c),
         \/ ClientReads(c) \/ GoForLock(c) \/ Acquire(c) \/ RootStat(c) \/ UpdateTable(c)
         \/ ReadOverflows(c) \/ Send(c)
         \/ \E m \in Message : Receive(c, m)
         \/ CreateCheck(c) /\ ~Exists(fs, NewPath(c))
  PROVE  UNCHANGED Server!vars
<1>1. fs' = fs /\ poisoned' = poisoned /\ reply' = reply
  BY RootStatPasses DEF ClientReads, GoForLock, Acquire, UpdateTable, ReadOverflows, Send, Receive,
     CreateCheck
<1>2. /\ ServerFids = [d \in Client |-> ServerFids[d]]
      /\ ServerConn = [d \in Client |-> ServerConn[d]]
  BY DEF ServerFids, ServerConn
<1>3. CASE ClientReads(c)
  <2>1. pc' = pc /\ table' = table /\ found' = found
    BY <1>3 DEF ClientReads
  <2>2. ServerFids' = ServerFids /\ ServerConn' = ServerConn
    BY <2>1 DEF ServerFids, ServerConn, Doomed
  <2> QED
    BY <1>1, <2>2 DEF Server!vars
<1>4. CASE \/ GoForLock(c) \/ Acquire(c) \/ RootStat(c) \/ Send(c) \/ \E m \in Message : Receive(c, m)
           \/ CreateCheck(c) /\ ~Exists(fs, NewPath(c))
  <2>1. table' = table /\ pc[c] \notin {"down", "after"} /\ pc'[c] \notin {"down", "after"}
    BY <1>4, RootStatPasses
       DEF GoForLock, Acquire, Send, Receive, CreateCheck, Inside, Goto, ThreadInv, GuardInv
  <2> QED
    BY <1>1, <2>1, SeemsToStay DEF Server!vars
<1>5. CASE UpdateTable(c)
  <2>1. /\ pc[c] = "after" /\ ~Doomed(c) /\ pc'[c] = "send"
        /\ table'[c] = [table[c] EXCEPT ![found[c].fid] = found[c].state]
    BY <1>5 DEF UpdateTable, Goto, ThreadInv, GuardInv, Tables
  <2>2. ServerFids'[c] = ServerFids[c] /\ ServerConn'[c] = ServerConn[c]
    BY <2>1, Seems, SeemsNext
  <2> QED
    BY <1>1, <1>2, <2>2, OthersSeem DEF Server!vars
<1>6. CASE ReadOverflows(c)
  <2>1. Doomed(c) /\ pc'[c] = "down" /\ table'[c] = Server!NoFids
    BY <1>6 DEF ReadOverflows, ThreadEnds, Goto, ThreadInv, GuardInv, Tables
  <2>2. ServerFids'[c] = ServerFids[c] /\ ServerConn'[c] = ServerConn[c]
    BY <2>1, Seems, SeemsNext
  <2> QED
    BY <1>1, <1>2, <2>2, OthersSeem DEF Server!vars
<1> QED
  BY <1>3, <1>4, <1>5, <1>6

\* Connections that come and go.
LEMMA ConnectionSteps ==
  ASSUME ThreadInv, NEW c \in Client, Alone(c), Accept(c) \/ EndOfFile(c) \/ SendFails(c)
  PROVE  Server!Next
<1>1. CASE Accept(c)
  <2>1. /\ pc[c] = "down" /\ pc'[c] = "recv" /\ table'[c] = Server!NoFids
        /\ fs' = fs /\ poisoned' = poisoned /\ reply' = [client |-> c, req |-> "none", out |-> "ok"]
    BY <1>1 DEF Accept, Goto, ThreadInv, GuardInv, Tables, Placed
  <2>2. ServerConn[c] = "down" /\ ServerConn'[c] = "up" /\ ServerFids'[c] = Server!NoFids
    BY <2>1, Seems, SeemsNext
  <2>3. Server!Accept(c)
    BY <2>1, <2>2, OthersSeem DEF Server!Accept, Server!Answer
  <2> QED
    BY <2>3 DEF Server!Next
<1>2. CASE EndOfFile(c) \/ SendFails(c)
  <2>1. /\ pc[c] \in {"recv", "send"} /\ ThreadEnds(c)
        /\ fs' = fs /\ poisoned' = poisoned /\ reply' = [client |-> c, req |-> "none", out |-> "ok"]
    BY <1>2 DEF EndOfFile, SendFails
  <2>2. Server!Up(c)
    BY <2>1, Seems DEF Server!Up
  <2>3. Server!Hangup(c)
    BY <2>1, <2>2, SeemsToEnd DEF Server!Hangup, Server!Answer
  <2> QED
    BY <2>3 DEF Server!Next
<1> QED
  BY <1>1, <1>2

\* Every step of a thread is a step of the one-step server or none.
LEMMA StepIsServers ==
  ASSUME ThreadInv, Next
  PROVE  Server!Next \/ UNCHANGED Server!vars
<1>1. PICK c \in Client :
        \/ Accept(c) \/ EndOfFile(c) \/ SendFails(c) \/ ClientReads(c) \/ ThreadStep(c)
        \/ \E m \in Message : Receive(c, m)
  BY DEF Next
<1>2. Alone(c)
  BY <1>1, StepsAreAlone
<1>3. ASSUME Served(c), pc[c] \in Working PROVE Server!Next
  BY <1>3, ServedIsStep, WorkingJob
<1>4. CASE Refuse(c) \/ Local(c) \/ AcquirePoisoned(c)
  BY <1>2, <1>3, <1>4, RefuseIsServed, LocalIsServed, PoisonedIsServed
     DEF Refuse, Local, AcquirePoisoned, Working
<1>5. CASE UnderMutex(c) /\ ~RootStat(c) /\ ~(CreateCheck(c) /\ ~Exists(fs, NewPath(c)))
  <2>1. pc[c] \in Working
    BY <1>5 DEF UnderMutex, AttachInside, WalkInside, StatInside, OpenInside, ReadInside, WriteInside,
           WstatInside, RemoveInside, CreateCheck, CreateMake, Inside, Working, Inner
  <2>2. Served(c)
    BY <1>2, <1>5, ReadersAreServed, WritersAreServed DEF UnderMutex
  <2> QED
    BY <1>3, <2>1, <2>2
<1>6. CASE Accept(c) \/ EndOfFile(c) \/ SendFails(c)
  BY <1>2, <1>6, ConnectionSteps
<1>7. CASE \/ ClientReads(c) \/ GoForLock(c) \/ Acquire(c) \/ RootStat(c) \/ UpdateTable(c)
           \/ ReadOverflows(c) \/ Send(c) \/ \E m \in Message : Receive(c, m)
           \/ CreateCheck(c) /\ ~Exists(fs, NewPath(c))
  BY <1>2, <1>7, QuietSteps
<1> QED
  BY <1>1, <1>4, <1>5, <1>6, <1>7 DEF ThreadStep

\* The threads, step by step, with the other threads running in between, do what the
\* one-step server does: between its look and its creation a Tcreate is not overtaken, and
\* no update of a table that is still to come can be told from one that is done.
THEOREM ThreadsImplementServer == Spec => ImplementsServer
<1>1. Init => Server!Init /\ ThreadInv
  <2> SUFFICES ASSUME Init PROVE Server!Init /\ ThreadInv
    OBVIOUS
  <2>1. pc = [c \in Client |-> "down"] /\ table = [c \in Client |-> Server!NoFids]
    BY DEF Init
  <2>2. ServerFids = [c \in Client |-> Server!NoFids] /\ ServerConn = [c \in Client |-> "down"]
    BY <2>1 DEF ServerFids, ServerConn, Doomed
  <2>3. fs = [p \in {Server!Root} \cup {<<n>> : n \in SeedFile} |->
                IF p = Server!Root THEN Server!Dir("/")
                ELSE Server!WithData(Server!File(Server!Last(p)), SeedData)]
    BY Zenon DEF Init, Server!Root, Root, Server!Dir, Dir, Server!WithData, WithData, Server!File, File,
           Server!Last, Last
  <2>4. Server!Init
    BY <2>2, <2>3 DEF Init, Server!Init
  <2>5. IsTree(Name, fs)
    <3>1. SeedFile \in SUBSET Name /\ SeedData \in Seq(Byte)
      BY Constants
    <3> QED
      BY <3>1, SeedIsTree, Zenon DEF Init
  <2>6. GuardInv
    BY DEF Init, GuardInv, OneThreadInside, Label
  <2>7. Tables
    <3>1. Server!NoFids \in [Fid -> FidStates]
      BY DEF Server!NoFids, FidStates
    <3>2. table \in [Client -> [Fid -> FidStates]]
      BY <2>1, <3>1
    <3>3. poisoned \in BOOLEAN /\ DOMAIN job = Client /\ DOMAIN found = Client
      BY DEF Init
    <3> QED
      BY <2>5, <3>2, <3>3 DEF Tables
  <2>8. \A c \in Client : Placed(c)
    BY <2>1 DEF Placed, Working, Inner
  <2> QED
    BY <2>4, <2>6, <2>7, <2>8 DEF ThreadInv
<1>2. ThreadInv /\ [Next]_vars => ThreadInv' /\ [Server!Next]_(Server!vars)
  <2>1. ASSUME ThreadInv, UNCHANGED vars PROVE ThreadInv' /\ UNCHANGED Server!vars
    <3>1. UNCHANGED Server!vars
      BY <2>1 DEF vars, Server!vars, ServerFids, ServerConn, Doomed
    <3>2. GuardInv' /\ Tables'
      BY <2>1 DEF vars, ThreadInv, GuardInv, OneThreadInside, Tables
    <3>3. \A c \in Client : Placed(c)'
      BY <2>1 DEF vars, ThreadInv, Placed, WithinDepth, Refused, NotOpenFor, Unknown, StateOf, NewPath,
             PathOf, Exists
    <3> QED
      BY <3>1, <3>2, <3>3 DEF ThreadInv
  <2> QED
    BY <2>1, NextKeepsThreadInv, StepIsServers
<1> QED
  BY <1>1, <1>2, PTL DEF Spec, ImplementsServer, Server!Spec
==============================================================================
