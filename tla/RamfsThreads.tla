---------------------------- MODULE RamfsThreads -----------------------------
(***************************************************************************)
(* The threads of the RAMFS server, one step at a time.  RamfsServer lets  *)
(* a handler be one step; here a handler finds its fid, takes the mutex,   *)
(* works under it, drops the guard, updates its table and sends, and the   *)
(* other threads run in between.  Some handlers drop the guard before they *)
(* send and some, by the scope of the variable that holds it, after.       *)
(*                                                                         *)
(* Sending needs room in the socket, which only the client makes, by       *)
(* reading.  A client may stop reading while its connection stays open.    *)
(***************************************************************************)
EXTENDS RamTree

CONSTANTS
  Client, Fid, Name, Component, Walks, OpenMode, NewStat, Offset, Count, Buffer,
  SeedFile, SeedData, MaxDepth, NoFid,     \* as in RamfsServer
  Message,       \* the requests that clients send
  Free,          \* nobody holds the mutex
  SocketRoom     \* replies that fit into a socket nobody reads from

VARIABLES
  fs, poisoned,
  table,      \* fid_states of each thread
  pc,         \* where each thread is
  job,        \* the request each thread works on, or last worked on
  found,      \* what the thread takes along from under the mutex
  lock,       \* the thread that holds the guard, or Free
  unread,     \* replies in each socket that the client has not read yet
  reply       \* history: the last request that took effect, and its outcome

vars == <<fs, poisoned, table, pc, job, found, lock, unread, reply>>

(***************************************************************************)
(* The one-step server that these threads implement.  A handler takes      *)
(* effect in its last step under the mutex, or in its first step if it     *)
(* never takes it.  Between that step and the update of its table the      *)
(* thread knows what the table will be.                                    *)
(***************************************************************************)
Doomed(c) == pc[c] = "after" /\ found[c].out = "panic"

ServerFids ==
  [c \in Client |->
     IF Doomed(c) THEN [f \in Fid |-> NoFid]
     ELSE IF pc[c] = "after" THEN [table[c] EXCEPT ![found[c].fid] = found[c].state]
     ELSE table[c]]

ServerConn == [c \in Client |-> IF pc[c] = "down" \/ Doomed(c) THEN "down" ELSE "up"]

Server == INSTANCE RamfsServer WITH fids <- ServerFids, conn <- ServerConn

\* what the handlers read of each kind of request
Requests ==
       [type : {"Tversion", "Tauth", "Tflush", "Tattach", "Tclunk", "Tremove", "Tstat"}, fid : Fid]
  \cup [type : {"Tclone"}, fid : Fid, newfid : Fid]
  \cup [type : {"Twalk"}, fid : Fid, newfid : Fid, names : Walks]
  \cup [type : {"Topen"}, fid : Fid, mode : OpenMode]
  \cup [type : {"Tread"}, fid : Fid, offset : Offset, count : Count]
  \cup [type : {"Tcreate"}, fid : Fid, name : Component, dir : BOOLEAN]
  \cup [type : {"Twrite"}, fid : Fid, offset : Offset, bytes : Buffer]
  \cup [type : {"Twstat"}, fid : Fid, stat : NewStat]

ASSUME ThreadsAssumption ==
  /\ Free \notin Client
  /\ SocketRoom \in Nat \ {0}
  /\ Message \subseteq Requests
  /\ Server!ServerAssumption

Nothing == [out |-> "none", fid |-> CHOOSE f \in Fid : TRUE, state |-> NoFid]

Init ==
  /\ fs = [p \in {Root} \cup {<<n>> : n \in SeedFile} |->
             IF p = Root THEN Dir("/") ELSE WithData(File(Last(p)), SeedData)]
  /\ poisoned = FALSE
  /\ table = [c \in Client |-> Server!NoFids]
  /\ pc = [c \in Client |-> "down"]
  /\ job = [c \in Client |-> [type |-> "none"]]
  /\ found = [c \in Client |-> Nothing]
  /\ lock = Free
  /\ unread = [c \in Client |-> 0]
  /\ reply \in [client : Client, req : {"none"}, out : {"ok"}]

Goto(c, label) == pc' = [pc EXCEPT ![c] = label]

TakesEffect(c, out) == reply' = [client |-> c, req |-> job[c].type, out |-> out]

\* the thread ends: table, stream and a guard it may hold are dropped
ThreadEnds(c) ==
  /\ Goto(c, "down")
  /\ table' = [table EXCEPT ![c] = Server!NoFids]
  /\ unread' = [unread EXCEPT ![c] = 0]
  /\ found' = [found EXCEPT ![c] = Nothing]
  /\ job' = [job EXCEPT ![c] = [type |-> "none"]]
  /\ lock' = IF lock = c THEN Free ELSE lock

(***************************************************************************)
(* run_server and the loop of handle_client                                *)
(***************************************************************************)
Accept(c) ==
  /\ pc[c] = "down"
  /\ Goto(c, "recv")
  /\ reply' = [client |-> c, req |-> "none", out |-> "ok"]
  /\ UNCHANGED <<fs, poisoned, table, job, found, lock, unread>>

\* bound: no Tcreate makes a path longer than MaxDepth
WithinDepth(c, m) ==
  m.type = "Tcreate" /\ table[c][m.fid] # NoFid =>
    Len(ResolveStep(table[c][m.fid].path, m.name)) <= MaxDepth

Receive(c, m) ==
  /\ pc[c] = "recv"
  /\ WithinDepth(c, m)
  /\ job' = [job EXCEPT ![c] = m]
  /\ Goto(c, "begin")
  /\ UNCHANGED <<fs, poisoned, table, found, lock, unread, reply>>

\* end of file or a frame that does not parse
EndOfFile(c) ==
  /\ pc[c] = "recv"
  /\ ThreadEnds(c)
  /\ reply' = [client |-> c, req |-> "none", out |-> "ok"]
  /\ UNCHANGED <<fs, poisoned>>

(***************************************************************************)
(* Before the mutex                                                        *)
(***************************************************************************)
Unknown(c) == table[c][job[c].fid] = NoFid
StateOf(c) == table[c][job[c].fid]

\* the ways to be refused that need no look at the tree
NeedsFid == {"Tclone", "Tstat", "Topen", "Tread", "Tcreate", "Twrite", "Twstat", "Tremove"}

NotOpenFor(c, Allows(_)) ==
  ~Unknown(c) /\ (StateOf(c).mode = Server!NoMode \/ ~Allows(StateOf(c).mode))

Refused(c) ==
  \/ job[c].type \in NeedsFid /\ Unknown(c)
  \/ job[c].type = "Tcreate" /\ job[c].name = NoComponent
  \/ job[c].type = "Tread" /\ NotOpenFor(c, Server!AllowsRead)
  \/ job[c].type = "Twrite" /\ NotOpenFor(c, Server!AllowsWrite)

\* also a Twstat whose stat cannot be decoded
Refuse(c) ==
  /\ pc[c] = "begin" /\ (Refused(c) \/ job[c].type = "Twstat")
  /\ TakesEffect(c, "error")
  /\ Goto(c, "send")
  /\ UNCHANGED <<fs, poisoned, table, job, found, lock, unread>>

LockFree == {"Tversion", "Tauth", "Tflush", "Tclone", "Tclunk"}

\* (faulty: every handler takes the mutex first)
LocalUnderMutex(c) ==
  /\ pc[c] = "begin" /\ ~Refused(c)
  /\ job[c].type \in LockFree
  /\ lock = Free
  /\ TakesEffect(c, "ok")
  /\ Goto(c, "send")
  /\ UNCHANGED <<fs, poisoned, table, job, found, lock, unread>>

\* the handlers that know the table only
Local(c) ==
  /\ pc[c] = "begin" /\ ~Refused(c)
  /\ job[c].type \in LockFree
  /\ table' = CASE job[c].type = "Tclone" -> [table EXCEPT ![c][job[c].newfid] = StateOf(c)]
                [] job[c].type = "Tclunk" -> [table EXCEPT ![c][job[c].fid] = NoFid]
                [] OTHER                  -> table
  /\ TakesEffect(c, "ok")
  /\ Goto(c, "send")
  /\ UNCHANGED <<fs, poisoned, job, found, lock, unread>>

\* a walk from a fid that is not known takes the mutex twice
GoForLock(c) ==
  /\ pc[c] = "begin" /\ ~Refused(c)
  /\ job[c].type \notin LockFree
  /\ Goto(c, IF job[c].type = "Twalk" /\ Unknown(c) THEN "rootlock" ELSE "lock")
  /\ UNCHANGED <<fs, poisoned, table, job, found, lock, unread, reply>>

(***************************************************************************)
(* lock().unwrap()                                                         *)
(***************************************************************************)
\* (faulty: what an unsynchronised RamFs would do)
AcquireAnyway(c) ==
  /\ pc[c] \in {"rootlock", "lock"}
  /\ ~poisoned
  /\ lock' = c
  /\ Goto(c, IF pc[c] = "lock" THEN "inside" ELSE "rootstat")
  /\ UNCHANGED <<fs, poisoned, table, job, found, unread, reply>>

Acquire(c) ==
  /\ pc[c] \in {"rootlock", "lock"}
  /\ lock = Free /\ ~poisoned
  /\ lock' = c
  /\ Goto(c, IF pc[c] = "lock" THEN "inside" ELSE "rootstat")
  /\ UNCHANGED <<fs, poisoned, table, job, found, unread, reply>>

AcquirePoisoned(c) ==
  /\ pc[c] \in {"rootlock", "lock"}
  /\ lock = Free /\ poisoned
  /\ ThreadEnds(c)
  /\ TakesEffect(c, "panic")
  /\ UNCHANGED <<fs, poisoned>>

(***************************************************************************)
(* Under the mutex                                                         *)
(***************************************************************************)
Inside(c, type) == pc[c] = "inside" /\ job[c].type = type

\* the reply goes out while the guard is still in scope
AnswersHolding(c, out) ==
  /\ TakesEffect(c, out)
  /\ Goto(c, "send")
  /\ UNCHANGED <<table, job, found, lock, unread>>

\* the guard is dropped; the reply and the new state of a fid are taken along
CarriesOn(c, out, f, state) ==
  /\ TakesEffect(c, out)
  /\ found' = [found EXCEPT ![c] = [out |-> out, fid |-> f, state |-> state]]
  /\ lock' = Free
  /\ Goto(c, "after")
  /\ UNCHANGED <<table, job, unread>>

\* unwinding with the guard alive
Panics(c) ==
  /\ poisoned' = TRUE
  /\ TakesEffect(c, "panic")
  /\ ThreadEnds(c)

PathOf(c) == StateOf(c).path

\* (faulty: the guard is bound by a let and lives on)
RootStatHolding(c) ==
  /\ pc[c] = "rootstat"
  /\ Goto(c, "lock")
  /\ UNCHANGED <<fs, poisoned, table, job, found, lock, unread, reply>>

\* stat("/") for the walk from a fid that is not known, which expects it to be there; the
\* guard is a temporary that dies with the statement
RootStat(c) ==
  /\ pc[c] = "rootstat"
  /\ IF Exists(fs, Root)
     THEN /\ lock' = Free
          /\ Goto(c, "lock")
          /\ UNCHANGED <<poisoned, table, job, found, unread, reply>>
     ELSE Panics(c)
  /\ UNCHANGED fs

AttachInside(c) ==
  /\ Inside(c, "Tattach")
  /\ CarriesOn(c, "ok", job[c].fid, [path |-> Root, mode |-> Server!NoMode])
  /\ UNCHANGED <<fs, poisoned>>

WalkInside(c) ==
  LET base   == IF Unknown(c) THEN Root ELSE PathOf(c)
      target == Steps(base, job[c].names)[Len(job[c].names)]
  IN  /\ Inside(c, "Twalk")
      /\ IF WalkSucceeds(fs, base, job[c].names) /\ Exists(fs, target)
         THEN CarriesOn(c, "ok", job[c].newfid, [path |-> target, mode |-> Server!NoMode])
         ELSE AnswersHolding(c, "error")
      /\ UNCHANGED <<fs, poisoned>>

StatInside(c) ==
  /\ Inside(c, "Tstat")
  /\ AnswersHolding(c, IF Exists(fs, PathOf(c)) THEN "ok" ELSE "error")
  /\ UNCHANGED <<fs, poisoned>>

OpenInside(c) ==
  /\ Inside(c, "Topen")
  /\ IF Exists(fs, PathOf(c))
     THEN CarriesOn(c, "ok", job[c].fid, [path |-> PathOf(c), mode |-> job[c].mode])
     ELSE CarriesOn(c, "error", job[c].fid, StateOf(c))
  /\ UNCHANGED <<fs, poisoned>>

\* an error returns from within the block that owns the guard; the sum that may
\* panic comes after it
ReadInside(c) ==
  /\ Inside(c, "Tread")
  /\ IF Exists(fs, PathOf(c)) /\ (fs[PathOf(c)].dir \/ PathOf(c) # Root)
     THEN CarriesOn(c, IF ReadPanics(job[c].offset, job[c].count) THEN "panic" ELSE "ok",
                    job[c].fid, StateOf(c))
     ELSE AnswersHolding(c, "error")
  /\ UNCHANGED <<fs, poisoned>>

WriteInside(c) ==
  LET result == WriteAt(fs, PathOf(c), job[c].offset, job[c].bytes)
  IN  /\ Inside(c, "Twrite")
      /\ fs' = result.tree
      /\ IF result.out = "panic" THEN Panics(c)
         ELSE /\ CarriesOn(c, IF result.out = "some" THEN "ok" ELSE "zero",
                           job[c].fid, StateOf(c))
              /\ UNCHANGED poisoned

WstatInside(c) ==
  LET result == WstatFromStat(fs, PathOf(c), job[c].stat)
  IN  /\ Inside(c, "Twstat")
      /\ fs' = result.tree
      /\ IF result.out = "panic" THEN Panics(c)
         ELSE /\ AnswersHolding(c, IF result.out = "some" THEN "ok" ELSE "error")
              /\ UNCHANGED poisoned

RemoveInside(c) ==
  LET result == RemovePath(fs, PathOf(c))
  IN  /\ Inside(c, "Tremove")
      /\ fs' = result.tree
      /\ CarriesOn(c, IF result.out = "some" THEN "ok" ELSE "error", job[c].fid, NoFid)
      /\ UNCHANGED poisoned

NewPath(c) == ResolveStep(PathOf(c), job[c].name)

\* (faulty: the check has a guard of its own, and another is taken to create)
CreateCheckUnguarded(c) ==
  /\ Inside(c, "Tcreate")
  /\ IF Exists(fs, NewPath(c))
     THEN AnswersHolding(c, "error")
     ELSE Goto(c, "make") /\ lock' = Free /\ UNCHANGED <<table, job, found, unread, reply>>
  /\ UNCHANGED <<fs, poisoned>>

\* Tcreate looks first and creates in a second step, with one guard around both
CreateCheck(c) ==
  /\ Inside(c, "Tcreate")
  /\ IF Exists(fs, NewPath(c))
     THEN AnswersHolding(c, "error")
     ELSE Goto(c, "make") /\ UNCHANGED <<table, job, found, lock, unread, reply>>
  /\ UNCHANGED <<fs, poisoned>>

CreateMake(c) ==
  /\ pc[c] = "make"
  /\ fs' = IF job[c].dir THEN CreateDir(fs, NewPath(c)) ELSE CreateFile(fs, NewPath(c))
  /\ AnswersHolding(c, "ok")
  /\ UNCHANGED poisoned

(***************************************************************************)
(* After the mutex                                                         *)
(***************************************************************************)
UpdateTable(c) ==
  /\ pc[c] = "after" /\ ~Doomed(c)
  /\ table' = [table EXCEPT ![c][found[c].fid] = found[c].state]
  /\ found' = [found EXCEPT ![c] = Nothing]
  /\ Goto(c, "send")
  /\ UNCHANGED <<fs, poisoned, job, lock, unread, reply>>

ReadOverflows(c) ==
  /\ Doomed(c)
  /\ ThreadEnds(c)
  /\ UNCHANGED <<fs, poisoned, reply>>

\* (faulty: the guard outlives the handler)
SendKeepingGuard(c) ==
  /\ pc[c] = "send"
  /\ unread[c] < SocketRoom
  /\ unread' = [unread EXCEPT ![c] = @ + 1]
  /\ job' = [job EXCEPT ![c] = [type |-> "none"]]
  /\ Goto(c, "recv")
  /\ UNCHANGED <<fs, poisoned, table, found, lock, reply>>

\* write_all returns once the reply is in the socket; a guard still in scope is
\* dropped then
Send(c) ==
  /\ pc[c] = "send"
  /\ unread[c] < SocketRoom
  /\ unread' = [unread EXCEPT ![c] = @ + 1]
  /\ job' = [job EXCEPT ![c] = [type |-> "none"]]
  /\ lock' = IF lock = c THEN Free ELSE lock
  /\ Goto(c, "recv")
  /\ UNCHANGED <<fs, poisoned, table, found, reply>>

\* the client has closed: the error ends the thread, and no mutex is poisoned
SendFails(c) ==
  /\ pc[c] = "send"
  /\ ThreadEnds(c)
  /\ reply' = [client |-> c, req |-> "none", out |-> "ok"]
  /\ UNCHANGED <<fs, poisoned>>

ClientReads(c) ==
  /\ unread[c] > 0
  /\ unread' = [unread EXCEPT ![c] = @ - 1]
  /\ UNCHANGED <<fs, poisoned, table, pc, job, found, lock, reply>>

UnderMutex(c) ==
  \/ RootStat(c) \/ AttachInside(c) \/ WalkInside(c) \/ StatInside(c) \/ OpenInside(c)
  \/ ReadInside(c) \/ WriteInside(c) \/ WstatInside(c) \/ RemoveInside(c)
  \/ CreateCheck(c) \/ CreateMake(c)

\* what a thread does by itself once it has a request
ThreadStep(c) ==
  \/ Refuse(c) \/ Local(c) \/ GoForLock(c) \/ Acquire(c) \/ AcquirePoisoned(c)
  \/ UnderMutex(c) \/ UpdateTable(c) \/ ReadOverflows(c) \/ Send(c)

Next ==
  \E c \in Client :
    \/ Accept(c) \/ EndOfFile(c) \/ SendFails(c) \/ ClientReads(c) \/ ThreadStep(c)
    \/ \E m \in Message : Receive(c, m)

Spec == Init /\ [][Next]_vars

(***************************************************************************)
(* Fairness.  The operating system keeps running a thread that can run.    *)
(* Nobody need send, read, close or connect: the properties name the       *)
(* clients that they rely on to read.  std's mutex hands itself to no one  *)
(* in particular, so a thread is only sure to get it if it stays free.     *)
(***************************************************************************)
Fairness == \A c \in Client : WF_vars(ThreadStep(c))

LiveSpec == Spec /\ Fairness

------------------------------------------------------------------------------
(***************************************************************************)
(* Properties                                                              *)
(***************************************************************************)
\* At any time one thread at most is at work on the tree, and it is the one that
\* holds the guard; the guard is never held by a thread that waits for the mutex
\* (it would wait for itself: a walk takes it twice), nor by one that waits for
\* its client's next request.
OneThreadInside ==
  /\ \A c \in Client : pc[c] \in {"rootstat", "inside", "make"} => lock = c
  /\ lock # Free => pc[lock] \in {"rootstat", "inside", "make", "send"}

\* What the threads do together, step by step, is what the one-step server does:
\* no client can tell that the handlers of others ran in between, not even between
\* the look and the creation of a Tcreate, or while a table is being updated.
ImplementsServer == Server!Spec

\* The client reads its replies in the end
Reads(c) == WF_vars(ClientReads(c))

\* While every client reads its replies, the guard is always given back, also by
\* the handlers that send their reply with the guard in scope.
GuardComesBack == (\A c \in Client : Reads(c)) => (lock # Free ~> lock = Free)

\* While every client reads, a request is answered, or its connection ends,
\* unless other threads keep taking the mutex for ever: nobody waits for a guard
\* that does not come back, and no cycle of waits exists.
NobodyWaitsForNothing ==
  (\A c \in Client : Reads(c)) =>
    \A c \in Client :
      \/ pc[c] = "begin" ~> pc[c] \in {"recv", "down"}
      \/ \E d \in Client \ {c} : []<>(lock = d) /\ []<>(lock # d)

\* A client that stops reading can stop the others at the mutex, but never a
\* request of a client that reads and that works on the fid table only.
StallsSpareTheTable ==
  \A c \in Client :
    Reads(c) => ((pc[c] = "begin" /\ job[c].type \in LockFree) ~> pc[c] \in {"recv", "down"})
==============================================================================
