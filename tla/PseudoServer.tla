----------------------------- MODULE PseudoServer -----------------------------
(***************************************************************************)
(* The 9P servers of ProcFS, SrvFS, DevFS and NetFS (server.rs of          *)
(* libs/planten_fs_proc, _srv, _dev and _net).  Those of ProcFS and SrvFS  *)
(* are the same program; those of DevFS and NetFS are another.             *)
(*                                                                         *)
(* run_server, which 10_ns uses, answers one connection until it ends and  *)
(* accepts the next one then; run_single answers one and returns;          *)
(* start_server gives each connection a thread of its own.  A panic ends   *)
(* the thread it happens in: in run_server and run_single that is the      *)
(* server.  With the mutex held it also poisons the mutex.                 *)
(*                                                                         *)
(* A handler holds the mutex while it looks at the tree, and otherwise     *)
(* touches the fids of its own connection only: it is one step, in which   *)
(* the host may change between any two looks.                              *)
(***************************************************************************)
EXTENDS PseudoTree, FiniteSets, SequencesExt

CONSTANTS
  Client, Fid,
  Name,             \* names that a Twalk may carry
  MaxNames,         \* bound: how many of them at once
  Hosts,            \* the states that the host of each file system goes through
  Programs,         \* which server, run in which way
  OverflowChecks,   \* whether the build checks arithmetic
  NoFid             \* not in the fid table

Program == [fs : {"proc", "srv"}, serving : {"run_server", "run_single", "start_server"}]
             \cup [fs : {"dev", "net"}, serving : {"run_single"}]

ASSUME ServerAssumption ==
  /\ Programs \subseteq Program
  /\ DOMAIN Hosts = FileSystem
  /\ \A h \in Hosts["dev"] : \A name \in DevEntries : <<name>> \in h     \* devices do not go away
  /\ OverflowChecks \in BOOLEAN
  /\ MaxNames \in Nat

VARIABLES
  program,    \* the server at work
  host,       \* the paths that the host provides
  server,     \* "up" while somebody accepts
  queue,      \* connections to be accepted
  conn,       \* where each connection is
  fids,       \* the fid table of each connection
  poisoned,   \* the state of the Mutex
  reply       \* the last request, for whom, about which path, and how it went

vars == <<program, host, server, queue, conn, fids, poisoned, reply>>

NoReply == [client |-> "none", req |-> "none", out |-> "ok", path |-> << >>]

NoFids == [f \in Fid |-> NoFid]
State(path, qid) == [path |-> path, qid |-> qid]

Init ==
  /\ program \in Programs
  /\ host \in Hosts[program.fs]
  /\ server = "up"
  /\ queue = << >>
  /\ conn = [c \in Client |-> "off"]
  /\ fids = [c \in Client |-> NoFids]
  /\ poisoned = FALSE
  /\ reply = NoReply

HostChanges ==
  /\ host' \in Hosts[program.fs] \ {host}
  /\ reply' = NoReply
  /\ UNCHANGED <<program, server, queue, conn, fids, poisoned>>

(***************************************************************************)
(* Connections                                                             *)
(***************************************************************************)
Connect(c) ==
  /\ server = "up" /\ conn[c] = "off"
  /\ queue' = Append(queue, c)
  /\ conn' = [conn EXCEPT ![c] = "queued"]
  /\ reply' = NoReply
  /\ UNCHANGED <<program, host, server, fids, poisoned>>

Busy == \E c \in Client : conn[c] = "open"

Accept ==
  /\ queue # << >>
  /\ program.serving # "start_server" => ~Busy
  /\ queue' = Tail(queue)
  /\ conn' = [conn EXCEPT ![Head(queue)] = "open"]
  /\ reply' = NoReply
  /\ UNCHANGED <<program, host, server, fids, poisoned>>

\* (faulty: one table for all connections that a thread serves)
DropKeepsFids(c, serverEnds) ==
  /\ conn' = [conn EXCEPT ![c] = "off"]
  /\ UNCHANGED <<fids, server, queue>>

\* (faulty: the server waits for the end of the connection in accept, and drops what it accepts)
DropLosesNext(c, serverEnds) ==
  /\ fids' = [fids EXCEPT ![c] = NoFids]
  /\ conn' = [conn EXCEPT ![c] = "off"]
  /\ queue' = IF queue = << >> THEN << >> ELSE Tail(queue)
  /\ UNCHANGED server

\* the stream of c and its fids are dropped; a server that ends takes its listener along,
\* and who waited is reset
Drop(c, serverEnds) ==
  /\ fids' = [fids EXCEPT ![c] = NoFids]
  /\ IF serverEnds
     THEN /\ server' = "down" /\ queue' = << >>
          /\ conn' = [d \in Client |-> "off"]
     ELSE /\ conn' = [conn EXCEPT ![c] = "off"]
          /\ UNCHANGED <<server, queue>>

\* end of file, a body that cannot be decoded, or a write that fails: handle_client returns
HangUp(c) ==
  /\ conn[c] = "open"
  /\ Drop(c, program.serving = "run_single")
  /\ reply' = NoReply
  /\ UNCHANGED <<program, host, poisoned>>

(***************************************************************************)
(* What the handlers have in common                                        *)
(***************************************************************************)
Up(c) == conn[c] = "open"
Known(c, f) == fids[c][f] # NoFid

\* f.path, or "" for a fid that is not in the table
PathOf(c, f) == IF Known(c, f) THEN fids[c][f].path ELSE << >>

Says(c, req, out, path) == reply' = [client |-> c, req |-> req, out |-> out, path |-> path]

Quiet == UNCHANGED <<program, server, queue, conn, poisoned>>

Answer(c, req, out, path) == Says(c, req, out, path) /\ UNCHANGED fids /\ Quiet

Panic(c, req, guarded) ==
  /\ Says(c, req, "panic", << >>)
  /\ poisoned' = (poisoned \/ guarded)
  /\ UNCHANGED program
  /\ Drop(c, program.serving # "start_server")

\* (faulty: into_inner of the PoisonError)
LockAnyway(c, req, ifHealthy) == ifHealthy

\* lock().unwrap()
Lock(c, req, ifHealthy) == IF poisoned THEN Panic(c, req, FALSE) ELSE ifHealthy

\* the m-th look, of a handler in which the host changes after the first cut
Look(cut, m) == IF m <= cut THEN host ELSE host'

HostMayChange == host' \in Hosts[program.fs]

(***************************************************************************)
(* Twalk, where both programs agree: names one after the other until one   *)
(* is not found; newfid is set only when all were found.                   *)
(***************************************************************************)
Found(start, names, cut) ==
  [k \in 1..Len(names) |-> Stat(program.fs, Look(cut, 2*k - 1), Look(cut, 2*k), start \o SubSeq(names, 1, k))]

\* a walk without names clones the fid, and looks at nothing
Walk(names) == IF names = << >> THEN "clone" ELSE "Twalk"

\* (faulty: newfid goes to where the walk stopped)
WalkedPartly(c, f, g, names, qid) ==
  \E cut \in 0..(2 * Len(names)) :
    LET found == Found(PathOf(c, f), names, cut)
        end == PathOf(c, f) \o names
        k == Cardinality({i \in 1..Len(names) : \A j \in 1..i : found[j] # "none"})
    IN  /\ fids' = [fids EXCEPT ![c][g] = State(PathOf(c, f) \o SubSeq(names, 1, k), qid)]
        /\ Says(c, Walk(names), IF k = Len(names) THEN "ok" ELSE "error", end)
        /\ Quiet

Walked(c, f, g, names, qid) ==
  \E cut \in 0..(2 * Len(names)) :
    LET found == Found(PathOf(c, f), names, cut)
        end == PathOf(c, f) \o names
    IN  IF \A k \in 1..Len(names) : found[k] # "none"
        THEN /\ fids' = [fids EXCEPT ![c][g] =
                           State(end, IF names = << >> THEN qid ELSE found[Len(names)])]
             /\ Says(c, Walk(names), "ok", end)
             /\ Quiet
        ELSE Answer(c, Walk(names), "error", end)

\* offset + count as u64: a build that checks panics, one that does not wraps, the end comes
\* before the start, and the slice is empty
ReadData(c, path, overflows) ==
  IF overflows /\ OverflowChecks THEN Panic(c, "Tread", TRUE) ELSE Answer(c, "Tread", "ok", path)

StatAnswer(c, path, cut) ==
  Answer(c, "Tstat", IF Stat(program.fs, Look(cut, 1), Look(cut, 2), path) # "none" THEN "ok" ELSE "error", path)

ReadAnswer(c, path, overflows, cut) ==
  IF Readable(program.fs, Look(cut, 1), Look(cut, 2), path) THEN ReadData(c, path, overflows)
  ELSE Answer(c, "Tread", "error", path)

(***************************************************************************)
(* Requests that both programs handle alike                                *)
(***************************************************************************)
Tversion(c) == Up(c) /\ UNCHANGED host /\ Answer(c, "Tversion", "ok", << >>)

Tclunk(c, f) ==
  /\ Up(c)
  /\ fids' = [fids EXCEPT ![c][f] = NoFid]
  /\ Says(c, "Tclunk", "ok", << >>)
  /\ Quiet /\ UNCHANGED host

\* Tauth, Tcreate, Twrite, Tremove, Twstat, Tflush and all else
Unhandled(c) == Up(c) /\ UNCHANGED host /\ Answer(c, "other", "error", << >>)

(***************************************************************************)
(* ProcFS and SrvFS                                                        *)
(***************************************************************************)
Pseudo(c) == program.fs \in {"proc", "srv"} /\ Up(c)

\* qtype 0x00
PseudoTattach(c, f) ==
  /\ Pseudo(c)
  /\ fids' = [fids EXCEPT ![c][f] = State(<< >>, "file")]
  /\ Says(c, "Tattach", "ok", << >>)
  /\ Quiet /\ UNCHANGED host

PseudoTwalk(c, f, g, names) ==
  /\ Pseudo(c) /\ HostMayChange
  /\ Lock(c, "Twalk", Walked(c, f, g, names, "file"))

\* (faulty: the mode is taken from the body after the mutex)
PseudoTopenLockFirst(c, f, short) ==
  /\ Pseudo(c) /\ HostMayChange
  /\ Lock(c, "Topen", IF short THEN Panic(c, "Topen", TRUE) ELSE
       \E cut \in 0..2 :
         Answer(c, "Topen",
           IF Known(c, f) /\ Stat(program.fs, Look(cut, 1), Look(cut, 2), PathOf(c, f)) # "none" THEN "ok" ELSE "error",
           PathOf(c, f)))

\* body[4] of a body that ends after the fid panics, before the mutex is taken
PseudoTopen(c, f, short) ==
  /\ Pseudo(c) /\ HostMayChange
  /\ IF short THEN Panic(c, "Topen", FALSE)
     ELSE Lock(c, "Topen",
       \E cut \in 0..2 :
         Answer(c, "Topen",
           IF Known(c, f) /\ Stat(program.fs, Look(cut, 1), Look(cut, 2), PathOf(c, f)) # "none" THEN "ok" ELSE "error",
           PathOf(c, f)))

PseudoTread(c, f, overflows) ==
  /\ Pseudo(c) /\ HostMayChange
  /\ Lock(c, "Tread",
       IF Known(c, f) THEN \E cut \in 0..2 : ReadAnswer(c, PathOf(c, f), overflows, cut)
       ELSE Answer(c, "Tread", "error", << >>))

PseudoTstat(c, f) ==
  /\ Pseudo(c) /\ HostMayChange
  /\ Lock(c, "Tstat",
       IF Known(c, f) THEN \E cut \in 0..2 : StatAnswer(c, PathOf(c, f), cut)
       ELSE Answer(c, "Tstat", "error", << >>))

(***************************************************************************)
(* DevFS and NetFS: the root is a directory, Topen looks at nothing, and   *)
(* the mutex is taken for a fid that is known only.                        *)
(***************************************************************************)
Plain(c) == program.fs \in {"dev", "net"} /\ Up(c)

PlainTattach(c, f) ==
  /\ Plain(c)
  /\ fids' = [fids EXCEPT ![c][f] = State(<< >>, "dir")]
  /\ Says(c, "Tattach", "ok", << >>)
  /\ Quiet /\ UNCHANGED host

PlainTwalk(c, f, g, names) ==
  /\ Plain(c) /\ HostMayChange
  /\ Lock(c, "Twalk", Walked(c, f, g, names, "dir"))

PlainTopen(c, f) ==
  /\ Plain(c) /\ UNCHANGED host
  /\ Answer(c, "Topen", IF Known(c, f) THEN "ok" ELSE "error", PathOf(c, f))

PlainTread(c, f, overflows) ==
  /\ Plain(c) /\ HostMayChange
  /\ IF Known(c, f)
     THEN Lock(c, "Tread", \E cut \in 0..2 : ReadAnswer(c, PathOf(c, f), overflows, cut))
     ELSE Answer(c, "Tread", "error", << >>)

PlainTstat(c, f) ==
  /\ Plain(c) /\ HostMayChange
  /\ IF Known(c, f)
     THEN Lock(c, "Tstat", \E cut \in 0..2 : StatAnswer(c, PathOf(c, f), cut))
     ELSE Answer(c, "Tstat", "error", << >>)

-----------------------------------------------------------------------------
Walks == UNION {[1..n -> Name] : n \in 0..MaxNames}

Handle(c) ==
  \/ Tversion(c)
  \/ Unhandled(c)
  \/ \E f \in Fid :
       \/ Tclunk(c, f)
       \/ PseudoTattach(c, f)
       \/ PseudoTstat(c, f)
       \/ PlainTattach(c, f)
       \/ PlainTopen(c, f)
       \/ PlainTstat(c, f)
       \/ \E flag \in BOOLEAN : PseudoTopen(c, f, flag)
       \/ \E flag \in BOOLEAN : PseudoTread(c, f, flag)
       \/ \E flag \in BOOLEAN : PlainTread(c, f, flag)
       \/ \E g \in Fid, names \in Walks : PseudoTwalk(c, f, g, names)
       \/ \E g \in Fid, names \in Walks : PlainTwalk(c, f, g, names)

Next ==
  \/ HostChanges
  \/ Accept
  \/ \E c \in Client : Connect(c) \/ HangUp(c) \/ Handle(c)

Spec == Init /\ [][Next]_vars

\* The thread that accepts is scheduled.  When a client leaves is its own affair.
Fairness == WF_vars(Accept)

LiveSpec == Spec /\ Fairness

-----------------------------------------------------------------------------
\* Every variable holds what its counterpart can hold, and a fid exists only while its
\* connection is open.
TypeOK ==
  /\ program \in Programs /\ host \in Hosts[program.fs]
  /\ server \in {"up", "down"} /\ poisoned \in BOOLEAN
  /\ queue \in Seq(Client)
  /\ conn \in [Client -> {"off", "queued", "open"}]
  /\ \A c \in Client, f \in Fid : Known(c, f) =>
       /\ conn[c] = "open"
       /\ fids[c][f].path \in Seq(Name) /\ fids[c][f].qid \in {"file", "dir"}

\* What has gone is not shown any more, also not through a fid that was walked before it went,
\* or by a handler that it goes under: what is answered with success is at or below something
\* that the host provides while the request is handled.  A walk without names does not look and
\* is not among these requests; nor does Topen of DevFS and NetFS; and SrvFS makes up the ctl
\* file of a service.
AnswersShowTheLiving ==
  [][reply'.out = "ok" /\ reply'.req \in {"Twalk", "Topen", "Tread", "Tstat"} =>
       \/ reply'.path = << >>
       \/ <<Head(reply'.path)>> \in host \cup host'
       \/ reply'.req = "Topen" /\ program.fs \in {"dev", "net"}
       \/ program.fs = "srv" /\ Len(reply'.path) = 2]_vars

\* An Rerror leaves all fid tables as they were: a walk that stops half way, or under which
\* the host changes, does not move newfid.
ErrorsKeepFids ==
  [][reply'.out = "error" => fids' = fids]_vars

\* While the mutex is healthy a thread panics only over the end of a Tread in a build that
\* checks, which poisons the mutex, and over a Topen without a mode, which does not: no change
\* of the host and no sequence of fids makes a handler panic.
PanicsAreKnown ==
  [][~poisoned /\ reply'.out = "panic" =>
       \/ reply'.req = "Tread" /\ OverflowChecks /\ poisoned'
       \/ reply'.req = "Topen" /\ ~poisoned']_vars

\* Once the mutex is poisoned no connection, old or new, sees anything of the tree again.
PoisonSilencesTheTree ==
  [][poisoned => /\ poisoned'
                 /\ reply'.req \in {"Twalk", "clone", "Topen", "Tread", "Tstat"} => reply'.out = "panic"]_vars

\* If no client stays for ever, who is queued is accepted or reset, whatever the others ask and
\* however they end: run_server and run_single lose nobody behind a connection that ended, hung
\* up or panicked.  A client that does stay keeps everybody behind it waiting.
ClientsLeave == \A c \in Client : []<>(conn[c] # "open")
NobodyWaitsForEver == ClientsLeave => \A c \in Client : conn[c] = "queued" ~> conn[c] # "queued"
=============================================================================
