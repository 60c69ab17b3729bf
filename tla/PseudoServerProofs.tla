-------------------------- MODULE PseudoServerProofs --------------------------
(***************************************************************************)
(* What a request to one of the pseudo servers may do, for every host,     *)
(* every set of clients, fids and names, and every way to run the server.  *)
(***************************************************************************)
EXTENDS PseudoServer, SequenceTheorems, TLAPS

\* The requests that look at the tree
Looking == {"Twalk", "clone", "Topen", "Tread", "Tstat"}

AllReset == server = "down" /\ queue = << >> /\ conn = [d \in Client |-> "off"]

\* Why nobody is answered by DevFS and NetFS after a panic, whose Topen takes no mutex: there
\* is no server any more, as wherever a panic ends the thread that accepts.
PoisonInv ==
  /\ poisoned \in BOOLEAN
  /\ program \in Program
  /\ poisoned /\ program.serving # "start_server" => AllReset

\* A step that handles a request, as the properties see it.
Handled ==
  /\ reply'.out = "error" => fids' = fids
  /\ poisoned => poisoned'
  /\ poisoned /\ reply'.req \in Looking => reply'.out = "panic"
  /\ ~poisoned /\ reply'.out = "panic" =>
       \/ reply'.req = "Tread" /\ OverflowChecks /\ poisoned'
       \/ reply'.req = "Topen" /\ ~poisoned'

\* It leaves the server alone, or a panic ends what it ends.
Settled ==
  \/ UNCHANGED <<program, server, queue, conn, poisoned>>
  \/ /\ program' = program /\ poisoned' \in BOOLEAN
     /\ program.serving # "start_server" => AllReset'

\* lock().unwrap() either goes through or ends the thread.
LEMMA LockSplits ==
  ASSUME NEW c, NEW req, NEW B \in BOOLEAN, Lock(c, req, B)
  PROVE  (poisoned /\ Panic(c, req, FALSE)) \/ (~poisoned /\ B)
  BY DEF Lock

\* A request that looks at the tree is answered under a healthy mutex.
LEMMA AnswerHandled ==
  ASSUME NEW c, NEW req, NEW out \in {"ok", "error"}, NEW path, Answer(c, req, out, path),
         ~poisoned \/ req \notin Looking
  PROVE  Handled /\ Settled
  BY DEF Answer, Says, Quiet, Handled, Settled

\* A success that moves fids leaves everything else alone.
LEMMA MoveHandled ==
  ASSUME NEW c, NEW req, NEW path, Says(c, req, "ok", path), Quiet,
         ~poisoned \/ req \notin Looking
  PROVE  Handled /\ Settled
  BY DEF Says, Quiet, Handled, Settled

\* The three causes of a panic: the poisoned mutex, the end of a Tread, a Topen without mode.
LEMMA PanicHandled ==
  ASSUME NEW c, NEW req, NEW guarded \in BOOLEAN, Panic(c, req, guarded),
         poisoned \/ (req = "Tread" /\ OverflowChecks /\ guarded) \/ (req = "Topen" /\ ~guarded),
         poisoned \in BOOLEAN
  PROVE  Handled /\ Settled
<1>1. Handled
  BY DEF Panic, Says, Handled
<1>2. program' = program /\ poisoned' \in BOOLEAN
  BY DEF Panic
<1>3. program.serving # "start_server" => AllReset'
  BY DEF Panic, Drop, AllReset
<1> QED BY <1>1, <1>2, <1>3 DEF Settled

\* Walked answers with an error and no change, or moves newfid and answers with success.
LEMMA WalkHandled ==
  ASSUME NEW c, NEW f, NEW g, NEW names, NEW qid, Walked(c, f, g, names, qid), ~poisoned
  PROVE  Handled /\ Settled
<1>1. PICK cut \in 0..(2 * Len(names)) :
        LET found == Found(PathOf(c, f), names, cut)
            end == PathOf(c, f) \o names
        IN  IF \A k \in 1..Len(names) : found[k] # "none"
            THEN /\ fids' = [fids EXCEPT ![c][g] =
                               State(end, IF names = << >> THEN qid ELSE found[Len(names)])]
                 /\ Says(c, Walk(names), "ok", end)
                 /\ Quiet
            ELSE Answer(c, Walk(names), "error", end)
  BY DEF Walked
<1>2. \/ Says(c, Walk(names), "ok", PathOf(c, f) \o names) /\ Quiet
      \/ Answer(c, Walk(names), "error", PathOf(c, f) \o names)
  BY <1>1
<1>3. CASE Says(c, Walk(names), "ok", PathOf(c, f) \o names) /\ Quiet
  BY <1>3, MoveHandled
<1>4. CASE Answer(c, Walk(names), "error", PathOf(c, f) \o names)
  BY <1>4, AnswerHandled
<1> QED BY <1>2, <1>3, <1>4

\* ReadAnswer is an answer, or the panic over offset + count.
LEMMA ReadHandled ==
  ASSUME NEW c, NEW path, NEW overflows, NEW cut, ReadAnswer(c, path, overflows, cut),
         ~poisoned, poisoned \in BOOLEAN
  PROVE  Handled /\ Settled
<1>1. \/ OverflowChecks /\ Panic(c, "Tread", TRUE)
      \/ \E out \in {"ok", "error"} : Answer(c, "Tread", out, path)
  BY DEF ReadAnswer, ReadData
<1>2. CASE OverflowChecks /\ Panic(c, "Tread", TRUE)
  BY <1>2, PanicHandled
<1>3. CASE \E out \in {"ok", "error"} : Answer(c, "Tread", out, path)
  BY <1>3, AnswerHandled
<1> QED BY <1>1, <1>2, <1>3

\* StatAnswer never does more than answer.
LEMMA StatHandled ==
  ASSUME NEW c, NEW path, NEW cut, StatAnswer(c, path, cut), ~poisoned
  PROVE  Handled /\ Settled
<1>1. \E out \in {"ok", "error"} : Answer(c, "Tstat", out, path)
  BY DEF StatAnswer
<1> QED BY <1>1, AnswerHandled

\* Every request of every client is handled like that.
LEMMA RequestHandled ==
  ASSUME PoisonInv, NEW c \in Client, Handle(c)
  PROVE  Handled /\ Settled
<1> USE DEF PoisonInv
<1>1. CASE Tversion(c)
  BY <1>1, AnswerHandled DEF Tversion, Looking
<1>2. CASE Unhandled(c)
  BY <1>2, AnswerHandled DEF Unhandled, Looking
<1>3. ASSUME NEW f \in Fid, Tclunk(c, f) PROVE Handled /\ Settled
  BY <1>3, MoveHandled DEF Tclunk, Looking
<1>4. ASSUME NEW f \in Fid, PseudoTattach(c, f) PROVE Handled /\ Settled
  BY <1>4, MoveHandled DEF PseudoTattach, Looking
<1>5. ASSUME NEW f \in Fid, PlainTattach(c, f) PROVE Handled /\ Settled
  BY <1>5, MoveHandled DEF PlainTattach, Looking
<1>6. ASSUME NEW f \in Fid, PseudoTstat(c, f) PROVE Handled /\ Settled
  <2>1. \/ poisoned /\ Panic(c, "Tstat", FALSE)
        \/ ~poisoned /\ \E cut \in 0..2 : StatAnswer(c, PathOf(c, f), cut)
        \/ ~poisoned /\ Answer(c, "Tstat", "error", << >>)
    BY <1>6 DEF PseudoTstat, Lock
  <2> QED BY <2>1, PanicHandled, StatHandled, AnswerHandled
<1>7. ASSUME NEW f \in Fid, NEW short \in BOOLEAN, PseudoTopen(c, f, short) PROVE Handled /\ Settled
  <2>1. \/ Panic(c, "Topen", FALSE)
        \/ ~poisoned /\ \E out \in {"ok", "error"} : Answer(c, "Topen", out, PathOf(c, f))
    BY <1>7 DEF PseudoTopen, Lock
  <2> QED BY <2>1, PanicHandled, AnswerHandled
<1>8. ASSUME NEW f \in Fid, NEW over \in BOOLEAN, PseudoTread(c, f, over) PROVE Handled /\ Settled
  <2>1. \/ poisoned /\ Panic(c, "Tread", FALSE)
        \/ ~poisoned /\ \E cut \in 0..2 : ReadAnswer(c, PathOf(c, f), over, cut)
        \/ ~poisoned /\ Answer(c, "Tread", "error", << >>)
    BY <1>8 DEF PseudoTread, Lock
  <2> QED BY <2>1, PanicHandled, ReadHandled, AnswerHandled
<1>9. ASSUME NEW f \in Fid, NEW g \in Fid, NEW names \in Walks, PseudoTwalk(c, f, g, names)
      PROVE  Handled /\ Settled
  <2>1. \/ poisoned /\ Panic(c, "Twalk", FALSE)
        \/ ~poisoned /\ Walked(c, f, g, names, "file")
    BY <1>9 DEF PseudoTwalk, Lock
  <2> QED BY <2>1, PanicHandled, WalkHandled
\* DevFS and NetFS: whoever is connected meets a healthy mutex
<1>10. Plain(c) => ~poisoned
  <2>1. Plain(c) => program.serving # "start_server" /\ conn[c] = "open"
    BY DEF Plain, Up, Program
  <2> QED BY <2>1 DEF AllReset
<1>11. ASSUME NEW f \in Fid, PlainTopen(c, f) PROVE Handled /\ Settled
  <2>1. ~poisoned /\ \E out \in {"ok", "error"} : Answer(c, "Topen", out, PathOf(c, f))
    BY <1>10, <1>11 DEF PlainTopen
  <2> QED BY <2>1, AnswerHandled
<1>12. ASSUME NEW f \in Fid, PlainTstat(c, f) PROVE Handled /\ Settled
  <2>1. \/ ~poisoned /\ \E cut \in 0..2 : StatAnswer(c, PathOf(c, f), cut)
        \/ ~poisoned /\ Answer(c, "Tstat", "error", << >>)
    BY <1>10, <1>12 DEF PlainTstat, Lock
  <2> QED BY <2>1, StatHandled, AnswerHandled
<1>13. ASSUME NEW f \in Fid, NEW over \in BOOLEAN, PlainTread(c, f, over) PROVE Handled /\ Settled
  <2>1. \/ ~poisoned /\ \E cut \in 0..2 : ReadAnswer(c, PathOf(c, f), over, cut)
        \/ ~poisoned /\ Answer(c, "Tread", "error", << >>)
    BY <1>10, <1>13 DEF PlainTread, Lock
  <2> QED BY <2>1, ReadHandled, AnswerHandled
<1>14. ASSUME NEW f \in Fid, NEW g \in Fid, NEW names \in Walks, PlainTwalk(c, f, g, names)
       PROVE  Handled /\ Settled
  BY <1>10, <1>14, WalkHandled DEF PlainTwalk, Lock
<1> QED
  BY <1>1, <1>2, <1>3, <1>4, <1>5, <1>6, <1>7, <1>8, <1>9, <1>11, <1>12, <1>13, <1>14 DEF Handle

-----------------------------------------------------------------------------
\* A server that ended over a panic stays ended.
LEMMA PoisonInvariant == Spec => []PoisonInv
<1>1. Init => PoisonInv
  BY ServerAssumption DEF Init, PoisonInv
<1>2. PoisonInv /\ [Next]_vars => PoisonInv'
  <2> SUFFICES ASSUME PoisonInv, [Next]_vars PROVE PoisonInv'
    OBVIOUS
  <2> USE DEF PoisonInv, AllReset
  <2>1. CASE HostChanges
    BY <2>1 DEF HostChanges
  <2>2. CASE Accept
    BY <2>2 DEF Accept
  <2>3. ASSUME NEW c \in Client, Connect(c) PROVE PoisonInv'
    BY <2>3 DEF Connect
  <2>4. ASSUME NEW c \in Client, HangUp(c) PROVE PoisonInv'
    BY <2>4 DEF HangUp
  <2>5. ASSUME NEW c \in Client, Handle(c) PROVE PoisonInv'
    <3>1. Settled
      BY <2>5, RequestHandled
    <3> QED BY <3>1 DEF Settled
  <2>6. CASE UNCHANGED vars
    BY <2>6 DEF vars
  <2> QED BY <2>1, <2>2, <2>3, <2>4, <2>5, <2>6 DEF Next
<1> QED BY <1>1, <1>2, PTL DEF Spec

\* What the three theorems take from a step.
LEMMA StepHandled ==
  ASSUME PoisonInv, Next
  PROVE  Handled
<1>1. CASE HostChanges \/ Accept \/ \E c \in Client : Connect(c) \/ HangUp(c)
  <2>1. reply' = NoReply /\ poisoned' = poisoned
    BY <1>1 DEF HostChanges, Accept, Connect, HangUp
  <2> QED BY <2>1 DEF NoReply, Handled, Looking
<1>2. CASE \E c \in Client : Handle(c)
  BY <1>2, RequestHandled
<1> QED BY <1>1, <1>2 DEF Next

\* ErrorsKeepFids: an Rerror of any of the four servers leaves all fid tables as they were.
THEOREM ErrorsLeaveFids == Spec => ErrorsKeepFids
<1>1. PoisonInv /\ [Next]_vars => [reply'.out = "error" => fids' = fids]_vars
  BY StepHandled DEF Handled
<1> QED BY <1>1, PoisonInvariant, PTL DEF Spec, ErrorsKeepFids

\* PanicsAreKnown: under a healthy mutex no state of the host and of the fids, and no order of
\* requests, makes a thread die of anything but the two causes that the code has.
THEOREM OnlyKnownPanics == Spec => PanicsAreKnown
<1>1. PoisonInv /\ [Next]_vars =>
        [~poisoned /\ reply'.out = "panic" =>
           \/ reply'.req = "Tread" /\ OverflowChecks /\ poisoned'
           \/ reply'.req = "Topen" /\ ~poisoned']_vars
  BY StepHandled DEF Handled
<1> QED BY <1>1, PoisonInvariant, PTL DEF Spec, PanicsAreKnown

\* PoisonSilencesTheTree: after a panic under the mutex nobody sees anything of the tree again,
\* though DevFS and NetFS have requests that do not take the mutex.
THEOREM PoisonSilences == Spec => PoisonSilencesTheTree
<1>1. PoisonInv /\ [Next]_vars =>
        [poisoned => /\ poisoned'
                     /\ reply'.req \in {"Twalk", "clone", "Topen", "Tread", "Tstat"} => reply'.out = "panic"]_vars
  BY StepHandled DEF Handled, Looking
<1> QED BY <1>1, PoisonInvariant, PTL DEF Spec, PoisonSilencesTheTree

-----------------------------------------------------------------------------
(***************************************************************************)
(* What the fid tables hold                                                *)
(***************************************************************************)
FidState == {NoFid} \cup [path : Seq(Name), qid : {"file", "dir"}]

\* A panic of a thread that is the whole server takes all connections along, but drops the
\* fids of one only: there is no other, as such a server has one connection open at a time.
OneAtATime ==
  program.serving # "start_server" =>
    \A c, d \in Client : conn[c] = "open" /\ conn[d] = "open" => c = d

FidInv ==
  /\ TypeOK
  /\ fids \in [Client -> [Fid -> FidState]]
  /\ OneAtATime

\* A request that leaves everything but the host alone.
LEMMA AnswerKeepsFidInv ==
  ASSUME FidInv, fids' = fids, Quiet, HostMayChange
  PROVE  FidInv'
<1>1. /\ program' = program /\ server' = server /\ queue' = queue /\ conn' = conn
      /\ poisoned' = poisoned /\ host' \in Hosts[program'.fs]
  BY DEF Quiet, HostMayChange
<1> QED
  BY <1>1 DEF FidInv, TypeOK, OneAtATime, Known

\* A request that sets a fid of an open connection, or drops it.
LEMMA MoveKeepsFidInv ==
  ASSUME FidInv, NEW c \in Client, NEW f \in Fid, conn[c] = "open", NEW state \in FidState,
         fids' = [fids EXCEPT ![c][f] = state], Quiet, HostMayChange
  PROVE  FidInv'
<1>1. /\ program' = program /\ server' = server /\ queue' = queue /\ conn' = conn
      /\ poisoned' = poisoned /\ host' \in Hosts[program'.fs]
  BY DEF Quiet, HostMayChange
<1>2. /\ fids' \in [Client -> [Fid -> FidState]]
      /\ \A d \in Client, g \in Fid : fids'[d][g] = IF d = c /\ g = f THEN state ELSE fids[d][g]
  BY DEF FidInv
<1>3. \A d \in Client, g \in Fid : fids'[d][g] # NoFid =>
        conn[d] = "open" /\ fids'[d][g].path \in Seq(Name) /\ fids'[d][g].qid \in {"file", "dir"}
  BY <1>2 DEF FidInv, TypeOK, Known, FidState
<1>4. TypeOK'
  BY <1>1, <1>3 DEF FidInv, TypeOK, Known
<1> QED
  BY <1>1, <1>2, <1>4 DEF FidInv, OneAtATime

\* A connection that is dropped, with the server or without it.
LEMMA DropKeepsFidInv ==
  ASSUME FidInv, NEW c \in Client, conn[c] = "open", NEW serverEnds \in BOOLEAN, Drop(c, serverEnds),
         serverEnds => program.serving # "start_server",
         program' = program, poisoned' \in BOOLEAN, HostMayChange
  PROVE  FidInv'
<1>1. /\ NoFids \in [Fid -> FidState] /\ \A f \in Fid : NoFids[f] = NoFid
      /\ fids' = [fids EXCEPT ![c] = NoFids]
  BY DEF NoFids, FidState, Drop
<1>2. /\ fids' \in [Client -> [Fid -> FidState]]
      /\ \A d \in Client, f \in Fid : fids'[d][f] = IF d = c THEN NoFid ELSE fids[d][f]
  BY <1>1 DEF FidInv
<1>3. /\ conn' \in [Client -> {"off", "queued", "open"}]
      /\ \A d \in Client : conn'[d] = "open" => conn[d] = "open"
      /\ server' \in {"up", "down"} /\ queue' \in Seq(Client)
  BY EmptySeq DEF Drop, FidInv, TypeOK
<1>4. \A d \in Client, f \in Fid : fids'[d][f] # NoFid => d # c /\ Known(d, f) /\ conn[d] = "open"
  BY <1>2 DEF FidInv, TypeOK, Known
<1>5. \A d \in Client : d # c /\ conn[d] = "open" => conn'[d] = "open"
  <2>1. CASE serverEnds
    BY <2>1 DEF FidInv, OneAtATime
  <2>2. CASE ~serverEnds
    BY <2>2 DEF Drop, FidInv, TypeOK
  <2> QED
    BY <2>1, <2>2
<1>6. \A d \in Client, f \in Fid : fids'[d][f] # NoFid =>
        conn'[d] = "open" /\ fids'[d][f].path \in Seq(Name) /\ fids'[d][f].qid \in {"file", "dir"}
  BY <1>2, <1>4, <1>5 DEF FidInv, TypeOK
<1>7. TypeOK'
  BY <1>3, <1>6 DEF FidInv, TypeOK, Known, HostMayChange
<1>9. OneAtATime'
  BY <1>3 DEF FidInv, OneAtATime
<1> QED
  BY <1>2, <1>7, <1>9 DEF FidInv

\* A panic in a connection's thread.
LEMMA PanicKeepsFidInv ==
  ASSUME FidInv, NEW c \in Client, conn[c] = "open", NEW req, NEW guarded \in BOOLEAN, Panic(c, req, guarded), HostMayChange
  PROVE  FidInv'
<1>1. program' = program /\ poisoned' \in BOOLEAN
  BY DEF Panic, FidInv, TypeOK
<1>2. CASE program.serving # "start_server"
  BY <1>1, <1>2, DropKeepsFidInv DEF Panic, Drop
<1>3. CASE program.serving = "start_server"
  BY <1>1, <1>3, DropKeepsFidInv DEF Panic, Drop
<1> QED
  BY <1>2, <1>3

\* The names of a walk are a sequence of names.
LEMMA WalksAreSequences == \A names \in Walks : names \in Seq(Name)
<1>1. ASSUME NEW n \in Nat, NEW names \in [1..n -> Name] PROVE names \in Seq(Name)
  BY <1>1
<1>2. 0..MaxNames \subseteq Nat
  BY ServerAssumption
<1> QED
  BY <1>1, <1>2 DEF Walks

\* The path of a fid, or of none.
LEMMA PathsAreSequences ==
  ASSUME FidInv, NEW c \in Client, NEW f \in Fid
  PROVE  PathOf(c, f) \in Seq(Name)
  BY EmptySeq DEF FidInv, TypeOK, PathOf, Known

\* A walk sets newfid to what it found.
LEMMA WalkKeepsFidInv ==
  ASSUME FidInv, NEW c \in Client, NEW f \in Fid, NEW g \in Fid, conn[c] = "open",
         NEW names \in Walks, NEW qid \in {"file", "dir"},
         Walked(c, f, g, names, qid), HostMayChange
  PROVE  FidInv'
<1>1. names \in Seq(Name) /\ PathOf(c, f) \in Seq(Name)
  BY WalksAreSequences, PathsAreSequences
<1> DEFINE end == PathOf(c, f) \o names
<1>2. end \in Seq(Name)
  BY <1>1, ConcatProperties
<1>3. PICK cut \in 0..(2 * Len(names)) :
        LET found == Found(PathOf(c, f), names, cut)
        IN  IF \A k \in 1..Len(names) : found[k] # "none"
            THEN /\ fids' = [fids EXCEPT ![c][g] =
                               State(end, IF names = << >> THEN qid ELSE found[Len(names)])]
                 /\ Says(c, Walk(names), "ok", end)
                 /\ Quiet
            ELSE Answer(c, Walk(names), "error", end)
  BY DEF Walked
<1> DEFINE found == Found(PathOf(c, f), names, cut)
           kind == IF names = << >> THEN qid ELSE found[Len(names)]
<1>4. CASE \A k \in 1..Len(names) : found[k] # "none"
  <2>1. /\ fids' = [fids EXCEPT ![c][g] = State(end, kind)] /\ Quiet
    BY <1>3, <1>4
  <2>2. kind \in {"file", "dir"}
    <3>1. CASE names = << >>
      BY <3>1
    <3>2. CASE names # << >>
      <4>1. Len(names) \in 1..Len(names)
        BY <1>1, <3>2, EmptySeq
      <4>2. found[Len(names)] # "none" /\ found[Len(names)] \in {"none", "file", "dir"}
        BY <1>4, <4>1 DEF Found, Stat, ProcStat, SrvStat, DevStat, NetStat
      <4> QED
        BY <3>2, <4>2
    <3> QED
      BY <3>1, <3>2
  <2>3. State(end, kind) \in FidState
    BY <1>2, <2>2 DEF State, FidState
  <2> HIDE DEF kind, end
  <2> QED
    BY <2>1, <2>3, MoveKeepsFidInv
<1>5. CASE ~ \A k \in 1..Len(names) : found[k] # "none"
  <2>1. Answer(c, Walk(names), "error", end)
    BY <1>3, <1>5
  <2> QED
    BY <2>1, AnswerKeepsFidInv DEF Answer
<1> QED
  BY <1>4, <1>5

\* Every request of every client leaves the tables right.
LEMMA RequestKeepsFidInv ==
  ASSUME FidInv, NEW c \in Client, Handle(c)
  PROVE  FidInv'
<1>1. /\ program \in Program /\ host \in Hosts[program.fs]
      /\ UNCHANGED host => HostMayChange \/ program' # program
  BY ServerAssumption DEF FidInv, TypeOK, HostMayChange
<1>2. Quiet => program' = program
  BY DEF Quiet
<1>3. NoFid \in FidState /\ \A qid \in {"file", "dir"} : State(<< >>, qid) \in FidState
  BY EmptySeq DEF FidState, State
<1>4. ASSUME NEW req, NEW B \in BOOLEAN, Lock(c, req, B), HostMayChange, Up(c), B => FidInv' PROVE FidInv'
  BY <1>4, LockSplits, PanicKeepsFidInv DEF Up
<1>5. ASSUME NEW req, NEW out, NEW path, Answer(c, req, out, path), HostMayChange \/ UNCHANGED host PROVE FidInv'
  BY <1>1, <1>2, <1>5, AnswerKeepsFidInv DEF Answer
<1>6. ASSUME NEW path, NEW over, NEW cut, ReadAnswer(c, path, over, cut), HostMayChange, Up(c) PROVE FidInv'
  BY <1>5, <1>6, PanicKeepsFidInv DEF ReadAnswer, ReadData, Up
<1>7. ASSUME NEW path, NEW cut, StatAnswer(c, path, cut), HostMayChange PROVE FidInv'
  BY <1>5, <1>7 DEF StatAnswer
<1>8. CASE Tversion(c) \/ Unhandled(c)
  BY <1>5, <1>8 DEF Tversion, Unhandled
<1>9. ASSUME NEW f \in Fid, Tclunk(c, f) PROVE FidInv'
  BY <1>1, <1>2, <1>3, <1>9, MoveKeepsFidInv DEF Tclunk, Up
<1>10. ASSUME NEW f \in Fid, PseudoTattach(c, f) PROVE FidInv'
  BY <1>1, <1>2, <1>3, <1>10, MoveKeepsFidInv DEF PseudoTattach, Pseudo, Up
<1>11. ASSUME NEW f \in Fid, PlainTattach(c, f) PROVE FidInv'
  BY <1>1, <1>2, <1>3, <1>11, MoveKeepsFidInv DEF PlainTattach, Plain, Up
<1>12. ASSUME NEW f \in Fid, PseudoTstat(c, f) PROVE FidInv'
  <2>1. \/ Panic(c, "Tstat", FALSE)
        \/ \E cut \in 0..2 : StatAnswer(c, PathOf(c, f), cut)
        \/ Answer(c, "Tstat", "error", << >>)
    BY <1>12 DEF PseudoTstat, Lock
  <2> QED
    BY <1>5, <1>7, <1>12, <2>1, PanicKeepsFidInv DEF PseudoTstat, Pseudo, Up
<1>13. ASSUME NEW f \in Fid, PlainTstat(c, f) PROVE FidInv'
  <2>1. \/ Panic(c, "Tstat", FALSE)
        \/ \E cut \in 0..2 : StatAnswer(c, PathOf(c, f), cut)
        \/ Answer(c, "Tstat", "error", << >>)
    BY <1>13 DEF PlainTstat, Lock
  <2> QED
    BY <1>5, <1>7, <1>13, <2>1, PanicKeepsFidInv DEF PlainTstat, Plain, Up
<1>14. ASSUME NEW f \in Fid, NEW short \in BOOLEAN, PseudoTopen(c, f, short) PROVE FidInv'
  <2>1. \/ Panic(c, "Topen", FALSE)
        \/ \E out \in {"ok", "error"} : Answer(c, "Topen", out, PathOf(c, f))
    BY <1>14 DEF PseudoTopen, Lock
  <2> QED
    BY <1>5, <1>14, <2>1, PanicKeepsFidInv DEF PseudoTopen, Pseudo, Up
<1>15. ASSUME NEW f \in Fid, PlainTopen(c, f) PROVE FidInv'
  BY <1>5, <1>15 DEF PlainTopen
<1>16. ASSUME NEW f \in Fid, NEW over \in BOOLEAN, PseudoTread(c, f, over) PROVE FidInv'
  <2>1. \/ Panic(c, "Tread", FALSE)
        \/ \E cut \in 0..2 : ReadAnswer(c, PathOf(c, f), over, cut)
        \/ Answer(c, "Tread", "error", << >>)
    BY <1>16 DEF PseudoTread, Lock
  <2> QED
    BY <1>5, <1>6, <1>16, <2>1, PanicKeepsFidInv DEF PseudoTread, Pseudo, Up
<1>17. ASSUME NEW f \in Fid, NEW over \in BOOLEAN, PlainTread(c, f, over) PROVE FidInv'
  <2>1. \/ Panic(c, "Tread", FALSE)
        \/ \E cut \in 0..2 : ReadAnswer(c, PathOf(c, f), over, cut)
        \/ Answer(c, "Tread", "error", << >>)
    BY <1>17 DEF PlainTread, Lock
  <2> QED
    BY <1>5, <1>6, <1>17, <2>1, PanicKeepsFidInv DEF PlainTread, Plain, Up
<1>18. ASSUME NEW f \in Fid, NEW g \in Fid, NEW names \in Walks, PseudoTwalk(c, f, g, names) PROVE FidInv'
  <2>1. Panic(c, "Twalk", FALSE) \/ Walked(c, f, g, names, "file")
    BY <1>18 DEF PseudoTwalk, Lock
  <2> QED
    BY <1>18, <2>1, PanicKeepsFidInv, WalkKeepsFidInv DEF PseudoTwalk, Pseudo, Up
<1>19. ASSUME NEW f \in Fid, NEW g \in Fid, NEW names \in Walks, PlainTwalk(c, f, g, names) PROVE FidInv'
  <2>1. Panic(c, "Twalk", FALSE) \/ Walked(c, f, g, names, "dir")
    BY <1>19 DEF PlainTwalk, Lock
  <2> QED
    BY <1>19, <2>1, PanicKeepsFidInv, WalkKeepsFidInv DEF PlainTwalk, Plain, Up
<1> QED
  BY <1>8, <1>9, <1>10, <1>11, <1>12, <1>13, <1>14, <1>15, <1>16, <1>17, <1>18, <1>19 DEF Handle

\* The fid tables are right in every state that the servers reach.
LEMMA FidInvariant == Spec => []FidInv
<1>1. Init => FidInv
  <2> SUFFICES ASSUME Init PROVE FidInv
    OBVIOUS
  <2>1. \A c \in Client, f \in Fid : fids[c][f] = NoFid
    BY DEF Init, NoFids
  <2>2. TypeOK
    BY <2>1, EmptySeq DEF Init, TypeOK, Known
  <2>3. fids \in [Client -> [Fid -> FidState]]
    BY DEF Init, NoFids, FidState
  <2> QED
    BY <2>1, <2>2, <2>3 DEF Init, FidInv, OneAtATime, Known
<1>2. FidInv /\ [Next]_vars => FidInv'
  <2> SUFFICES ASSUME FidInv, [Next]_vars PROVE FidInv'
    OBVIOUS
  <2>1. CASE HostChanges
    BY <2>1, AnswerKeepsFidInv DEF HostChanges, HostMayChange, Quiet
  <2>2. ASSUME NEW c \in Client, Connect(c) PROVE FidInv'
    <3>1. /\ queue' \in Seq(Client) /\ conn' \in [Client -> {"off", "queued", "open"}]
          /\ \A d \in Client : conn'[d] = "open" <=> conn[d] = "open"
          /\ UNCHANGED <<program, host, server, fids, poisoned>>
      BY <2>2, AppendProperties DEF Connect, FidInv, TypeOK
    <3> QED
      BY <3>1 DEF FidInv, TypeOK, OneAtATime, Known
  <2>3. CASE Accept
    <3>1. /\ queue' \in Seq(Client) /\ Head(queue) \in Client
          /\ UNCHANGED <<program, host, server, fids, poisoned>>
      BY <2>3, HeadTailProperties DEF Accept, FidInv, TypeOK
    <3>2. /\ conn' \in [Client -> {"off", "queued", "open"}]
          /\ \A d \in Client : conn'[d] = "open" <=> conn[d] = "open" \/ d = Head(queue)
      BY <2>3, <3>1 DEF Accept, FidInv, TypeOK
    <3>3. OneAtATime'
      BY <2>3, <3>1, <3>2 DEF Accept, Busy, OneAtATime
    <3> QED
      BY <3>1, <3>2, <3>3 DEF FidInv, TypeOK, Known
  <2>4. ASSUME NEW c \in Client, HangUp(c) PROVE FidInv'
    <3>1. /\ conn[c] = "open" /\ program' = program /\ poisoned' \in BOOLEAN /\ HostMayChange
      BY <2>4 DEF HangUp, HostMayChange, FidInv, TypeOK
    <3>2. CASE program.serving = "run_single"
      BY <2>4, <3>1, <3>2, DropKeepsFidInv DEF HangUp, Drop
    <3>3. CASE program.serving # "run_single"
      BY <2>4, <3>1, <3>3, DropKeepsFidInv DEF HangUp, Drop
    <3> QED
      BY <3>2, <3>3
  <2>5. ASSUME NEW c \in Client, Handle(c) PROVE FidInv'
    BY <2>5, RequestKeepsFidInv
  <2>6. CASE UNCHANGED vars
    BY <2>6 DEF vars, FidInv, TypeOK, OneAtATime, Known
  <2> QED
    BY <2>1, <2>2, <2>3, <2>4, <2>5, <2>6 DEF Next
<1> QED
  BY <1>1, <1>2, PTL DEF Spec

\* A fid exists only while its connection is open, and every variable holds what it can hold.
THEOREM ServerTypeCorrect == Spec => []TypeOK
<1>1. FidInv => TypeOK
  BY DEF FidInv
<1> QED
  BY <1>1, FidInvariant, PTL

-----------------------------------------------------------------------------
(***************************************************************************)
(* What is answered with success                                           *)
(***************************************************************************)
\* The path is at or below something that the host provides, or is one of those that nobody
\* looks for.
Lives(path) == path = << >> \/ <<Head(path)>> \in host \cup host' \/ (program.fs = "srv" /\ Len(path) = 2)

Shows ==
  reply'.out = "ok" /\ reply'.req \in Looking \ {"clone"} =>
    \/ Lives(reply'.path)
    \/ reply'.req = "Topen" /\ program.fs \in {"dev", "net"}

\* A path of one name is that name.
LEMMA OneName ==
  ASSUME NEW p \in Seq(Name), Len(p) = 1
  PROVE  p = <<p[1]>> /\ Head(p) = p[1]
  OBVIOUS

\* What the host was at a look that a handler takes.
LEMMA LookIsHost ==
  ASSUME NEW cut, NEW m
  PROVE  Look(cut, m) \in {host, host'}
  BY DEF Look

\* What a stat or a read finds is there at one of its looks.
LEMMA FoundLives ==
  ASSUME FidInv, HostMayChange, NEW p \in Seq(Name),
         NEW first, first \in {host, host'}, NEW later, later \in {host, host'},
         Stat(program.fs, first, later, p) # "none" \/ Readable(program.fs, first, later, p)
  PROVE  Lives(p)
<1>1. program \in Program /\ first \in Hosts[program.fs]
  BY ServerAssumption DEF FidInv, TypeOK, HostMayChange
<1>2. Len(p) = 1 => p = <<Head(p)>> /\ Head(p) = p[1]
  BY OneName
<1>3. CASE program.fs = "proc"
  BY <1>3 DEF Stat, Readable, ProcStat, ProcRead, PidExists, Lives
<1>4. CASE program.fs = "srv"
  BY <1>2, <1>4 DEF Stat, Readable, SrvStat, SrvRead, Lives
<1>5. CASE program.fs = "dev"
  <2>1. p = << >> \/ (Len(p) = 1 /\ p[1] \in DevEntries)
    BY <1>5 DEF Stat, Readable, DevStat, DevRead
  <2>2. \A name \in DevEntries : <<name>> \in first
    BY <1>1, <1>5, ServerAssumption
  <2> QED
    BY <1>2, <2>1, <2>2 DEF Lives
<1>6. CASE program.fs = "net"
  BY <1>2, <1>6 DEF Stat, Readable, NetStat, NetRead, Lives
<1> QED
  BY <1>1, <1>3, <1>4, <1>5, <1>6 DEF Program

\* A walk with names has looked for the last of them; one without stays where the fid is.
LEMMA WalkShows ==
  ASSUME FidInv, HostMayChange, NEW c \in Client, NEW f \in Fid, NEW g, NEW names \in Walks, NEW qid,
         Walked(c, f, g, names, qid)
  PROVE  Shows
<1>1. names \in Seq(Name) /\ PathOf(c, f) \in Seq(Name)
  BY WalksAreSequences, PathsAreSequences
<1> DEFINE end == PathOf(c, f) \o names
<1>2. PICK cut \in 0..(2 * Len(names)) :
        \/ (\A k \in 1..Len(names) : Found(PathOf(c, f), names, cut)[k] # "none") /\ Says(c, Walk(names), "ok", end)
        \/ Says(c, Walk(names), "error", end)
  BY DEF Walked, Answer
<1>3. CASE names = << >>
  BY <1>2, <1>3 DEF Walk, Says, Shows
<1>4. CASE names # << >>
  <2>1. Len(names) \in 1..Len(names)
    BY <1>1, <1>4, EmptySeq
  <2>2. SubSeq(names, 1, Len(names)) = names
    BY <1>1, SubSeqFull
  <2>3. Found(PathOf(c, f), names, cut)[Len(names)] =
          Stat(program.fs, Look(cut, 2 * Len(names) - 1), Look(cut, 2 * Len(names)), end)
    BY <2>1, <2>2 DEF Found
  <2>4. end \in Seq(Name)
    BY <1>1, ConcatProperties
  <2>5. ASSUME Found(PathOf(c, f), names, cut)[Len(names)] # "none" PROVE Lives(end)
    BY <2>3, <2>4, <2>5, LookIsHost, FoundLives
  <2> HIDE DEF end
  <2> QED
    BY <1>2, <1>4, <2>1, <2>5 DEF Walk, Says, Shows
<1> QED
  BY <1>3, <1>4

\* No request shows what the host does not provide while it is handled.
LEMMA RequestShows ==
  ASSUME FidInv, NEW c \in Client, Handle(c)
  PROVE  Shows
<1>1. ASSUME NEW req, NEW guarded, Panic(c, req, guarded) PROVE Shows
  BY <1>1 DEF Panic, Says, Shows
<1>2. ASSUME NEW req, NEW out, NEW path, Answer(c, req, out, path), out # "ok" \/ req \notin Looking PROVE Shows
  BY <1>2 DEF Answer, Says, Shows
<1>3. ASSUME NEW req, NEW out, NEW path, Answer(c, req, out, path), out = "ok" => Lives(path) PROVE Shows
  BY <1>3 DEF Answer, Says, Shows
<1>4. ASSUME NEW f \in Fid, NEW cut, NEW over, ReadAnswer(c, PathOf(c, f), over, cut), HostMayChange PROVE Shows
  <2>1. Readable(program.fs, Look(cut, 1), Look(cut, 2), PathOf(c, f)) => Lives(PathOf(c, f))
    BY <1>4, PathsAreSequences, LookIsHost, FoundLives
  <2> QED
    BY <1>1, <1>3, <1>4, <2>1 DEF ReadAnswer, ReadData
<1>5. ASSUME NEW f \in Fid, NEW cut, StatAnswer(c, PathOf(c, f), cut), HostMayChange PROVE Shows
  <2>1. Stat(program.fs, Look(cut, 1), Look(cut, 2), PathOf(c, f)) # "none" => Lives(PathOf(c, f))
    BY <1>5, PathsAreSequences, LookIsHost, FoundLives
  <2> QED
    BY <1>3, <1>5, <2>1 DEF StatAnswer
<1>6. CASE Tversion(c) \/ Unhandled(c)
  BY <1>2, <1>6 DEF Tversion, Unhandled, Looking
<1>7. ASSUME NEW f \in Fid, Tclunk(c, f) \/ PseudoTattach(c, f) \/ PlainTattach(c, f) PROVE Shows
  BY <1>7 DEF Tclunk, PseudoTattach, PlainTattach, Says, Shows, Looking
<1>8. ASSUME NEW f \in Fid, PseudoTstat(c, f) \/ PlainTstat(c, f) PROVE Shows
  <2>1. \/ Panic(c, "Tstat", FALSE)
        \/ \E cut \in 0..2 : StatAnswer(c, PathOf(c, f), cut)
        \/ Answer(c, "Tstat", "error", << >>)
    BY <1>8 DEF PseudoTstat, PlainTstat, Lock
  <2>2. HostMayChange
    BY <1>8 DEF PseudoTstat, PlainTstat
  <2> QED
    BY <1>1, <1>2, <1>5, <2>1, <2>2
<1>9. ASSUME NEW f \in Fid, NEW short \in BOOLEAN, PseudoTopen(c, f, short) PROVE Shows
  <2>1. \/ Panic(c, "Topen", FALSE)
        \/ Answer(c, "Topen", "error", PathOf(c, f))
        \/ \E cut \in 0..2 : /\ Stat(program.fs, Look(cut, 1), Look(cut, 2), PathOf(c, f)) # "none"
                             /\ Answer(c, "Topen", "ok", PathOf(c, f))
    BY <1>9 DEF PseudoTopen, Lock
  <2>2. ASSUME NEW cut, Stat(program.fs, Look(cut, 1), Look(cut, 2), PathOf(c, f)) # "none"
        PROVE  Lives(PathOf(c, f))
    BY <1>9, <2>2, PathsAreSequences, LookIsHost, FoundLives DEF PseudoTopen
  <2> QED
    BY <1>1, <1>2, <1>3, <2>1, <2>2
<1>10. ASSUME NEW f \in Fid, PlainTopen(c, f) PROVE Shows
  BY <1>10 DEF PlainTopen, Plain, Answer, Says, Shows
<1>11. ASSUME NEW f \in Fid, NEW over \in BOOLEAN, PseudoTread(c, f, over) \/ PlainTread(c, f, over) PROVE Shows
  <2>1. \/ Panic(c, "Tread", FALSE)
        \/ \E cut \in 0..2 : ReadAnswer(c, PathOf(c, f), over, cut)
        \/ Answer(c, "Tread", "error", << >>)
    BY <1>11 DEF PseudoTread, PlainTread, Lock
  <2>2. HostMayChange
    BY <1>11 DEF PseudoTread, PlainTread
  <2> QED
    BY <1>1, <1>2, <1>4, <2>1, <2>2
<1>12. ASSUME NEW f \in Fid, NEW g \in Fid, NEW names \in Walks,
              PseudoTwalk(c, f, g, names) \/ PlainTwalk(c, f, g, names)
       PROVE  Shows
  <2>1. Panic(c, "Twalk", FALSE) \/ Walked(c, f, g, names, "file") \/ Walked(c, f, g, names, "dir")
    BY <1>12 DEF PseudoTwalk, PlainTwalk, Lock
  <2>2. HostMayChange
    BY <1>12 DEF PseudoTwalk, PlainTwalk
  <2> QED
    BY <1>1, <2>1, <2>2, WalkShows
<1> QED
  BY <1>6, <1>7, <1>8, <1>9, <1>10, <1>11, <1>12 DEF Handle

\* AnswersShowTheLiving: whenever the host changes, also between two looks of one handler, a
\* request that succeeds is about something that the host provides while it is handled.
THEOREM OnlyTheLivingAreShown == Spec => AnswersShowTheLiving
<1>1. FidInv /\ Next => Shows
  <2>1. ASSUME HostChanges \/ Accept \/ \E c \in Client : Connect(c) \/ HangUp(c) PROVE Shows
    BY <2>1 DEF HostChanges, Accept, Connect, HangUp, NoReply, Shows, Looking
  <2> QED
    BY <2>1, RequestShows DEF Next
<1>2. FidInv /\ [Next]_vars =>
        [reply'.out = "ok" /\ reply'.req \in {"Twalk", "Topen", "Tread", "Tstat"} =>
           \/ reply'.path = << >>
           \/ <<Head(reply'.path)>> \in host \cup host'
           \/ reply'.req = "Topen" /\ program.fs \in {"dev", "net"}
           \/ program.fs = "srv" /\ Len(reply'.path) = 2]_vars
  BY <1>1 DEF Shows, Lives, Looking
<1> QED
  BY <1>2, FidInvariant, PTL DEF Spec, AnswersShowTheLiving
=============================================================================
