----------------------------- MODULE RamfsServer -----------------------------
(***************************************************************************)
(* The RAMFS 9P server of libs/planten_fs_ramfs/src/server.rs.             *)
(*                                                                         *)
(* Every connection has a thread of its own (run_server) that answers one  *)
(* request after another (handle_client) from a fid table of its own; all  *)
(* threads share one tree behind one Mutex.  A handler takes that mutex at *)
(* most once for what matters, and what it does outside the mutex touches  *)
(* its own table only, so here a handler is one step.  RamfsThreads takes  *)
(* the handlers apart and is proved to implement this module.              *)
(*                                                                         *)
(* A thread that panics while it holds the mutex poisons it for good: from *)
(* then on lock().unwrap() panics in every handler that gets that far.     *)
(***************************************************************************)
EXTENDS RamTree

CONSTANTS
  Client,      \* connections
  Fid,         \* fid numbers a client may use
  Name,        \* names of files, as they occur in paths
  Component,   \* components a Tcreate or a Twalk may carry
  Walks,       \* sequences of components a Twalk may carry
  OpenMode,    \* mode bytes of Topen
  NewStat,     \* what a Twstat may carry
  Offset,      \* offsets of Tread and Twrite
  Count,       \* counts of Tread
  Buffer,      \* what a Twrite may carry
  SeedFile,    \* names of the files the tree starts with, at the root
  SeedData,    \* and their contents
  MaxDepth,    \* bound: no path is made longer than this
  NoFid        \* what the table holds for a fid that is not in use

NoMode == -1   \* open_mode: None

Path == Seq(Name)

WireComponent == Path \cup {NoComponent, Dot, DotDot, Slash}

FidState == [path : Path, mode : {NoMode} \cup OpenMode]

ASSUME ServerAssumption ==
  /\ NoFid \notin FidState
  /\ SeedFile \subseteq Name /\ IsFiniteSet(SeedFile)
  /\ SeedData \in Seq(Byte)
  /\ OpenMode \subseteq Nat
  /\ Component \subseteq WireComponent
  /\ Walks \subseteq Seq(WireComponent)
  /\ NewStat \subseteq [mode : {Keep, 0, 1}, length : {Keep} \cup 0..(Word - 1),
                        name : {KeepName} \cup Name]
  /\ Offset \subseteq 0..(Word - 1)
  /\ Count \subseteq 0..(Word - 1)
  /\ Buffer \subseteq Seq(Byte)

VARIABLES
  fs,         \* the RamFs inside the Mutex
  poisoned,   \* the state of the Mutex
  fids,       \* fid_states of each connection's thread
  conn,       \* "up" while the thread of the connection runs
  reply       \* the last request handled, for whom, and how it went

vars == <<fs, poisoned, fids, conn, reply>>

NoFids == [f \in Fid |-> NoFid]

\* "zero" is an Rwrite that says nothing was written, "panic" no answer at all
Outcome == {"ok", "zero", "error", "panic"}

Request == {"Tversion", "Tauth", "Tattach", "Twalk", "Topen", "Tcreate", "Tread", "Twrite",
             "Tclunk", "Tremove", "Tstat", "Twstat", "Tclone", "Tflush"}

Init ==
  /\ fs = [p \in {Root} \cup {<<n>> : n \in SeedFile} |->
             IF p = Root THEN Dir("/") ELSE WithData(File(Last(p)), SeedData)]
  /\ poisoned = FALSE
  /\ fids = [c \in Client |-> NoFids]
  /\ conn = [c \in Client |-> "down"]
  /\ reply \in [client : Client, req : {"none"}, out : {"ok"}]

(***************************************************************************)
(* What the handlers have in common                                        *)
(***************************************************************************)
Up(c) == conn[c] = "up"
Known(c, f) == Up(c) /\ fids[c][f] # NoFid
PathOf(c, f) == fids[c][f].path

Answer(c, req, out) == reply' = [client |-> c, req |-> req, out |-> out]

\* send_error where neither the tree nor the table was touched
SendError(c, req) ==
  /\ Answer(c, req, "error")
  /\ UNCHANGED <<fs, poisoned, fids, conn>>

UnknownFid(c, f, req) == Up(c) /\ fids[c][f] = NoFid /\ SendError(c, req)

\* a panicking thread is unwound: its table and its stream are dropped
ThreadDies(c, req) ==
  /\ Answer(c, req, "panic")
  /\ conn' = [conn EXCEPT ![c] = "down"]
  /\ fids' = [fids EXCEPT ![c] = NoFids]

\* lock().unwrap() on a poisoned mutex
LockPanics(c, req) == poisoned /\ ThreadDies(c, req) /\ UNCHANGED <<fs, poisoned>>

\* The tree becomes what the operation left.  A panic on the way there comes
\* with the guard alive: it poisons the mutex and ends the thread.
Settle(c, req, tree, out) ==
  /\ fs' = tree
  /\ Answer(c, req, out)
  /\ poisoned' = (out = "panic")
  /\ conn' = IF out = "panic" THEN [conn EXCEPT ![c] = "down"] ELSE conn
  /\ fids' = IF out = "panic" THEN [fids EXCEPT ![c] = NoFids] ELSE fids

\* mode_allows_read, mode_allows_write
\* (faulty: ORDWR, OWRITE and OREAD alike)
AllowsWriteAlways(mode) == mode % 4 # 3
AllowsRead(mode) == mode % 4 \in {0, 2, 3}
AllowsWrite(mode) == mode % 4 \in {1, 2} \/ (mode \div 16) % 2 = 1

(***************************************************************************)
(* Connections                                                             *)
(***************************************************************************)
Accept(c) ==
  /\ conn[c] = "down"
  /\ conn' = [conn EXCEPT ![c] = "up"]
  /\ fids' = [fids EXCEPT ![c] = NoFids]
  /\ Answer(c, "none", "ok")
  /\ UNCHANGED <<fs, poisoned>>

\* end of file, a frame that does not parse, a send that fails: the thread
\* returns and with it goes its table
Hangup(c) ==
  /\ Up(c)
  /\ conn' = [conn EXCEPT ![c] = "down"]
  /\ fids' = [fids EXCEPT ![c] = NoFids]
  /\ Answer(c, "none", "ok")
  /\ UNCHANGED <<fs, poisoned>>

(***************************************************************************)
(* Requests that never take the mutex.  Tversion keeps the fids.           *)
(***************************************************************************)
HandleVersionAuthFlush(c, req) ==
  /\ Up(c)
  /\ req \in {"Tversion", "Tauth", "Tflush"}
  /\ Answer(c, req, "ok")
  /\ UNCHANGED <<fs, poisoned, fids, conn>>

HandleClone(c, f, newfid) ==
  \/ UnknownFid(c, f, "Tclone")
  \/ /\ Known(c, f)
     /\ fids' = [fids EXCEPT ![c][newfid] = fids[c][f]]
     /\ Answer(c, "Tclone", "ok")
     /\ UNCHANGED <<fs, poisoned, conn>>

HandleClunk(c, f) ==
  /\ Up(c)
  /\ fids' = [fids EXCEPT ![c][f] = NoFid]
  /\ Answer(c, "Tclunk", "ok")
  /\ UNCHANGED <<fs, poisoned, conn>>

(***************************************************************************)
(* Requests that read the tree                                             *)
(***************************************************************************)
HandleAttach(c, f) ==
  /\ Up(c)
  /\ \/ LockPanics(c, "Tattach")
     \/ /\ ~poisoned
        /\ Answer(c, "Tattach", IF Exists(fs, Root) THEN "ok" ELSE "error")
        /\ fids' = IF Exists(fs, Root)
                   THEN [fids EXCEPT ![c][f] = [path |-> Root, mode |-> NoMode]]
                   ELSE fids
        /\ UNCHANGED <<fs, poisoned, conn>>

\* a fid that is not known stands for the root
WalkBase(c, f) == IF fids[c][f] = NoFid THEN Root ELSE PathOf(c, f)

WalkTarget(c, f, components) == Steps(WalkBase(c, f), components)[Len(components)]

\* faulty: a walk without components trusts the fid it starts from
WalkFindsUnchecked(c, f, components) == WalkSucceeds(fs, WalkBase(c, f), components)

WalkFinds(c, f, components) ==
  WalkSucceeds(fs, WalkBase(c, f), components) /\ Exists(fs, WalkTarget(c, f, components))

\* faulty: base_state is cloned with its open mode
WalkedFidOpen(c, f, components) ==
  [path |-> WalkTarget(c, f, components),
   mode |-> IF fids[c][f] = NoFid THEN NoMode ELSE fids[c][f].mode]

WalkedFid(c, f, components) == [path |-> WalkTarget(c, f, components), mode |-> NoMode]

\* expect("root should exist"), before the walk and under a guard of its own
NoRootFor(c, f) == fids[c][f] = NoFid /\ ~Exists(fs, Root)

HandleWalk(c, f, newfid, components) ==
  /\ Up(c)
  /\ \/ LockPanics(c, "Twalk")
     \/ ~poisoned /\ NoRootFor(c, f) /\ Settle(c, "Twalk", fs, "panic")
     \/ /\ ~poisoned /\ ~NoRootFor(c, f)
        /\ ~WalkFinds(c, f, components)
        /\ SendError(c, "Twalk")
     \/ /\ ~poisoned /\ ~NoRootFor(c, f)
        /\ WalkFinds(c, f, components)
        /\ fids' = [fids EXCEPT ![c][newfid] = WalkedFid(c, f, components)]
        /\ Answer(c, "Twalk", "ok")
        /\ UNCHANGED <<fs, poisoned, conn>>

HandleStat(c, f) ==
  \/ UnknownFid(c, f, "Tstat")
  \/ Known(c, f) /\ LockPanics(c, "Tstat")
  \/ Known(c, f) /\ ~poisoned /\ ~Exists(fs, PathOf(c, f)) /\ SendError(c, "Tstat")
  \/ /\ Known(c, f)
     /\ ~poisoned
     /\ Exists(fs, PathOf(c, f))
     /\ Answer(c, "Tstat", "ok")
     /\ UNCHANGED <<fs, poisoned, fids, conn>>

HandleOpen(c, f, mode) ==
  \/ UnknownFid(c, f, "Topen")
  \/ Known(c, f) /\ LockPanics(c, "Topen")
  \/ Known(c, f) /\ ~poisoned /\ ~Exists(fs, PathOf(c, f)) /\ SendError(c, "Topen")
  \/ /\ Known(c, f)
     /\ ~poisoned
     /\ Exists(fs, PathOf(c, f))
     /\ fids' = [fids EXCEPT ![c][f] = [path |-> PathOf(c, f), mode |-> mode]]
     /\ Answer(c, "Topen", "ok")
     /\ UNCHANGED <<fs, poisoned, conn>>

\* "fid not open" and "not open for read" are found before the mutex is taken
MayRead(c, f) == fids[c][f].mode # NoMode /\ AllowsRead(fids[c][f].mode)

\* "file missing during read": the root, once a Twstat took its DMDIR bit
Readable(p) == Exists(fs, p) /\ (fs[p].dir \/ p # Root)

HandleRead(c, f, offset, count) ==
  \/ UnknownFid(c, f, "Tread")
  \/ Known(c, f) /\ ~MayRead(c, f) /\ SendError(c, "Tread")
  \/ Known(c, f) /\ MayRead(c, f) /\ LockPanics(c, "Tread")
  \/ /\ Known(c, f) /\ MayRead(c, f)
     /\ ~poisoned /\ ~Readable(PathOf(c, f))
     /\ SendError(c, "Tread")
  \/ /\ Known(c, f) /\ MayRead(c, f)
     /\ ~poisoned /\ Readable(PathOf(c, f))
     /\ \/ /\ ReadPanics(offset, count)       \* the guard is gone by then
           /\ ThreadDies(c, "Tread")
           /\ UNCHANGED <<fs, poisoned>>
        \/ /\ ~ReadPanics(offset, count)
           /\ Answer(c, "Tread", "ok")
           /\ UNCHANGED <<fs, poisoned, fids, conn>>

(***************************************************************************)
(* Requests that change the tree                                           *)
(***************************************************************************)
\* what the reply makes of an Option
OutcomeOf(out, none) ==
  IF out = "some" THEN "ok" ELSE IF out = "none" THEN none ELSE "panic"

\* the fid stays where it was; stat(new_path).unwrap() panics if nothing is there
HandleCreate(c, f, component, isDir) ==
  LET path    == ResolveStep(PathOf(c, f), component)
      created == IF isDir THEN CreateDir(fs, path) ELSE CreateFile(fs, path)
  IN  \/ UnknownFid(c, f, "Tcreate")
      \/ Known(c, f) /\ component = NoComponent /\ SendError(c, "Tcreate")
      \/ Known(c, f) /\ component # NoComponent /\ LockPanics(c, "Tcreate")
      \/ /\ Known(c, f) /\ component # NoComponent
         /\ ~poisoned /\ Exists(fs, path)
         /\ SendError(c, "Tcreate")
      \/ /\ Known(c, f) /\ component # NoComponent
         /\ ~poisoned /\ ~Exists(fs, path)
         /\ Len(path) <= MaxDepth
         /\ Settle(c, "Tcreate", created, IF Exists(created, path) THEN "ok" ELSE "panic")

MayWrite(c, f) == fids[c][f].mode # NoMode /\ AllowsWrite(fids[c][f].mode)

\* a path that is gone is no error: the Rwrite says 0 bytes were written
HandleWrite(c, f, offset, bytes) ==
  \/ UnknownFid(c, f, "Twrite")
  \/ Known(c, f) /\ ~MayWrite(c, f) /\ SendError(c, "Twrite")
  \/ Known(c, f) /\ MayWrite(c, f) /\ LockPanics(c, "Twrite")
  \/ /\ Known(c, f) /\ MayWrite(c, f) /\ ~poisoned
     /\ LET result == WriteAt(fs, PathOf(c, f), offset, bytes)
        IN  Settle(c, "Twrite", result.tree, OutcomeOf(result.out, "zero"))

\* no open mode is asked for; a stat that cannot be decoded is an error, not the end of the
\* connection
HandleWstat(c, f, st) ==
  \/ UnknownFid(c, f, "Twstat")
  \/ Known(c, f) /\ SendError(c, "Twstat")
  \/ Known(c, f) /\ LockPanics(c, "Twstat")
  \/ /\ Known(c, f) /\ ~poisoned
     /\ LET result == WstatFromStat(fs, PathOf(c, f), st)
        IN  Settle(c, "Twstat", result.tree, OutcomeOf(result.out, "error"))

\* the fid goes whether or not there was something to remove
\* (faulty: a poisoned mutex is entered all the same)
HandleRemovePoisoned(c, f) ==
  \/ UnknownFid(c, f, "Tremove")
  \/ /\ Known(c, f)
     /\ LET result == RemovePath(fs, PathOf(c, f))
        IN  /\ fs' = result.tree
            /\ Answer(c, "Tremove", IF result.out = "some" THEN "ok" ELSE "error")
     /\ fids' = [fids EXCEPT ![c][f] = NoFid]
     /\ UNCHANGED <<poisoned, conn>>

HandleRemove(c, f) ==
  \/ UnknownFid(c, f, "Tremove")
  \/ Known(c, f) /\ LockPanics(c, "Tremove")
  \/ /\ Known(c, f) /\ ~poisoned
     /\ LET result == RemovePath(fs, PathOf(c, f))
        IN  /\ fs' = result.tree
            /\ Answer(c, "Tremove", IF result.out = "some" THEN "ok" ELSE "error")
     /\ fids' = [fids EXCEPT ![c][f] = NoFid]
     /\ UNCHANGED <<poisoned, conn>>

Next ==
  \E c \in Client :
    \/ Accept(c) \/ Hangup(c)
    \/ \E req \in {"Tversion", "Tauth", "Tflush"} : HandleVersionAuthFlush(c, req)
    \/ \E f \in Fid :
         \/ HandleClunk(c, f) \/ HandleAttach(c, f) \/ HandleStat(c, f) \/ HandleRemove(c, f)
         \/ \E newfid \in Fid : HandleClone(c, f, newfid)
         \/ \E newfid \in Fid, components \in Walks : HandleWalk(c, f, newfid, components)
         \/ \E mode \in OpenMode : HandleOpen(c, f, mode)
         \/ \E offset \in Offset, count \in Count : HandleRead(c, f, offset, count)
         \/ \E component \in Component, isDir \in BOOLEAN : HandleCreate(c, f, component, isDir)
         \/ \E offset \in Offset, bytes \in Buffer : HandleWrite(c, f, offset, bytes)
         \/ \E st \in NewStat : HandleWstat(c, f, st)

Spec == Init /\ [][Next]_vars

------------------------------------------------------------------------------
(***************************************************************************)
(* Invariants                                                              *)
(***************************************************************************)
Inode == [name : Name \cup {"/"}, dir : BOOLEAN, data : Seq(Byte)]

\* Every variable holds what its Rust counterpart can hold.
TypeOK ==
  /\ DOMAIN fs \subseteq Path
  /\ \A p \in DOMAIN fs : fs[p] \in Inode
  /\ poisoned \in BOOLEAN
  /\ fids \in [Client -> [Fid -> FidState \cup {NoFid}]]
  /\ conn \in [Client -> {"up", "down"}]
  /\ reply \in [client : Client, req : Request \cup {"none"}, out : Outcome]

\* The root is always there (handle_walk expects it), whatever exists has all
\* its ancestors, and an Inode is filed under its own name: the name a directory
\* read shows is the one a walk will find.  Renames, creations through stale fids
\* and removals of whole subtrees have to keep it so.
TreeIntact ==
  /\ Root \in DOMAIN fs
  /\ PrefixClosed(fs)
  /\ NamedByKey(fs)

(***************************************************************************)
(* Action properties                                                       *)
(***************************************************************************)
Replied(req, out) == reply'.req = req /\ reply'.out = out

\* An Rerror means that nothing happened: no file, no directory and no fid is
\* other than before, of whichever client, except the fid a Tremove was sent on.
\* A Twstat that changes the mode and then finds the new name taken must not have
\* changed the mode.
ErrorsChangeNothing ==
  [][reply'.out = "error" =>
       /\ fs' = fs /\ poisoned' = poisoned /\ conn' = conn
       /\ \A c \in Client, f \in Fid :
            fids'[c][f] # fids[c][f] =>
              reply'.client = c /\ reply'.req = "Tremove" /\ fids'[c][f] = NoFid]_vars

\* Once a thread has panicked inside the mutex the tree can never change again,
\* for any connection, and no fid can come to name a path it did not name: only
\* closing, cloning and clunking are left.
PoisonFreezesTheTree ==
  [][poisoned =>
       /\ poisoned' /\ fs' = fs
       /\ \A c \in Client, f \in Fid :
            fids'[c][f] # fids[c][f] =>
              fids'[c][f] \in {NoFid} \cup {fids[c][g] : g \in Fid}]_vars

\* The unwraps and expects of the handlers hold: while the mutex is healthy a thread panics
\* only in Vec::resize, or in the arithmetic and the slice around it, that is in a Twrite or
\* a Twstat, which poison the mutex; or, where overflow is checked, in the sum of a Tread,
\* which does not.  A release build never slices with the wrapped end of a Tread.
OnlyResizePanics ==
  [][~poisoned /\ reply'.out = "panic" =>
       \/ reply'.req \in {"Twrite", "Twstat"} /\ poisoned'
       \/ reply'.req = "Tread" /\ OverflowChecks /\ ~poisoned']_vars

\* A Tcreate adds: whatever exists stays, with all it holds, although create_file
\* replaces what it finds.  What it adds hangs together: the new path and those of
\* its ancestors that were missing because the fid was stale.
CreateNeverClobbers ==
  [][Replied("Tcreate", "ok") =>
       /\ \A p \in DOMAIN fs : p \in DOMAIN fs' /\ fs'[p] = fs[p]
       /\ \E p \in DOMAIN fs' \ DOMAIN fs : DOMAIN fs' = DOMAIN fs \cup Prefixes(p)]_vars

\* A Twstat loses no Inode, neither one already under the new name nor one below
\* the old: their number stays, and what is not at or below the path of a fid its
\* client holds keeps its place and its contents.
RenameKeepsEveryInode ==
  [][reply'.req = "Twstat" /\ fs' # fs =>
       /\ Cardinality(DOMAIN fs') = Cardinality(DOMAIN fs)
       /\ \E f \in Fid :
            /\ fids[reply'.client][f] # NoFid
            /\ \A q \in DOMAIN fs \ Below(fs, PathOf(reply'.client, f)) :
                 q \in DOMAIN fs' /\ fs'[q] = fs[q]]_vars

\* A path comes to exist only through a Tcreate or a rename, and stops existing
\* only through a Tremove or a rename, of that path or of one above it and by a
\* client that holds a fid there.  A Twrite through the stale fid of a removed
\* file does not bring it back.
PathsComeAndGo ==
  [][/\ DOMAIN fs' \ DOMAIN fs # {} => reply'.req \in {"Tcreate", "Twstat"}
     /\ \A p \in DOMAIN fs \ DOMAIN fs' :
          /\ reply'.req \in {"Tremove", "Twstat"}
          /\ \E f \in Fid : /\ fids[reply'.client][f] # NoFid
                            /\ IsPrefix(PathOf(reply'.client, f), p)]_vars

\* Bytes of a file that stays where it is change only by a Twrite through a fid
\* its client opened for writing at that very path, which makes it no shorter, or
\* by the length of a Twstat.
WritesNeedWriteMode ==
  [][\A p \in DOMAIN fs \cap DOMAIN fs' :
       fs'[p].data # fs[p].data =>
         \/ reply'.req = "Twstat"
         \/ reply'.req = "Twrite" /\ Len(fs'[p].data) >= Len(fs[p].data) /\ \E f \in Fid :
              /\ fids[reply'.client][f] # NoFid
              /\ PathOf(reply'.client, f) = p
              /\ LET mode == fids[reply'.client][f].mode
                 IN  mode # NoMode /\ (mode % 4 \in {1, 2} \/ (mode \div 16) % 2 = 1)]_vars

\* A fid becomes open, or changes its mode, only by a Topen of its own on a path
\* that exists at that moment, or as the clone of a fid that is open: a walk from
\* an open fid does not hand its mode on.
OpenModesAreGranted ==
  [][\A c \in Client, f \in Fid :
       fids'[c][f] # fids[c][f] /\ fids'[c][f] # NoFid /\ fids'[c][f].mode # NoMode =>
         \/ /\ Replied("Topen", "ok")
            /\ fids'[c][f].path = fids[c][f].path
            /\ Exists(fs, fids[c][f].path)
         \/ Replied("Tclone", "ok") /\ \E g \in Fid : fids'[c][f] = fids[c][g]]_vars

\* A fid that a Tattach or a Twalk establishes names a path that exists when the
\* reply is sent, also when the walk has no components and starts at a stale fid.
NewFidsAreLive ==
  [][\A c \in Client, f \in Fid :
       fids'[c][f] # fids[c][f] /\ reply'.req \in {"Tattach", "Twalk"} /\ reply'.out = "ok" =>
         Exists(fs', fids'[c][f].path)]_vars
==============================================================================
