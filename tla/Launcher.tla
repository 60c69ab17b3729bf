------------------------------- MODULE Launcher -------------------------------
(***************************************************************************)
(* 10_ns as a launcher (userspace/planten_coreutils/src/bin/10_ns.rs).     *)
(*                                                                         *)
(* Every 10_ns first tries to serve ProcFS and SrvFS, each in a thread of  *)
(* its own at a fixed address, then either stays at its prompt (a shell)   *)
(* or forks (a command): the parent prints the pid of the child and exits, *)
(* and its servers with it, while the child replays the mount plan, which  *)
(* takes those servers, and executes the command.                          *)
(*                                                                         *)
(* The servers' run_server answers one connection at a time until it is    *)
(* closed.  A forked child holds copies of the parent's sockets until it   *)
(* executes something: as long as it does, the kernel keeps accepting      *)
(* connections to an address that nobody serves.  It also holds a copy of  *)
(* the parent's memory: a lock of stdout or stderr that a server thread    *)
(* had at the fork is never given back there.                              *)
(***************************************************************************)
EXTENDS Integers, Sequences, FiniteSets, SequencesExt

CONSTANTS
  Shell, Command,            \* instances of 10_ns without and with a command
  ProcfsPort, SrvfsPort,     \* PROCFS_ADDR and SRVFS_ADDR
  Path,                      \* local paths; none ends in ".."
  Slashed,                   \* those that end in "/" or "."
  Plan,                      \* the mount plan of each instance
  Nobody                     \* no listener, no connection

Instance == Shell \cup Command
Port == {ProcfsPort, SrvfsPort}
PlanStep == [kind : {"bind"}, path : Path] \cup [kind : {"union"}, paths : Seq(Path)]
              \cup [kind : {"p9"}, port : Port]

Steps(i) == 1..Len(Plan[i])
Conn == UNION {{i} \X Steps(i) \X {"probe", "mount"} : i \in Command}

\* a listening socket, and which processes of its 10_ns have it open
Listener == [owner : Instance, held : (SUBSET {"parent", "child"}) \ {{}}]

ASSUME LauncherAssumption ==
  /\ Shell \cap Command = {}
  /\ ProcfsPort # SrvfsPort
  /\ Slashed \subseteq Path
  /\ Plan \in [Instance -> Seq(PlanStep)]
  /\ Nobody \notin Listener \cup Conn

VARIABLES
  parent,     \* where the process is that was started first
  child,      \* where the forked process, and then the command, is
  step,       \* the step of the plan that the child is at
  shown,      \* what the child has in its namespace: pairs of a step of the plan
              \* and what is seen there
  removed,    \* paths that a removal of a temporary directory got into
  listener,   \* who listens at each port, and which of its processes hold the socket
  queue,      \* connections that wait to be accepted
  serving,    \* the connection each server is busy with
  conn,       \* where each connection is that its client has open or a server still reads
  inherited,  \* connections whose server end the child got a copy of
  locked      \* streams that were locked when the child was forked

vars == <<parent, child, step, shown, removed, listener, queue, serving, conn, inherited, locked>>
net == <<listener, queue, serving, conn, inherited, locked>>

ParentLabel == {"off", "procfs", "up", "leaving", "gone"}
ChildLabel == {"none", "forked", "next", "probing", "mount", "mounting", "mute", "running", "ended"}

\* the child is still the program 10_ns: it has not executed anything
Forked(i) == child[i] \in ChildLabel \ {"none", "running", "ended"}

Init ==
  /\ parent = [i \in Instance |-> "off"]
  /\ child = [i \in Instance |-> "none"]
  /\ step = [i \in Instance |-> 1]
  /\ shown = [i \in Instance |-> {}]
  /\ removed = [i \in Instance |-> {}]
  /\ listener = [p \in Port |-> Nobody]
  /\ queue = [p \in Port |-> << >>]
  /\ serving = [p \in Port |-> Nobody]
  /\ conn = [c \in Conn |-> "none"]
  /\ inherited = [i \in Instance |-> {}]
  /\ locked = [i \in Instance |-> {}]

(***************************************************************************)
(* The servers: bind may find the port taken, by this program or another   *)
(* 10_ns, and then there is no server in this process.  run_server accepts *)
(* the next connection when it is through with one.                        *)
(***************************************************************************)
Bind(i, p) ==
  listener' = IF listener[p] = Nobody
              THEN [listener EXCEPT ![p] = [owner |-> i, held |-> {"parent"}]]
              ELSE listener

StartProcfs(i) ==
  /\ parent[i] = "off"
  /\ Bind(i, ProcfsPort)
  /\ parent' = [parent EXCEPT ![i] = "procfs"]
  /\ UNCHANGED <<child, step, shown, removed, queue, serving, conn, inherited, locked>>

StartSrvfs(i) ==
  /\ parent[i] = "procfs"
  /\ Bind(i, SrvfsPort)
  /\ parent' = [parent EXCEPT ![i] = "up"]
  /\ UNCHANGED <<child, step, shown, removed, queue, serving, conn, inherited, locked>>

Accept(p) ==
  /\ listener[p] # Nobody /\ "parent" \in listener[p].held
  /\ serving[p] = Nobody /\ queue[p] # << >>
  /\ serving' = [serving EXCEPT ![p] = Head(queue[p])]
  /\ queue' = [queue EXCEPT ![p] = Tail(@)]
  /\ conn' = [conn EXCEPT ![Head(queue[p])] = "served"]
  /\ UNCHANGED <<parent, child, step, shown, removed, listener, inherited, locked>>

\* end of file at the server: handle_client returns
Finish(p) ==
  /\ serving[p] # Nobody /\ conn[serving[p]] = "closed"
  /\ serving' = [serving EXCEPT ![p] = Nobody]
  /\ conn' = [conn EXCEPT ![serving[p]] = "none"]
  /\ UNCHANGED <<parent, child, step, shown, removed, listener, queue, inherited, locked>>

(***************************************************************************)
(* Processes that end or execute something close their copies of sockets.  *)
(* A listener closes with its last copy, and resets what waits in its      *)
(* queue; so does the server end of a connection.                          *)
(***************************************************************************)
Owned(i) == {p \in Port : listener[p] # Nobody /\ listener[p].owner = i}

CloseListeners(i, who) ==
  LET closed == {p \in Owned(i) : listener[p].held \subseteq {who}}
  IN  /\ listener' = [p \in Port |->
                        IF p \in closed THEN Nobody
                        ELSE IF p \in Owned(i) THEN [listener[p] EXCEPT !.held = @ \ {who}]
                        ELSE listener[p]]
      /\ queue' = [p \in Port |-> IF p \in closed THEN << >> ELSE queue[p]]

Waiting(i, who) ==
  UNION {ToSet(queue[p]) : p \in {q \in Owned(i) : listener[q].held \subseteq {who}}}

\* the connections that the servers of a 10_ns are busy with
Busy(i) == {serving[p] : p \in Owned(i)} \ {Nobody}

ParentGoes(i) ==
  /\ parent' = [parent EXCEPT ![i] = "gone"]
  /\ CloseListeners(i, "parent")
  /\ serving' = [p \in Port |-> IF p \in Owned(i) THEN Nobody ELSE serving[p]]
  /\ conn' = [c \in Conn |->
                IF c \in Waiting(i, "parent") THEN "broken"
                ELSE IF c \in Busy(i)
                THEN (IF conn[c] = "closed" THEN "none"
                      ELSE IF c \in inherited[i] THEN "stuck" ELSE "broken")
                ELSE conn[c]]
  /\ UNCHANGED <<child, step, shown, removed, inherited, locked>>

\* the copies go; the connections of its own that the child leaves are closed
ChildLets(i, own) ==
  /\ CloseListeners(i, "child")
  /\ conn' = [c \in Conn |->
                IF c \in own THEN (IF conn[c] \in {"served", "closed"} THEN "closed" ELSE "none")
                ELSE IF c \in Waiting(i, "child") \/ (c \in inherited[i] /\ conn[c] = "stuck")
                THEN "broken" ELSE conn[c]]
  /\ inherited' = [inherited EXCEPT ![i] = {}]
  /\ locked' = [locked EXCEPT ![i] = {}]
  /\ UNCHANGED serving

OwnConns(i) == {c \in Conn : c[1] = i}

\* what it had mounted goes with it
ChildEnds(i) ==
  /\ child' = [child EXCEPT ![i] = "ended"]
  /\ shown' = [shown EXCEPT ![i] = {}]
  /\ removed' = [removed EXCEPT ![i] = {}]
  /\ step' = [step EXCEPT ![i] = 1]
  /\ ChildLets(i, OwnConns(i))
  /\ UNCHANGED parent

(***************************************************************************)
(* Command mode: fork, the parent's exit, and the child's way to execvp.   *)
(* A server prints every request it gets, so that one which is busy at the *)
(* fork may have a stream locked.                                          *)
(***************************************************************************)
Stream == {"out", "err"}

\* the streams that the busy servers of a 10_ns may hold, one each at a time
HeldBy(busy) ==
  {{holds[c] : c \in busy} \ {"none"} : holds \in [busy -> Stream \cup {"none"}]}

\* the child gets a copy of each listener
Inherits(i) ==
  listener' = [p \in Port |-> IF p \in Owned(i) THEN [listener[p] EXCEPT !.held = @ \cup {"child"}]
                             ELSE listener[p]]

\* fault: main holds the lock of a stream when it forks
ForkHoldingStreams(i) ==
  /\ i \in Command /\ parent[i] = "up"
  /\ parent' = [parent EXCEPT ![i] = "leaving"]
  /\ child' = [child EXCEPT ![i] = "forked"]
  /\ Inherits(i)
  /\ inherited' = [inherited EXCEPT ![i] = Busy(i)]
  /\ locked' \in {[locked EXCEPT ![i] = ls] : ls \in SUBSET Stream}
  /\ UNCHANGED <<step, shown, removed, queue, serving, conn>>

Fork(i) ==
  /\ i \in Command /\ parent[i] = "up"
  /\ parent' = [parent EXCEPT ![i] = "leaving"]
  /\ \/ /\ child' = [child EXCEPT ![i] = "forked"]
        /\ Inherits(i)
        /\ inherited' = [inherited EXCEPT ![i] = Busy(i)]
        /\ locked' \in {[locked EXCEPT ![i] = ls] : ls \in HeldBy(Busy(i))}
     \/ /\ child' = [child EXCEPT ![i] = "ended"]
        /\ UNCHANGED <<listener, inherited, locked>>
  /\ UNCHANGED <<step, shown, removed, queue, serving, conn>>

\* main returns: in command mode after the fork, in a shell at the end of its input (what a
\* shell starts is waited for and gets none of its sockets: it only puts this off)
ParentExits(i) ==
  /\ \/ parent[i] = "leaving"
     \/ i \in Shell /\ parent[i] = "up"
  /\ ParentGoes(i)

\* fault: the loop over the plan takes one item too many
ChildMovesTwice(i, to, n) ==
  /\ child' = [child EXCEPT ![i] = to]
  /\ step' = [step EXCEPT ![i] = n + 1]
  /\ UNCHANGED <<parent, listener, queue, serving, inherited, locked>>

ChildMoves(i, to, n) ==
  /\ child' = [child EXCEPT ![i] = to]
  /\ step' = [step EXCEPT ![i] = n]
  /\ UNCHANGED <<parent, listener, queue, serving, inherited, locked>>

\* println! and eprintln! wait for the lock of their stream
CanPrint(i, stream) == stream \notin locked[i]

\* the child prints and goes on with the next step, or does not get further
PrintsAndMoves(i, stream) ==
  IF CanPrint(i, stream) THEN ChildMoves(i, "next", step[i] + 1) ELSE ChildMoves(i, "mute", step[i])

\* the child prints why it cannot go on, and ends
GivesUp(i) ==
  IF CanPrint(i, "err") THEN ChildEnds(i)
  ELSE ChildMoves(i, "mute", step[i]) /\ UNCHANGED <<shown, removed, conn>>

Unshare(i) ==
  /\ child[i] = "forked"
  /\ \/ GivesUp(i)
     \/ ChildMoves(i, "next", 1) /\ UNCHANGED <<shown, removed, conn>>

At(i, kind) == child[i] = "next" /\ step[i] \in Steps(i) /\ Plan[i][step[i]].kind = kind

Shows(i, what) == shown' = [shown EXCEPT ![i] = @ \cup {[step |-> step[i], what |-> what]}]

\* a step whose mount fails is reported, and the next one follows
ReplayBind(i) ==
  /\ At(i, "bind")
  /\ ChildMoves(i, "next", step[i] + 1) \/ PrintsAndMoves(i, "err")
  /\ UNCHANGED <<shown, removed, conn>>

\* fault: targets are created in the temporary directory before they are bound to
BindsIfCreated(paths) == SUBSET DOMAIN paths

\* A path is bound to its last name in a fresh directory, where mount finds no such target; but
\* one that ends in "/" or "." is bound to that directory itself, and then those after it may
\* find their names in there.
Binds(paths) ==
  {bound \in SUBSET DOMAIN paths :
     \A n \in bound : \E m \in bound : m <= n /\ paths[m] \in Slashed}

\* a path bound to the directory itself covers those before it
InSight(paths, bound) ==
  {paths[n] : n \in {m \in bound : \A k \in bound : k > m => paths[k] \notin Slashed}}

\* Every path that cannot be bound is reported before the directory is mounted. At the end the
\* directory is dropped, that is removed with all that is seen in it, mounted or not.
ReplayUnion(i) ==
  /\ At(i, "union")
  /\ \/ GivesUp(i)
     \/ /\ \E bound \in Binds(Plan[i][step[i]].paths), mounted \in BOOLEAN :
             IF (mounted /\ bound = DOMAIN Plan[i][step[i]].paths) \/ CanPrint(i, "err")
             THEN LET seen == InSight(Plan[i][step[i]].paths, bound)
                  IN  /\ ChildMoves(i, "next", step[i] + 1)
                      /\ removed' = [removed EXCEPT ![i] = @ \cup seen]
                      /\ IF mounted THEN Shows(i, seen \cap Slashed) ELSE UNCHANGED shown
             ELSE ChildMoves(i, "mute", step[i]) /\ UNCHANGED <<shown, removed>>
        /\ UNCHANGED conn

(***************************************************************************)
(* A 9P step: probe_remote_share talks to the server on a connection that  *)
(* it closes at its end, then mount_9p_target has the kernel open one that *)
(* lives as long as the mount.                                             *)
(***************************************************************************)
Server(i) == Plan[i][step[i]].port
ConnOf(i, use) == <<i, step[i], use>>

Dial(i, use, waiting) ==
  \/ /\ listener[Server(i)] = Nobody
     /\ PrintsAndMoves(i, "err") /\ UNCHANGED <<shown, removed, conn>>
  \/ /\ listener[Server(i)] # Nobody
     /\ queue' = [queue EXCEPT ![Server(i)] = Append(@, ConnOf(i, use))]
     /\ conn' = [conn EXCEPT ![ConnOf(i, use)] = "queued"]
     /\ child' = [child EXCEPT ![i] = waiting]
     /\ UNCHANGED <<parent, step, shown, removed, listener, serving, inherited, locked>>

Probe(i) == At(i, "p9") /\ Dial(i, "probe", "probing")

\* fault: the probe's connection is not closed
ProbeLeaks(i) ==
  /\ child[i] = "probing"
  /\ conn[ConnOf(i, "probe")] \in {"served", "broken"}
  /\ ChildMoves(i, "mount", step[i]) \/ PrintsAndMoves(i, "err")
  /\ UNCHANGED <<shown, removed, conn>>

ProbeEnds(i) ==
  /\ child[i] = "probing"
  /\ LET c == ConnOf(i, "probe")
     IN  \/ /\ conn[c] = "served"
            /\ ChildMoves(i, "mount", step[i]) \/ PrintsAndMoves(i, "err")
            /\ conn' = [conn EXCEPT ![c] = "closed"]
         \/ /\ conn[c] = "broken"
            /\ PrintsAndMoves(i, "err")
            /\ conn' = [conn EXCEPT ![c] = "none"]
  /\ UNCHANGED <<shown, removed>>

Mount(i) ==
  /\ child[i] = "mount"
  /\ \/ Dial(i, "mount", "mounting")
     \/ PrintsAndMoves(i, "err") /\ UNCHANGED <<shown, removed, conn>>

MountEnds(i) ==
  /\ child[i] = "mounting"
  /\ LET c == ConnOf(i, "mount")
     IN  \/ conn[c] = "served" /\ PrintsAndMoves(i, "out") /\ Shows(i, {Server(i)}) /\ UNCHANGED conn
         \/ conn[c] = "served" /\ PrintsAndMoves(i, "err") /\ conn' = [conn EXCEPT ![c] = "closed"]
            /\ UNCHANGED shown
         \/ conn[c] = "broken" /\ PrintsAndMoves(i, "err") /\ conn' = [conn EXCEPT ![c] = "none"]
            /\ UNCHANGED shown
  /\ UNCHANGED removed

\* fault: the sockets are not close-on-exec
SocketsSurviveExec(i) ==
  /\ child[i] = "next" /\ step[i] = Len(Plan[i]) + 1
  /\ child' = [child EXCEPT ![i] = "running"]
  /\ UNCHANGED <<parent, step, shown, removed>> /\ UNCHANGED net

\* fault: the sockets of the mounts belong to the process and are close-on-exec
ExecDropsMounts(i) ==
  /\ child[i] = "next" /\ step[i] = Len(Plan[i]) + 1
  /\ child' = [child EXCEPT ![i] = "running"]
  /\ ChildLets(i, OwnConns(i))
  /\ UNCHANGED <<parent, step, shown, removed>>

Exec(i) ==
  /\ child[i] = "next" /\ step[i] = Len(Plan[i]) + 1
  /\ \/ GivesUp(i)
     \/ /\ child' = [child EXCEPT ![i] = "running"]
        /\ ChildLets(i, {})
        /\ UNCHANGED <<parent, step, shown, removed>>

(***************************************************************************)
(* Commands end, and a mount namespace and its connections with the last   *)
(* process in it.                                                          *)
(***************************************************************************)
CommandEnds(i) ==
  /\ child[i] = "running"
  /\ ChildEnds(i)

ChildStep(i) ==
  \/ Unshare(i)
  \/ ReplayBind(i)
  \/ ReplayUnion(i)
  \/ Probe(i)
  \/ ProbeEnds(i)
  \/ Mount(i)
  \/ MountEnds(i)
  \/ Exec(i)

Next ==
  \/ \E i \in Instance :
       \/ StartProcfs(i)
       \/ StartSrvfs(i)
       \/ Fork(i)
       \/ ParentExits(i)
       \/ ChildStep(i)
       \/ CommandEnds(i)
  \/ \E p \in Port : Accept(p) \/ Finish(p)

Spec == Init /\ [][Next]_vars

\* The children and the server threads are scheduled, and commands end.  Nobody has to start
\* a 10_ns or to leave one.
Fairness ==
  /\ \A i \in Command : WF_vars(ChildStep(i) \/ CommandEnds(i))
  /\ \A p \in Port : WF_vars(Accept(p) \/ Finish(p))

LiveSpec == Spec /\ Fairness

-----------------------------------------------------------------------------

\* What each variable may hold; connections are queued where their step says.
TypeOK ==
  /\ parent \in [Instance -> ParentLabel] /\ child \in [Instance -> ChildLabel]
  /\ step \in [Instance -> Nat \ {0}]
  /\ \A i \in Instance : step[i] <= Len(Plan[i]) + 1
  /\ shown \in [Instance -> SUBSET [step : Nat, what : SUBSET (Path \cup Port)]]
  /\ \A i \in Instance : \A s \in shown[i] : s.step \in Steps(i)
  /\ removed \in [Instance -> SUBSET Path]
  /\ listener \in [Port -> Listener \cup {Nobody}]
  /\ queue \in [Port -> Seq(Conn)]
  /\ serving \in [Port -> Conn \cup {Nobody}]
  /\ conn \in [Conn -> {"none", "queued", "served", "closed", "broken", "stuck"}]
  /\ inherited \in [Instance -> SUBSET Conn]
  /\ locked \in [Instance -> SUBSET Stream]

\* Once the parent is gone its addresses and half-open connections stay behind only until the
\* child executes the command or gives up: the sockets of 10_ns (start_procfs_server,
\* start_srvfs_server) are never inherited by the command.
NothingOutlivesTheLaunch ==
  /\ \A p \in Port : listener[p] # Nobody =>
       parent[listener[p].owner] \notin {"off", "gone"} \/ Forked(listener[p].owner)
  /\ \A c \in Conn : conn[c] = "stuck" => \E i \in Command : c \in inherited[i] /\ Forked(i)

\* What a child has mounted over 9P (mount_9p_target) stays with the server thread that took
\* the connection, also when the child executes the command, until the child ends or the
\* server's 10_ns does; then it is broken, or half-open for as long as a forked child of that
\* 10_ns has a copy of the socket.
MountsAreHeld ==
  \A i \in Instance : \A s \in shown[i] : Plan[i][s.step].kind = "p9" =>
    LET c == <<i, s.step, "mount">>
        p == Plan[i][s.step].port
    IN  \/ /\ conn[c] = "served" /\ serving[p] = c
           /\ listener[p] # Nobody /\ parent[listener[p].owner] \notin {"off", "gone"}
        \/ conn[c] = "broken"
        \/ conn[c] = "stuck" /\ \E j \in Command : c \in inherited[j] /\ Forked(j)

\* A child hangs over the lock of a stream only if, when it was forked, a server thread of its
\* own 10_ns was busy with another launch, whose socket it then keeps: a launch whose servers
\* nobody uses is never struck dumb.
MuteChildrenInherit ==
  \A i \in Instance : child[i] = "mute" => \E c \in inherited[i] : c[1] # i

\* The removal of a union's temporary directory gets into what the union is made of only
\* through a path that ends in "/" or ".", which it then empties: the other paths are not
\* below the temporary directory, since binding them there fails.
RemovalStaysOutside ==
  \A i \in Instance : removed[i] # {} => removed[i] \cap Slashed # {}

\* Every plan mounts each port once at most and ProcFS before SrvFS, as a list does in which
\* ensure_procfs and ensure_srvfs find nothing to keep.
AutomaticOrder ==
  \A i \in Command : \A m, n \in Steps(i) :
    m < n /\ Plan[i][m].kind = "p9" /\ Plan[i][n].kind = "p9" =>
      Plan[i][m].port = ProcfsPort /\ Plan[i][n].port = SrvfsPort

\* A child that is forked while a shell serves both ports, where all plans mount the ports in
\* the automatic order, executes its command or reports why not, unless a shell goes
\* meanwhile: however many such launches share the two serial servers, none waits for ever
\* for a connection, although each keeps the one while it waits for the other. (In opposite
\* orders two launches wait for each other. A child of a 10_ns that serves a port itself is
\* not spoken of.)
ShellsServeLaunches ==
  AutomaticOrder =>
    \A i \in Command :
      (child[i] = "forked" /\ \A p \in Port : listener[p] # Nobody /\ listener[p].owner \in Shell)
        ~> (child[i] \in {"running", "ended"} \/ \E s \in Shell : parent[s] = "gone")

\* ROADMAP.md:226: "a `10_ns` launcher that starts a process in a composed namespace": every
\* child that is forked executes its command or reports why not.
LaunchesTheCommand ==
  \A i \in Command : child[i] = "forked" ~> child[i] \in {"running", "ended"}

\* docs/architecture.md:22-24: replaying "the union/bind operations" reconstructs the view: a
\* union that was mounted shows one of its paths at least.
UnionShowsItsPaths ==
  \A i \in Instance : \A s \in shown[i] : Plan[i][s.step].kind = "union" => s.what # {}

=============================================================================
