# A verification development for planten

TLA+ models of the parts of planten in which order, failure or concurrency
matter, the TLC configurations that check them on small instances, and theorems
about them with proofs that TLAPS checks. Paths below are relative to the
repository.

## The system: an inventory

| component | code | state it keeps | operations | what is hard, and what makes it correct |
|---|---|---|---|---|
| in-memory tree | `libs/planten_fs_ramfs/src/lib.rs`, `libs/planten_fs_core` | a tree of Inodes | create, write, remove, wstat (with rename), stat, list | rename and partial failure; the tree keeps its shape and loses nothing |
| RAMFS 9P server | `libs/planten_fs_ramfs/src/server.rs` | one fid table per connection; the tree behind one `Mutex` | fourteen messages | threads, the guard held while sending, poisoning, fids that outlive their files |
| namespace | `libs/planten_ns/src/lib.rs` | an ordered list of mounts | bind, union, 9P mount, the automatic mounts, `mount_plan` | order of mounts is meaning; automatic mounts must not cover others |
| mount store | `ns.json`, used by `bind`, `mount`, `10_ns`, `nsctl` | the file, and a copy in each process | load, change, save | no lock, truncate before write, kills, a shell that saves an old copy, a directory that is looked for anew each time |
| launcher | `10_ns` in command mode | listening sockets, the forked child, its mounts | serve, fork, probe, mount, exec | the parent exits while the child still needs its servers; the child has copies of its locks; launches share two servers that serve one at a time; a union leaves its binds in a directory that is removed |
| ProcFS, SrvFS and servers | `libs/planten_fs_proc`, `libs/planten_fs_srv` | fids; the host underneath | version, attach, walk, open, read, stat, clunk | serial accept loop; the host changes between two looks |
| DevFS, NetFS and servers | `libs/planten_fs_dev`, `libs/planten_fs_net` | fids | as above | little: their trees are fixed |
| 9P client and codec | `libs/planten_9p` | a stream and a tag counter | one call per message | a stream that is out of step, tags that wrap, 16-bit lengths, no timeout |
| kernel, VGA buffer | `kernel/planten_kernel` | cursor and cells | write | nothing: one sequential counter |
| tools, QEMU scripts | `tools/` | none | capture traces | pure I/O |

How they interact: clients talk 9P over TCP to a server; the threads of the RAMFS
server share the tree through its mutex; `10_ns` runs a ProcFS and a SrvFS server
in threads of its own and mounts them by address; `bind`, `mount` and `10_ns`
communicate through `ns.json` only.

The rest of this file says which module models what, what the runs and the
proofs show, and what is left out.

## The modules

In the order in which they build on each other:

| module | models | extends or uses |
|---|---|---|
| `RamTree` | the tree operations of `planten_fs_ramfs/src/lib.rs`, and `resolve_step` of its server, as operators on trees | |
| `RamfsServer` | the RAMFS server with one step per request | `RamTree` |
| `RamfsThreads` | the same server with a step for each thing a thread does | `RamTree`; implements `RamfsServer` |
| `Namespace` | mounts, automatic mounts and `mount_plan` as operators on lists | |
| `NsStore` | `ns.json`, where it is, and the processes that load, change and save it | `Namespace` |
| `Launcher` | `10_ns` as a launcher: its servers, its fork, the replay of the plan | |
| `PseudoTree` | what ProcFS, SrvFS, DevFS and NetFS find at a path, given the host | |
| `PseudoServer` | the servers of those four, each of their two programs | `PseudoTree` |
| `P9Codec` | what the two ends write and read of the body of each message, as operators | |
| `P9Calls` | what a client promises its caller, without tags, streams and bodies | `P9Codec` |
| `P9Client` | the client, the stream and a server | `P9Codec`; implements `P9Calls` |
| `MC...` | values for the constants, views and symmetries | the module they are named after |
| `...Proofs` | theorems and their proofs | the module they are named after |
| `ListProofs` | lemmas on numbers and lists that these need: induction, `Min` and `Max`, `FlattenSeq` | used by `NsStoreProofs`, `P9ClientProofs` and `LauncherProofs` |

**RamTree and RamfsServer.** A path is a sequence of names, and a tree is a
function from the paths that exist to what their Inodes hold; that children are
owned by their parents is the invariant `PrefixClosed`, and that an Inode is
filed under its own name is `NamedByKey`. `fs` is the `RamFs` in the mutex,
`poisoned` the mutex, `fids[c]` the table of the thread of connection `c`, `conn`
whether that thread runs. There is one action for each message, with the errors
the handler sends and the panics it can run into, in the order of the code.
`usize` has `Word` values; a sum wraps or panics as `OverflowChecks` says, and
`Vec::resize` panics above half of `Word`. `reply` records the last request and
its outcome and exists for the action properties only.

**RamfsThreads.** A thread receives, finds its fid, takes the mutex, works under
it, drops the guard before or after it sends (which of the two depends on the
scope of the variable that holds the guard, and differs between the handlers),
updates its table and sends into a socket that holds `SocketRoom` replies.
`Server == INSTANCE RamfsServer WITH ...` is the refinement mapping: a handler
takes effect in its last step under the mutex, and from there to the update of
its table the mapped table is the one it will have.

**NsStore.** Each process loads, edits, truncates and writes, as `fs::write` does,
with others in between; a shell (`10_ns` without a command) stays and saves the
list it loaded at its start again and again; `nsctl` loads and ends. Saves can fail
and processes can be killed at every step. `usable` is which of the two directories
for `ns.json` exist or can be made: `storage_path` looks at it at every load and every
save, and `DirMoves` changes it, so that one process may load from one file and save
to the other. A write over a file that another process has written to since leaves
either list, or a garbled file when the other list is longer (`Written`).
`loaded` (the directory a process loaded from), `alone` (no other process that saves
has run since it loaded), `clean` (nobody has failed, been killed or overlapped) and `ideal` (what each
file would hold if changes were applied at once) are history variables.

**Launcher.** One `10_ns` is a parent and, after the fork, a child; `listener` says
who listens at each of the two fixed ports and which processes hold the socket.
The kernel's part (backlog, close of the last copy, close-on-exec, end of a mount
namespace) is mapped as external. `fork` copies the locks of the standard streams as
the server threads hold them at that moment: `Fork` picks any of `Stream` while a
server of the parent is busy, and a child that prints into one of them is `mute`: it
waits for ever for a thread that it does not have, and keeps the sockets.
A union binds each path to its last name in a fresh temporary directory, where there is
no such name; a path that ends in "/" or "." (`Slashed`) has no last name and is bound to
the temporary directory itself, and those after it may find their names in it (`Binds`).
At the end of the step the `TempDir` is dropped, which removes what is seen in it, through
the binds too: `removed` says which paths that reached. A mount over 9P keeps its connection, and with it
the serial server, until the child ends.

**PseudoServer.** The programs of ProcFS and SrvFS are the same up to names, as are
those of DevFS and NetFS; `program` says which file system is served and by which
of `run_server`, `run_single` and `start_server`. The host changes at any time,
also once between two looks of one handler (`cut` is the number of looks before).

**P9Codec, P9Calls and P9Client.** A body is a sequence of cells: a field of fixed width
is one, and so are a character and a 16-bit length. `Encode` and `Decode` go through
the format of a message; a length is cut to its width and what it counts is not,
so the other end may read something else than was meant. A stat is its fixed part and
its four strings (`Stat`), and `Fit` says which values a format takes. `P9Client` has one step for
a call (encode, take a tag, write), one for the reply (compare tags, check the type,
decode) and one for the end of the stream. The server takes requests in order and answers
what it has decoded (`Serve`). What becomes of a body that cannot be decoded depends on the message:
most end the connection (`Drop`); a Twstat does not, for ramfs answers "invalid stat format";
a Tauth and a Tflush are answered whatever follows them (`Acknowledge`); and every message of
`RefusalFormat` may be answered with Rerror before more of it has been read, over a fid or a
name that is not there or a type that the server does not know (`Refuse`). Two faults come on
top: the server hangs up at any time, or sends the last reply once more.
`P9Calls` has a log of what was asked, executed and returned, and nothing else; `Calls == INSTANCE P9Calls` maps it to the history variable `log`.

`mount_plan`, `bind` and `mount` come together in `NsStore`; `Launcher` takes the
plans that `Namespace` makes (`MCLauncher!AutoPlan` is the plan of a list that
`ensure_procfs` and `ensure_srvfs` have been at) and the servers whose requests
`PseudoServer` models.

## The runs

| run | states | question | bounds, and why they do |
|---|---|---|---|
| `RamfsTree` | 60 104 | does the tree keep its shape, lose nothing and change only where it is asked to, under creates, renames, resizes and removes by two clients, with stale fids and a poisoned mutex | depth 2, so that a rename moves a subtree and a stale fid has a missing parent; two names, for a rename onto another; `Word` 8 |
| `RamfsData` | 40 530 | do errors, poison, panics and open modes do what they say, in a release build at the edges of `usize` | two fids, to clone and walk onto another; lengths 0, 3 and 4 around the largest `Vec` (3); offsets 0, 1, 7; one name to create again, also below a file that is gone |
| `RamfsThreads` | 409 178 | do threads exclude each other, and do they together implement `RamfsServer` | two threads, one fid each, every kind of handler, overflow and resize panics included |
| `RamfsFlow` | 45 376 | does the guard always come back, is everybody answered, and what can a client hold up that does not read | one reply per socket: a sender blocks at once; a handler of each way to send |
| `NsStore` | 1 547 733 | what can `ns.json` never hold, what is lost, what is overwritten unread, what is repaired, and is the plan of each list the list with neighbouring unions merged | a command, two shells with a flag and two, an `nsctl`; mounts on `/proc` and `/srv` among them, and unions on one target, next to each other and with a mount between; one move of the directories (`MaxMoves`), which is enough for a load here and a save there |
| `NsStomping` | violation | do the tools keep out of each other's way | two `bind` and a shell, which saves the list of its start |
| `Launcher` | 672 529 | what survives a launch, what takes a mount away, what strikes a child dumb, what does a union remove, does a shell serve every launch | a shell and two commands, which all compete for the ports; one command mounts both servers, the other SrvFS, so that one is held while the other is waited for; each kind of step occurs, and a union with a path of each kind |
| `LauncherAlone` | violation | does a `10_ns` with a command launch it | one of them, no shell, the automatic plan |
| `LauncherUnion` | violation | does a union show its paths | one bind and one union of two paths that end in a name |
| `PseudoServers` | 2 900 | what do the four servers answer while the host changes | names for every shape of path each server knows, up to two per walk, so depth 3 needs a second walk; two connections of two fids |
| `PseudoSerial` | 1 951 | is nobody left waiting behind a connection that ended | two connections, one served at a time |
| `P9Client` | 271 034 | does a call get its own answer or an error, also behind a reply too many, a cut length or a lost connection, and does it return where the server answers or goes | four calls with three tags (`TagModulus`), so that the fourth has the tag of the first; lengths modulo 8 (`LengthModulus`), with strings, names and stats cut to nothing, to one and to an end inside; two replies too many (`MaxStrays`) |

Views and symmetry: `reply` is left out of the fingerprints of the safety runs.
It is read by action properties only, and only as `reply'`; they are evaluated on
every step that is generated, whether its state has been seen before or not.
Clients, fids and names are interchangeable in the sets the runs use (the sets
of walks and components are closed under the exchange), and no run with a symmetry
checks liveness. Where a run has `CHECK_DEADLOCK FALSE`, processes end and nobody
has to start another, or a server that has ended over a panic stays ended.

### Fairness

`RamfsThreads!LiveSpec`: a thread that can take a step takes one in the end. That
is what the operating system does; nobody is assumed to connect, send or close.
That clients read is not the server's to give, so it is a hypothesis of the
properties that need it (`Reads(c)`), of all clients in `GuardComesBack`, of the
one client in `StallsSpareTheTable`. `std::sync::Mutex` promises no order, so
`NobodyWaitsForNothing` allows for a thread that others keep overtaking.

`Launcher!LiveSpec`: forked children and server threads are scheduled, and commands end
(with them go the mounts that keep a serial server busy). No parent has to leave, a shell
or another, and nobody has to start anything. `ShellsServeLaunches` speaks of
launches whose plans mount ProcFS before SrvFS, as the automatic mounts do, and of ports that
a shell serves.

`P9Client!LiveSpec`: the client's thread is scheduled, and that is all. A server owes nothing: its
handler may wait for a mutex that is held for a client which does not read, a serial server may be
busy with somebody else, and the process that accepted may be gone while a child of it has the
socket. That the server answers or goes is therefore a hypothesis (`ServerAnswers`), and
`CallsReturn` says that nothing else can keep a call waiting: not a reply that an earlier
call took, not a stream that has ended. There is no timeout, so where the
hypothesis fails the call does wait for ever; `LauncherAlone` shows one.

`PseudoServer!LiveSpec`: the accepting thread is scheduled. When a client leaves is its own
affair, so `NobodyWaitsForEver` has it as a hypothesis (`ClientsLeave`): a client that
stays does keep everybody else waiting at a serial server, which is a hazard of the code
(`planten_fs_srv/src/server.rs:25`) and the reason why `ShellsServeLaunches` needs commands that end.

### What the violations say

* `NsStomping`: `docs/architecture.md:25` says that the JSON strategy "prevents the
  command-line tools from stomping on each other". Two `bind` load the same file,
  and the one that saves last undoes the other's mount. The shell of the run does the same
  without loading anything: it saves the list of its start after every builtin.
* `LauncherAlone`: in command mode the parent returns from `main` right after the
  fork, and the ProcFS and SrvFS servers end with it. If nobody else serves the
  two ports, the child's own copies of the listening sockets let it connect, and
  it waits for an answer for ever. `ShellsServeLaunches` in `Launcher` is the other
  side: while a shell serves the ports, all launches with the
  automatic plan get through.
* `LauncherUnion`: the paths of a union are bound to names in a fresh temporary
  directory in which nothing has been created, so every one of these mounts
  fails, and the empty directory is mounted. (A path that ends in "/" or "." is bound, to the
  directory itself; see below for what becomes of it.)

Met while modelling, without a run of their own:

* `README.md:32` and `README.md:44` (of the repository) speak of automatic mounts of ProcFS, NetFS, DevFS and
  SrvFS; `10_ns.rs:50-54` makes those of ProcFS and SrvFS only.
* `docs/architecture.md:43-45` has the `10_ns` shell launch processes "inside the
  constructed namespace"; the commands of its prompt (`10_ns.rs:147-162`) run in the
  shell's own, and nothing is replayed.
* SrvFS answers for the `ctl` of a service that does not exist
  (`planten_fs_srv/src/lib.rs:104`), hence the exception in `AnswersShowTheLiving`.
* `Tattach` of ProcFS and SrvFS gives the root the qtype 0x00 and says "Directory" in
  the comment beside it (`planten_fs_proc/src/server.rs:85`). A `Twalk` without names in DevFS and NetFS
  gives the new fid the qid of the root, whatever file it was cloned from
  (`planten_fs_dev/src/server.rs:117`). The models have both as they are, and no property is about qids.
* A union path that ends in "/" or "." is bound to the temporary directory itself, and the
  drop of its `TempDir` (`10_ns.rs:238`) then empties the user's directory through the bind.
  `RemovalStaysOutside` says that a union without such a path is not touched.
* Two launches whose plans mount ProcFS and SrvFS in opposite orders can wait for each other
  for ever, each with the one server and in the backlog of the other; so
  does one whose plan mounts the same serial server twice. `AutomaticOrder` is the hypothesis that
  excludes both.
* `10_ns` uses `planten_fs_proc` and `planten_fs_srv`, which the `Cargo.toml` of
  `planten_coreutils` does not name, so that it does not build as it is. The models
  take the source as it is written.

## What is proved

All theorems hold for every set of clients, fids, names, paths and requests, under
the assumptions that the modules declare about their constants
(`TreeAssumption`, `ServerAssumption`, `ThreadsAssumption`, `NamespaceAssumption`,
`StoreAssumption`, `LauncherAssumption`, the two of `PseudoServer` and its tree,
`CodecAssumption`, `ClientAssumption`), which TLC evaluates in the runs. They say what kind
of thing a constant is and no more: that the tree starts with finitely many files, that
requests carry what the handlers read of them, that `Nobody` is neither a connection nor a
listener, that the entries of DevFS do not go away, that there are answers to the requests that
are made and that the values a message carries fit the fields of its format. No theorem has a
hypothesis of its own.

* **`RamTreeProofs`** has the lemmas about the tree: each operation takes a tree to a
  tree, above all `MovedKeepsTree` (a rename takes a subtree along, keeps ancestors
  and gives the root of the subtree its new name) and `CreateAdds`; `WriteAtStays` and
  `WstatStays` say what stays where it was, and `MovedCounts` that a rename is a bijection
  of the paths before and after (`Graft` is the map), so that their number stays.
* **`RamfsServerProofs`**: `IInv == TypeOK /\ TreeIntact` is inductive. Neither half is
  without the other: a rename keeps the names right only in a tree that has all
  ancestors, and the operations keep the tree in type only when the paths of fids
  are. From it follow `TypeCorrect` and `TreeStaysIntact`, and then, action by action,
  `ErrorsAreHarmless`, `PoisonIsForEver`, `UnwrapsHold`, `CreateOnlyAdds` and
  `EstablishedFidsAreLive`. `TreeSteps` sorts the steps by what they do to the tree
  (`Creates`, `Writes`, `Restats`, `Removes`), which gives `PathsHaveReasons` and
  `BytesNeedWriteMode`; `OpeningIsGranted` is about the tables. `RenamesLoseNothing`
  counts, and a bijection says something about a count only in a finite tree: `FiniteTree`
  is the invariant it needs.
* **`RamfsThreadsProofs`**: `GuardInv` (the types of `pc` and `lock`, and `OneThreadInside`)
  is inductive, which gives `MutualExclusion`. `ThreadsImplementServer` is the refinement:
  `ThreadInv` adds to `GuardInv` what the one-step server would find when a handler takes
  effect, for each thread on its way there (`Placed`): its request has not been refused, its table is
  what it was, the mutex was healthy when it was taken, and what a `Tcreate` did not see
  is still not there when it creates. None of this is inductive without mutual exclusion:
  `OthersStayPlaced` needs that whoever changes the tree or poisons the mutex holds the guard.
  `SameTree` equates the operators of the instance with those of the module, the `Seems`
  lemmas say what the mapping shows of a thread at each place, and then there is one lemma
  for each kind of step: those that have no effect (`QuietSteps`), that are refused, that
  know the table only, that run into poison, that read and that write the tree.
* **`NsStoreProofs`**: `StoreInv` adds to `TypeOK` that a process has been given no more
  than it wants, nothing before its edit, and that every list, on disk and in
  memory, is a good one: it has only what has been asked for, and its automatic
  mounts yield. The two properties go together since a list is merged out of both.
  It speaks of every file, the ones that no process looks at any more included. From
  it follow `StoreTypeCorrect`, `NothingInvented` and `AutoMountsAlwaysYield`. `AloneInv`
  says that nobody else saves while a process runs alone, and that the file such a
  process has open is still the empty one it made; `AloneRepairs` follows. It
  promises a whole file and not the lost entries: who finds a garbled file takes it for an
  empty list. What a process that runs alone may never do, overwrite entries that it has not read, is
  `FoundStaysKept`: `FoundInv` adds to `AloneInv` that such a process has in memory whatever is in the
  file it loaded from. The directories must not have moved in between, for then the save goes to
  a file nobody has looked at, and its entries are lost. `NothingIsLostAlone`
  rests on `CleanInv`: while nothing has failed and nobody has overlapped, at most one process
  saves, what it has in memory is what the ideal store holds, the file it has open is the
  empty one it made, and every other file holds what it should. The property itself is not
  inductive, for it says nothing while a save is under way. A kill or a failed write ends `clean`, and does
  lose what the file held. `PlansArePieces` is about
  `mount_plan`: `PlanOfPieces` goes through a list entry by entry and shows how each one
  changes the cuts, the last piece and the paths of its step (`ReadsOn`), for any list.
* **`ListProofs`**: induction over data needs an operator for the claim, which the provers
  cannot instantiate. A set does: `UpTo` says that a set of numbers which has 0, and each number
  whose predecessor it has, has them all; it goes by a least number that is missing (`LeastOf`,
  from the library's theorem that `<` is well-founded). The claim about lengths becomes
  the set of lengths of which it holds. What the recursive functions of the models compute
  (`MountPlan`, `Strings`, `Decode`) is proved by it, and so is that they are defined.
* **`LauncherProofs`**: `LaunchInv` says of every socket and connection where it is: who holds
  a listener and since which step (`Owners`), that a child has copies of connections only after its
  fork (`Heirs`), that no connection is dialled twice and a child waits for one at a time
  (`Dials`), that the lines of listeners are without repetition and nobody is in the line
  of a closed one (`Lines`), and that a server serves one connection while its parent
  runs (`Served`). `NothingOutlives` follows from it. `MountInv` goes on from there: connections
  are in the line and at the server of the port they were dialled at (`Routes`), what is mounted
  has a connection that is served, broken or half-open (`Mounted`), and a child has a stream
  locked only while it has a copy of another launch's connection (`Locks`). `MountsStayHeld` and
  `MutesInherit` need both invariants: that no exec and no end of another launch takes a mount away
  holds because no connection is dialled twice, and that needs to know how far each child is
  in its plan. `RemovalStays` is about the paths of a union: of those that are bound to the
  temporary directory itself the last one is in sight (`LastOneIsSeen`), and without any nothing is.
* **`P9ClientProofs`**: tags are congruences, which the provers do not reason about, so the
  invariant says them in sums: a frame's tag is as far behind `next_tag` as its call is
  behind the next one, or that much plus `TagModulus` (`Tagged`). Requests are in the
  stream in order (`RequestsInOrder`), replies leave out no call and are behind by no
  more than was sent twice (`RepliesInOrder`), so that within the stream a tag tells its
  call (`TagTells`); and after a wrong tag the next reply is always to an earlier call
  (`Behind`), which `NeverBackInStep` needs to be inductive. `OutOfStepForEver` and
  `ClientTypeCorrect` follow, for every `TagModulus` and every `MaxStrays` below it. What
  bodies decode to does not enter there.

  Of the codec, `BodyRead` says that a body whose strings, names and qids are counted right
  is read as the values that were written, if it is read at all. A cursor `Stands` in a body
  where the encoder put the next field; each decoder leaves it behind that field with
  the value added (`ListRead`, `AllStringsRead`, `NamesRead`, `StatRead`), by induction over the
  strings and over the fields. A stat may still have its own length cut: its strings
  then reach behind the end of the buffer, so `DecodeStat` fails, and that it did not fail gives that
  the length is right. `BodiesRoundTrip` is this for what is asked and answered, for any width
  of a length, and takes from the constants only that values fit their formats
  (`ClientAssumption`), which the types of the code see to. `ClientKeepsPromise` is the
  refinement of `P9Calls`, without a further hypothesis. `CallInv` adds to the invariant of the
  stream that a frame is the request, or the one answer, of the call it belongs to, that
  only the last call is open, and that what was executed or has succeeded was decoded;
  with `TagTells` a reply with the right tag is then the answer to this call. `NoCutStatIsTaken`
  (`CutStatsAreRefused`) follows from `CallInv` and `BodyRead`: a server that answers a Twstat with
  a cut stat at all answers Rerror, and has taken nothing from it.
* **`PseudoServerProofs`**: `PoisonInv` says that after a panic there is no server any
  more, except where each connection has a thread of its own. Without it
  `PoisonSilences` does not follow: `Topen` of DevFS and NetFS takes no mutex, and is
  only silent after a panic because nobody is connected any more. `ErrorsLeaveFids`
  and `OnlyKnownPanics` come from the same case analysis of the requests. `FidInv` adds
  to the types that a server which is one thread has one connection open at a time
  (`OneAtATime`): a panic of that thread drops the fids of that connection only, and would
  leave others on connections that are gone. `ServerTypeCorrect` and
  `OnlyTheLivingAreShown` rest on it, the second with what a path of each shape finds on a host
  (`FoundLives`).

Only model-checked:

* What is liveness: `GuardComesBack`, `NobodyWaitsForNothing`, `StallsSpareTheTable`, `CallsReturn`,
  `ShellsServeLaunches`, `NobodyWaitsForEver`. Fairness is stated with `ENABLED`, which
  the installed provers do not handle.

Every invariant and every safety property of a step that a run checks, and each of the two
refinements, is a theorem.

## What is not modelled

* Inodes have no owner, group or times, qids no versions, and replies no contents:
  the properties here are about which paths, which bytes and which outcome.
* In the models of the servers frames are taken as parsed. What becomes of a body that cannot be decoded,
  the end of the connection or an Rerror according to the message, is in `P9Client` (`Drop`, `Refuse`,
  `Acknowledge`), and in `RamfsServer` for the stat of a Twstat.
* A rename to a name with "/" in it, or to "..", which the server accepts and files
  under that key; failed allocations below the limit of `Vec`, which abort.
* The open mode of the four pseudo servers, which nothing reads; pids that are used
  again; more than one change of the host while one request is handled.
* In `Launcher`: commands that put themselves into the background, how mounts spread to
  the host's namespace, and union paths that end in "..". No run has a plan that mounts one
  serial server twice. How an address
  is read: the probe and the mount read it differently (`10_ns.rs:302`), which shows
  before anything of the launch has happened and depends on the text alone.
* In `P9Client`: the 32-bit size in front of a frame, which is always that of the frame; how
  numbers are laid out in bytes; which bytes are UTF-8 (a string that took its end from
  a length that was cut may or may not be refused). More replies too many than there
  are tags: behind 65 536 of them a wrapped tag would fit (`MaxStrays < TagModulus`).
* The kernel with its VGA buffer is a prototype that prints one line: its cursor is one
  counter that nothing runs beside. The capture tools and the QEMU clients are
  straight-line scripts of client calls for development; what they call is `P9Client`.

## The plan from here

Nothing more of the system that keeps state is left to model, and every safety property is
a theorem. Two hazards have no property, for the reasons that "What is not modelled" gives:
the ctl file of a service that is gone, and the two readings of an address.
