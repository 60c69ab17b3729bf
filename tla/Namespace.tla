------------------------------ MODULE Namespace ------------------------------
(***************************************************************************)
(* The namespace of libs/planten_ns/src/lib.rs: the ordered list of mounts *)
(* that bind, mount and 10_ns build up, and the mount plan that is         *)
(* replayed from it.  A bind has one path, a union some, a 9P mount its    *)
(* remote path and an address.                                             *)
(***************************************************************************)
EXTENDS Integers, Sequences, FiniteSets, SequencesExt

CONSTANTS
  Target,    \* where things are mounted
  Source,    \* what is mounted there: local paths, and paths on a 9P server
  Addr,      \* addresses of 9P servers
  NoAddr,    \* the address of an entry that is not a 9P mount
  ProcfsTarget, SrvfsTarget,     \* "/proc" and "/srv"
  ProcfsAddr, SrvfsAddr,         \* where 10_ns serves ProcFS and SrvFS
  NoSource                       \* the empty path: the root of a 9P server

Entry == [target : Target, kind : {"bind", "union", "p9"}, paths : Seq(Source), addr : Addr \cup {NoAddr}]

ASSUME NamespaceAssumption ==
  /\ {ProcfsTarget, SrvfsTarget} \subseteq Target
  /\ {ProcfsAddr, SrvfsAddr} \subseteq Addr
  /\ NoSource \in Source
  /\ ProcfsTarget # SrvfsTarget

BindEntry(new, old) == [target |-> new, kind |-> "bind", paths |-> <<old>>, addr |-> NoAddr]
UnionEntry(new, olds) == [target |-> new, kind |-> "union", paths |-> olds, addr |-> NoAddr]
P9Entry(new, addr, path) == [target |-> new, kind |-> "p9", paths |-> <<path>>, addr |-> addr]

(***************************************************************************)
(* ensure_procfs and ensure_srvfs: whatever is on the target will do.      *)
(***************************************************************************)
ProcfsEntry == P9Entry(ProcfsTarget, ProcfsAddr, NoSource)
SrvfsEntry == P9Entry(SrvfsTarget, SrvfsAddr, NoSource)

Taken(mounts, target) == \E i \in 1..Len(mounts) : mounts[i].target = target

\* (faulty: only the very entry counts, not another one on the target)
EnsureExactly(mounts, entry) ==
  IF \E i \in 1..Len(mounts) : mounts[i] = entry THEN mounts ELSE Append(mounts, entry)

Ensure(mounts, entry) ==
  IF Taken(mounts, entry.target) THEN mounts ELSE Append(mounts, entry)

EnsureAll(mounts) == Ensure(Ensure(mounts, ProcfsEntry), SrvfsEntry)

\* ProcFS and SrvFS, mounted at the addresses of 10_ns, never cover an earlier
\* mount on their target
AutoMountsYieldIn(mounts) ==
  \A j \in 1..Len(mounts) :
    mounts[j] \in {ProcfsEntry, SrvfsEntry} =>
      \A i \in 1..(j - 1) : mounts[i].target # mounts[j].target

(***************************************************************************)
(* mount_plan: a union joins the last step of the plan if that is a union  *)
(* on the same target.                                                     *)
(***************************************************************************)
Joins(e, last) == e.kind = "union" /\ last.kind = "union" /\ last.target = e.target

\* (faulty: any earlier union on the target will do)
AddToPlanAnywhere(plan, e) ==
  LET same == {i \in 1..Len(plan) : Joins(e, plan[i])}
  IN  IF same = {} THEN Append(plan, e)
      ELSE [plan EXCEPT ![CHOOSE i \in same : TRUE].paths = @ \o e.paths]

AddToPlan(plan, e) ==
  IF plan # << >> /\ Joins(e, plan[Len(plan)])
  THEN [plan EXCEPT ![Len(plan)].paths = @ \o e.paths]
  ELSE Append(plan, e)

MountPlan(mounts) ==
  LET plan[n \in 0..Len(mounts)] == IF n = 0 THEN << >> ELSE AddToPlan(plan[n - 1], mounts[n])
  IN  plan[Len(mounts)]

-----------------------------------------------------------------------------
(***************************************************************************)
(* What a plan is, said without building it: the list cut wherever two     *)
(* neighbours are not unions on one target, each piece one step that has   *)
(* all the paths of the piece in order.                                    *)
(***************************************************************************)
Cuts(mounts) == {i \in 1..Len(mounts) : i = 1 \/ ~Joins(mounts[i], mounts[i - 1])}

\* the entries that have n cuts up to them
Piece(mounts, n) == {i \in 1..Len(mounts) : Cardinality(Cuts(mounts) \cap (1..i)) = n}

PieceStep(mounts, n) ==
  LET first == Min(Piece(mounts, n))
      last == Max(Piece(mounts, n))
  IN  [target |-> mounts[first].target, kind |-> mounts[first].kind, addr |-> mounts[first].addr,
       paths |-> FlattenSeq([k \in 1..(last - first + 1) |-> mounts[first + k - 1].paths])]

PlanByPieces(mounts) == [n \in 1..Cardinality(Cuts(mounts)) |-> PieceStep(mounts, n)]
==============================================================================
