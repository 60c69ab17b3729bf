-------------------------------- MODULE NsStore ------------------------------
(***************************************************************************)
(* The mount plan on disk, ns.json, and the processes that share it: the   *)
(* commands bind, mount and nsctl, and the 10_ns shell.  Each loads the    *)
(* file; all but nsctl change the list they have in memory and write the   *)
(* whole list back.  There is no lock, and fs::write truncates the file    *)
(* before it writes.  10_ns loads once, when it starts, and saves what it  *)
(* has in memory after every builtin until it exits.  Where ns.json is,    *)
(* below the home directory or below /srv, is looked up at every load and  *)
(* at every save.                                                          *)
(*                                                                         *)
(* What may go wrong in between: another process, a kill, a write error, a *)
(* directory that comes or goes.                                           *)
(***************************************************************************)
EXTENDS Namespace

CONSTANTS
  Proc,       \* processes that will run, each once
  Shell,      \* those of them that are 10_ns
  Viewer,     \* those that are nsctl; the others are bind or mount
  Wants,      \* the entries each adds, one after the other
  Flags,      \* how many of them a 10_ns is given as flags; it reads the rest
              \* from its prompt
  MayFail,    \* TRUE where processes may be killed and writes may fail
  MaxMoves    \* bound: how often the usable directories change

ASSUME StoreAssumption ==
  /\ Shell \subseteq Proc /\ Viewer \subseteq Proc \ Shell
  /\ Wants \in [Proc -> Seq(Entry)]
  /\ \A p \in Proc : \A i \in 1..Len(Wants[p]) :
       Wants[p][i].addr \notin {ProcfsAddr, SrvfsAddr}     \* servers of their own
  /\ Flags \in [Shell -> Nat]
  /\ \A p \in Shell : Flags[p] <= Len(Wants[p])
  /\ \A p \in Proc \ (Shell \cup Viewer) : Len(Wants[p]) = 1
  /\ MayFail \in BOOLEAN
  /\ MaxMoves \in Nat

VARIABLES
  usable,    \* of the directories for ns.json, those that exist or can be made
  moves,     \* how often that has changed
  disk,      \* ns.json in each: what became of it, and its list if it is whole
  file,      \* the one that each process has open for writing
  pc,        \* where each process is
  mem,       \* the list each process has in memory
  given,     \* how many of its entries each process has added
  alone,     \* history: nobody else who saves ran since this process loaded
  loaded,    \* history: where each process that runs looked for ns.json when it loaded
  clean,     \* history: no two processes that save ever overlapped, none was killed,
             \* no write failed, and directories came and went between them only
  ideal      \* history: while clean, the list that each file would hold if every change
             \* were applied to it at once

place == <<usable, moves>>
vars == <<usable, moves, disk, file, pc, mem, given, alone, loaded, clean, ideal>>

Label == {"start", "edit", "truncate", "write", "prompt", "done"}

\* $HOME/.planten and /srv/planten
Dir == {"home", "srv"}

(***************************************************************************)
(* storage_path: the fallback is not taken for good, it is looked for anew *)
(* every time; without either directory it is an error.                    *)
(***************************************************************************)
StoragePath == IF "home" \in usable THEN "home" ELSE IF "srv" \in usable THEN "srv" ELSE "nowhere"

\* a file that is empty or garbled does not parse
DiskKind == {"absent", "empty", "garbled", "whole"}
Unreadable(kind) == [kind |-> kind, mounts |-> << >>]
Whole(mounts) == [kind |-> "whole", mounts |-> mounts]

Init ==
  /\ usable = Dir /\ moves = 0
  /\ disk = [dir \in Dir \cup {"nowhere"} |-> Unreadable("absent")]
  /\ file = [p \in Proc |-> "nowhere"]
  /\ pc = [p \in Proc |-> "start"]
  /\ mem = [p \in Proc |-> << >>]
  /\ given = [p \in Proc |-> 0]
  /\ alone = [p \in Proc |-> FALSE]
  /\ loaded = [p \in Proc |-> "nowhere"]
  /\ clean = TRUE
  /\ ideal = [dir \in Dir |-> << >>]

Running(p) == pc[p] \notin {"start", "done"}
Saving(p) == p \notin Viewer /\ Running(p)

Goto(p, label) == pc' = [pc EXCEPT ![p] = label]

\* the process ends, or goes on at its prompt; its memory ends with it
Continue(p, label) ==
  /\ Goto(p, label)
  /\ mem' = IF label = "done" THEN [mem EXCEPT ![p] = << >>] ELSE mem
  /\ alone' = IF label = "done" THEN [alone EXCEPT ![p] = FALSE] ELSE alone
  /\ loaded' = IF label = "done" THEN [loaded EXCEPT ![p] = "nowhere"] ELSE loaded

Ideal == IF StoragePath = "nowhere" THEN << >> ELSE ideal[StoragePath]

Ideally(mounts) ==
  ideal' = IF ~clean THEN [dir \in Dir |-> << >>]
           ELSE [dir \in Dir |-> IF dir = StoragePath THEN mounts ELSE ideal[dir]]

(***************************************************************************)
(* load_from_storage: a file that is missing is an empty list, and so,     *)
(* with a message, is one that does not parse or has no directory.         *)
(***************************************************************************)
\* (faulty: a file below the home directory is looked for there only)
LoadFromHome(p) ==
  /\ pc[p] = "start"
  /\ mem' = [mem EXCEPT ![p] = disk["home"].mounts]
  /\ alone' = [q \in Proc |-> IF q = p THEN \A r \in Proc : ~Saving(r)
                              ELSE alone[q] /\ (p \in Viewer \/ ~Running(q))]
  /\ loaded' = [loaded EXCEPT ![p] = StoragePath]
  /\ clean' = (clean /\ (p \in Viewer \/ \A q \in Proc : ~Saving(q)))
  /\ Goto(p, "edit")
  /\ UNCHANGED <<place, disk, file, given, ideal>>

Load(p) ==
  /\ pc[p] = "start"
  /\ mem' = [mem EXCEPT ![p] = disk[StoragePath].mounts]
  /\ alone' = [q \in Proc |-> IF q = p THEN \A r \in Proc : ~Saving(r)
                              ELSE alone[q] /\ (p \in Viewer \/ ~Running(q))]
  /\ loaded' = [loaded EXCEPT ![p] = StoragePath]
  /\ clean' = (clean /\ (p \in Viewer \/ \A q \in Proc : ~Saving(q)))
  /\ Goto(p, "edit")
  /\ UNCHANGED <<place, disk, file, given, ideal>>

\* the command nsctl prints the list and ends
Show(p) ==
  /\ pc[p] = "edit" /\ p \in Viewer
  /\ Continue(p, "done")
  /\ UNCHANGED <<place, disk, file, given, clean, ideal>>

(***************************************************************************)
(* The change in memory                                                    *)
(***************************************************************************)
\* bind adds one entry, and so does mount
HelperAdds(p, mounts) == mounts \o Wants[p]

\* 10_ns first sees to ProcFS and SrvFS, then to its flags
ShellAdds(p, mounts) == EnsureAll(mounts) \o SubSeq(Wants[p], 1, Flags[p])

Edit(p) ==
  /\ pc[p] = "edit" /\ p \notin Shell \cup Viewer
  /\ mem' = [mem EXCEPT ![p] = HelperAdds(p, @)]
  /\ Ideally(HelperAdds(p, Ideal))
  /\ given' = [given EXCEPT ![p] = 1]
  /\ Goto(p, "truncate")
  /\ UNCHANGED <<place, disk, file, alone, loaded, clean>>

StartShell(p) ==
  /\ pc[p] = "edit" /\ p \in Shell
  /\ mem' = [mem EXCEPT ![p] = ShellAdds(p, @)]
  /\ Ideally(ShellAdds(p, Ideal))
  /\ given' = [given EXCEPT ![p] = Flags[p]]
  /\ Goto(p, "truncate")
  /\ UNCHANGED <<place, disk, file, alone, loaded, clean>>

\* (faulty: what was parsed before the flag that lacks an argument is saved)
BadFlagSaves(p) ==
  /\ pc[p] = "edit" /\ p \in Shell
  /\ mem' = [mem EXCEPT ![p] = ShellAdds(p, @)]
  /\ Goto(p, "truncate")
  /\ UNCHANGED <<place, disk, file, given, alone, loaded, clean, ideal>>

\* a flag that lacks an argument: 10_ns returns without saving anything
BadFlag(p) ==
  /\ pc[p] = "edit" /\ p \in Shell
  /\ Continue(p, "done")
  /\ UNCHANGED <<place, disk, file, given, clean, ideal>>

\* the builtins bind and mount, on the list that was loaded at the start
Builtin(p) ==
  /\ pc[p] = "prompt" /\ given[p] < Len(Wants[p])
  /\ mem' = [mem EXCEPT ![p] = Append(@, Wants[p][given[p] + 1])]
  /\ Ideally(Append(Ideal, Wants[p][given[p] + 1]))
  /\ given' = [given EXCEPT ![p] = @ + 1]
  /\ Goto(p, "truncate")
  /\ UNCHANGED <<place, disk, file, alone, loaded, clean>>

\* the builtin nsctl, and a bind or mount with the wrong number of arguments,
\* change nothing and save all the same
Nsctl(p) ==
  /\ pc[p] = "prompt"
  /\ Goto(p, "truncate")
  /\ UNCHANGED <<place, disk, file, mem, given, alone, loaded, clean, ideal>>

Exit(p) ==
  /\ pc[p] = "prompt"
  /\ Continue(p, "done")
  /\ UNCHANGED <<place, disk, file, given, clean, ideal>>

(***************************************************************************)
(* save_to_storage: fs::write opens with O_TRUNC and writes from offset 0. *)
(***************************************************************************)
AfterSave(p) == IF p \in Shell THEN "prompt" ELSE "done"

\* (faulty: without a directory the save goes on all the same)
TruncateNowhere(p) ==
  /\ pc[p] = "truncate"
  /\ disk' = [disk EXCEPT ![StoragePath] = Unreadable("empty")]
  /\ file' = [file EXCEPT ![p] = StoragePath]
  /\ Goto(p, "write")
  /\ UNCHANGED <<place, mem, given, alone, loaded, clean, ideal>>

\* (faulty: the file is opened without O_TRUNC)
TruncateNot(p) ==
  /\ pc[p] = "truncate" /\ StoragePath # "nowhere"
  /\ disk' = IF disk[StoragePath].kind # "absent" THEN disk
             ELSE [disk EXCEPT ![StoragePath] = Unreadable("empty")]
  /\ file' = [file EXCEPT ![p] = StoragePath]
  /\ Goto(p, "write")
  /\ UNCHANGED <<place, mem, given, alone, loaded, clean, ideal>>

Truncate(p) ==
  /\ pc[p] = "truncate" /\ StoragePath # "nowhere"
  /\ disk' = [disk EXCEPT ![StoragePath] = Unreadable("empty")]
  /\ file' = [file EXCEPT ![p] = StoragePath]
  /\ Goto(p, "write")
  /\ UNCHANGED <<place, mem, given, alone, loaded, clean, ideal>>

\* what is in a file after a write over what another process wrote since: the end of that
\* shows when it was longer
Written(old, mounts) ==
  IF old.kind = "empty" \/ old = Whole(mounts) THEN {Whole(mounts)}
  ELSE {Whole(mounts), Unreadable("garbled")}

Write(p) ==
  /\ pc[p] = "write"
  /\ \E new \in Written(disk[file[p]], mem[p]) : disk' = [disk EXCEPT ![file[p]] = new]
  /\ file' = [file EXCEPT ![p] = "nowhere"]
  /\ Continue(p, AfterSave(p))
  /\ UNCHANGED <<place, given, clean, ideal>>

(***************************************************************************)
(* Failures.  An error of save_to_storage is printed and otherwise ignored.*)
(***************************************************************************)
NowhereToSave(p) ==
  /\ pc[p] = "truncate" /\ StoragePath = "nowhere"
  /\ Continue(p, AfterSave(p))
  /\ UNCHANGED <<place, disk, file, given, clean, ideal>>

OpenFails(p) ==
  /\ MayFail
  /\ pc[p] = "truncate" /\ StoragePath # "nowhere"
  /\ clean' = FALSE
  /\ Continue(p, AfterSave(p))
  /\ UNCHANGED <<place, disk, file, given, ideal>>

WriteFails(p) ==
  /\ MayFail
  /\ pc[p] = "write"
  /\ \E new \in {disk[file[p]], Unreadable("garbled")} : disk' = [disk EXCEPT ![file[p]] = new]
  /\ file' = [file EXCEPT ![p] = "nowhere"]
  /\ clean' = FALSE
  /\ Continue(p, AfterSave(p))
  /\ UNCHANGED <<place, given, ideal>>

Kill(p) ==
  /\ MayFail
  /\ Running(p)
  /\ clean' = (clean /\ p \in Viewer)
  /\ file' = [file EXCEPT ![p] = "nowhere"]
  /\ Continue(p, "done")
  /\ UNCHANGED <<place, disk, given, ideal>>

\* the home directory, or /srv, comes or goes
DirMoves ==
  /\ moves < MaxMoves
  /\ moves' = moves + 1
  /\ usable' \in (SUBSET Dir) \ {usable}
  /\ clean' = (clean /\ \A p \in Proc : ~Saving(p))
  /\ UNCHANGED <<disk, file, pc, mem, given, alone, loaded, ideal>>

Step(p) ==
  \/ Load(p) \/ Show(p) \/ Edit(p) \/ StartShell(p) \/ BadFlag(p)
  \/ Builtin(p) \/ Nsctl(p) \/ Exit(p)
  \/ Truncate(p) \/ Write(p)
  \/ NowhereToSave(p) \/ OpenFails(p) \/ WriteFails(p) \/ Kill(p)

Next == DirMoves \/ \E p \in Proc : Step(p)

Spec == Init /\ [][Next]_vars

------------------------------------------------------------------------------
(***************************************************************************)
(* Properties                                                              *)
(***************************************************************************)
\* Every variable holds what its part of the program can hold.
TypeOK ==
  /\ usable \subseteq Dir /\ moves \in 0..MaxMoves
  /\ disk \in [Dir \cup {"nowhere"} -> [kind : DiskKind, mounts : Seq(Entry)]]
  /\ \A dir \in DOMAIN disk : disk[dir].kind # "whole" => disk[dir].mounts = << >>
  /\ file \in [Proc -> Dir \cup {"nowhere"}]
  /\ \A p \in Proc : pc[p] = "write" <=> file[p] # "nowhere"
  /\ pc \in [Proc -> Label]
  /\ mem \in [Proc -> Seq(Entry)]
  /\ given \in [Proc -> Nat]
  /\ alone \in [Proc -> BOOLEAN]
  /\ loaded \in [Proc -> Dir \cup {"nowhere"}]
  /\ clean \in BOOLEAN
  /\ ideal \in [Dir -> Seq(Entry)]

Quiet == \A p \in Proc : ~Saving(p)

Given == UNION {{Wants[p][i] : i \in 1..given[p]} : p \in Proc}

\* the lists in all files and in the memory of all processes
Lists == {disk[dir].mounts : dir \in DOMAIN disk} \cup {mem[p] : p \in Proc}

\* However the processes interleave, wherever they fail and wherever ns.json is by then,
\* the files and the lists in memory hold only what somebody asked for, and the two
\* automatic mounts.
NoInventedEntries ==
  \A m \in Lists : \A k \in 1..Len(m) : m[k] \in Given \cup {ProcfsEntry, SrvfsEntry}

\* However the processes interleave and wherever they fail, the automatic mounts
\* are never in a list twice, nor behind another mount on their target: two 10_ns
\* that start together do not mount /proc twice, nor over what the user put there.
AutoMountsYield == \A m \in Lists : AutoMountsYieldIn(m)

\* Of every list that goes to a file and is replayed from there, mount_plan merges the
\* neighbouring unions on one target and nothing else: it loses, repeats and reorders no
\* path, and a union does not jump over a mount that was made in between, which may cover it.
PlanIsPieces == \A p \in Proc : pc[p] = "truncate" => MountPlan(mem[p]) = PlanByPieces(mem[p])

\* As long as the processes that save run one after the other and none of them fails, each
\* ns.json is what a store that applies each change at once would hold: load_from_file and
\* save_to_file are inverses, nothing is lost, and neither the looks of nsctl nor a home
\* directory that comes and goes between two processes mix up the files.
NothingLostAlone == clean /\ Quiet => \A dir \in Dir : disk[dir].mounts = ideal[dir]

\* Of the entries in ns.json, whoever wrote them and whatever failed before, a process that
\* runs alone overwrites none that it has not read, unless the directories have moved since
\* it loaded and the save goes to a file that it has never looked at.
FoundIsKept ==
  \A p \in Proc : alone[p] /\ pc[p] = "truncate" /\ StoragePath = loaded[p]
                    => ToSet(disk[StoragePath].mounts) \subseteq ToSet(mem[p])

\* A process that runs alone leaves a whole file behind, the list it has in memory,
\* also where it found one that a killed process had truncated.
RepairedAlone ==
  [][\A p \in Proc : alone[p] /\ Write(p) => disk'[file[p]] = Whole(mem[p])]_vars

\* docs/architecture.md: the JSON-backed strategy "prevents the command-line tools
\* from stomping on each other".  When all have ended, every change that one of
\* them made and saved is in ns.json.
NoStomping ==
  Quiet => \A p \in Proc : \A i \in 1..given[p] :
             \E k \in 1..Len(disk["home"].mounts) : disk["home"].mounts[k] = Wants[p][i]
==============================================================================
