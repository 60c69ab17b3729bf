------------------------------ MODULE PseudoTree ------------------------------
(***************************************************************************)
(* The trees of ProcFS, SrvFS, DevFS and NetFS: nothing is stored, every   *)
(* call looks at the host.  The host changes by itself, also between two   *)
(* looks of one call, so a call gets what the host is at its first look    *)
(* and what it is at the ones after it; it changes once at most while one  *)
(* request is handled.                                                     *)
(*                                                                         *)
(* A host is the set of paths that it provides: <<pid>> of each process,   *)
(* <<service>> and <<service, "ctl">> below PLANTEN_SRV_ROOT, and <<file>> *)
(* of the files below /proc/net that can be read.  A path is a sequence of *)
(* names (the code splits at "/" and drops empty parts, so that "" and "/" *)
(* are the root), and pids are written in one way only.                    *)
(***************************************************************************)
EXTENDS Integers, Sequences

FileSystem == {"proc", "srv", "dev", "net"}

ProcFiles == {"cmdline", "status", "stat", "info", "statm", "mounts"}
ProcDirs == {"fd", "task"}
FdEntries == {"0", "1", "2"}
TaskEntries == {"self"}
DevEntries == {"console", "null", "zero", "random"}
NetEntries == {"interfaces", "tcp", "udp"}

\* pid_exists
PidExists(h, p) == <<Head(p)>> \in h

ProcDir(p) == Len(p) < 2 \/ (Len(p) = 2 /\ p[2] \in ProcDirs)

\* read_file_entry, read_fd_entry and read_task_entry; an fd is a placeholder
ProcFile(h, p) ==
  \/ Len(p) = 2 /\ p[2] \in ProcFiles /\ PidExists(h, p)
  \/ Len(p) = 3 /\ p[2] = "fd" /\ p[3] \in FdEntries
  \/ Len(p) = 3 /\ p[2] = "task" /\ p[3] \in TaskEntries /\ PidExists(h, p)

\* (faulty: the arm of [pid, dir, entry] relies on the entry being found)
ProcReadUnguarded(first, later, p) ==
  \/ p = << >>
  \/ (Len(p) < 3 => PidExists(first, p)) /\ (ProcDir(p) \/ ProcFile(later, p))

ProcRead(first, later, p) ==
  \/ p = << >>
  \/ PidExists(first, p) /\ (ProcDir(p) \/ ProcFile(later, p))

\* stat of a file reads it
ProcStat(first, later, p) ==
  IF ~ProcRead(first, later, p) THEN "none" ELSE IF ProcDir(p) THEN "dir" ELSE "file"

\* read_service_ctls makes something up where there is no ctl file
SrvRead(first, later, p) ==
  \/ p = << >>
  \/ Len(p) = 1 /\ p \in first
  \/ Len(p) = 2 /\ p[2] = "ctl" /\ (p \in first => p \in later)

SrvStat(first, later, p) ==
  IF ~SrvRead(first, later, p) THEN "none" ELSE IF Len(p) < 2 THEN "dir" ELSE "file"

DevRead(p) == p = << >> \/ (Len(p) = 1 /\ p[1] \in DevEntries)

DevStat(p) == IF ~DevRead(p) THEN "none" ELSE IF p = << >> THEN "dir" ELSE "file"

NetRead(first, p) == p = << >> \/ (Len(p) = 1 /\ p[1] \in NetEntries /\ p \in first)

NetStat(first, p) == IF ~NetRead(first, p) THEN "none" ELSE IF p = << >> THEN "dir" ELSE "file"

\* FsServer::stat of each: what is found at a path; FsServer::read: whether there is anything
\* to read
Stat(fs, first, later, p) ==
  IF fs = "proc" THEN ProcStat(first, later, p)
  ELSE IF fs = "srv" THEN SrvStat(first, later, p)
  ELSE IF fs = "dev" THEN DevStat(p)
  ELSE NetStat(first, p)

Readable(fs, first, later, p) ==
  IF fs = "proc" THEN ProcRead(first, later, p)
  ELSE IF fs = "srv" THEN SrvRead(first, later, p)
  ELSE IF fs = "dev" THEN DevRead(p)
  ELSE NetRead(first, p)
=============================================================================
