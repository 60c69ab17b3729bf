---------------------------- MODULE MCPseudoServer ----------------------------
(* Values for the constants of PseudoServer. *)
EXTENDS PseudoServer, TLC

CONSTANTS c1, c2, f1, f2

\* reply only serves the action properties, which are evaluated on every step
View == <<program, host, server, queue, conn, fids, poisoned>>
Symmetry == Permutations({c1, c2}) \cup Permutations({f1, f2})

AllPrograms == {[fs |-> "proc", serving |-> "start_server"], [fs |-> "srv", serving |-> "run_server"],
                [fs |-> "dev", serving |-> "run_single"], [fs |-> "net", serving |-> "run_single"]}
SerialPrograms == {[fs |-> "srv", serving |-> "run_server"], [fs |-> "net", serving |-> "run_single"]}

\* a process, a service with and without its ctl file, and a file of /proc/net that come and go
SmallHosts == [fs \in FileSystem |->
  IF fs = "proc" THEN {{}, {<<"7">>}}
  ELSE IF fs = "srv" THEN {{}, {<<"7">>}, {<<"7">>, <<"7", "ctl">>}}
  ELSE IF fs = "net" THEN {{}, {<<"tcp">>}}
  ELSE {{<<name>> : name \in DevEntries}}]
=============================================================================
