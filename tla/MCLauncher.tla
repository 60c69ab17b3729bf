------------------------------ MODULE MCLauncher ------------------------------
(* Small plans for Launcher. *)
EXTENDS Launcher

CONSTANTS sh, c1, c2, path1, path2, slashed

ProcStep == [kind |-> "p9", port |-> ProcfsPort]
SrvStep == [kind |-> "p9", port |-> SrvfsPort]
BindStep == [kind |-> "bind", path |-> path1]
UnionStep == [kind |-> "union", paths |-> <<path1, path2>>]
SlashedStep == [kind |-> "union", paths |-> <<path1, slashed>>]

\* what ensure_procfs and ensure_srvfs leave in a list that was empty
AutoPlan == <<ProcStep, SrvStep>>

MixedPlans == (sh :> AutoPlan) @@ (c1 :> AutoPlan) @@ (c2 :> <<SrvStep, BindStep, SlashedStep>>)
AlonePlans == c1 :> AutoPlan
UnionPlans == c1 :> <<BindStep, UnionStep>>
=============================================================================
