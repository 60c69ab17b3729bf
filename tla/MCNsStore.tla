------------------------------ MODULE MCNsStore ------------------------------
(***************************************************************************)
(* Values for the constants of NsStore: a command, two shells and an      *)
(* nsctl, or two commands and a shell that is given nothing.  One user     *)
(* mounts on /proc, one on /srv; two unions go to one target, next to each *)
(* other or with a mount in between.                                       *)
(***************************************************************************)
EXTENDS NsStore

CONSTANTS b1, b2, n1, n2, v, proc, srv, tmp, s1, s2, a1, ap, as

MixedWants ==
  (b1 :> <<BindEntry(proc, s1)>>) @@ (v :> << >>)
    @@ (n1 :> <<UnionEntry(tmp, <<s1>>), BindEntry(srv, s2)>>)
    @@ (n2 :> <<UnionEntry(tmp, <<s1, s2>>), P9Entry(tmp, a1, s2)>>)
MixedFlags == (n1 :> 1) @@ (n2 :> 2)

BindsAndShell ==
  (b1 :> <<BindEntry(tmp, s1)>>) @@ (b2 :> <<BindEntry(tmp, s2)>>) @@ (n1 :> << >>)
NoFlags == n1 :> 0
==============================================================================
