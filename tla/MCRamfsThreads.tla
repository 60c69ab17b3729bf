---------------------------- MODULE MCRamfsThreads ---------------------------
(***************************************************************************)
(* Values for the constants of RamfsThreads.                               *)
(***************************************************************************)
EXTENDS RamfsThreads

CONSTANTS c1, c2, f1, a

NoData == << >>
Truncate == [mode |-> Keep, length |-> 0, name |-> KeepName]
TooLong == [Truncate EXCEPT !.length = 7]

\* --- refinement: every handler, one fid per client, one name
AllStats == {Truncate, TooLong}
AllWalks == {<< >>, <<<<a>>>>}
AllComponents == {<<a>>, NoComponent}
AllBuffers == {<<1>>}
AllMessages ==
  {[type |-> t, fid |-> f1] : t \in {"Tversion", "Tattach", "Tclunk", "Tremove", "Tstat"}}
  \cup {[type |-> "Tclone", fid |-> f1, newfid |-> f1]}
  \cup {[type |-> "Twalk", fid |-> f1, newfid |-> f1, names |-> w] : w \in AllWalks}
  \cup {[type |-> "Topen", fid |-> f1, mode |-> 2]}
  \cup {[type |-> "Tread", fid |-> f1, offset |-> o, count |-> 1] : o \in {0, 7}}
  \cup {[type |-> "Twrite", fid |-> f1, offset |-> 0, bytes |-> <<1>>]}
  \cup {[type |-> "Tcreate", fid |-> f1, name |-> n, dir |-> FALSE] : n \in AllComponents}
  \cup {[type |-> "Twstat", fid |-> f1, stat |-> s] : s \in AllStats}

\* --- liveness: a handler of each kind.  Tversion and Tclunk leave the mutex alone,
\* Tattach drops the guard before it sends, Tstat and Twstat after, Twalk takes it
\* once or twice, and the Twstat poisons it.
FlowMessages ==
  {[type |-> t, fid |-> f1] : t \in {"Tversion", "Tclunk", "Tattach", "Tstat"}}
  \cup {[type |-> "Twalk", fid |-> f1, newfid |-> f1, names |-> << >>],
        [type |-> "Twstat", fid |-> f1, stat |-> TooLong]}

View == <<fs, poisoned, table, pc, job, found, lock, unread>>
Clients == Permutations({c1, c2})
==============================================================================
