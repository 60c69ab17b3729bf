---------------------------- MODULE MCRamfsServer ----------------------------
(***************************************************************************)
(* Values for the constants of RamfsServer.                                *)
(***************************************************************************)
EXTENDS RamfsServer

CONSTANTS c1, c2, f1, f2, a, b

\* reply only tells the action properties about the last step; leaving it out of
\* the fingerprint loses nothing, for they are evaluated on every step generated
View == <<fs, poisoned, fids, conn>>

TreeSymmetry == Permutations({c1, c2}) \cup Permutations({a, b})
FidSymmetry == Permutations({c1, c2}) \cup Permutations({f1, f2})

OneName(names) == {<<n>> : n \in names}
Special == {NoComponent, Dot, DotDot, Slash}

NoStat == [mode |-> Keep, length |-> Keep, name |-> KeepName]

NoData == << >>

\* --- the shape of the tree: create, walk, rename, remove.  All sets are closed
\* under exchanging a and b.
TreeComponents == OneName({a, b}) \cup {NoComponent, DotDot, <<a, b>>, <<b, a>>}
TreeWalks == {<< >>, <<DotDot>>, <<<<a>>>>, <<<<b>>>>, <<Slash>>, <<NoComponent>>,
              <<<<a>>, Dot, <<b>>>>, <<<<b>>, Dot, <<a>>>>}
TreeBuffers == {<< >>}
TreeStats == {[NoStat EXCEPT !.name = n, !.mode = m] : n \in {a, b}, m \in {Keep, 0}}
               \cup {[NoStat EXCEPT !.mode = 1], [NoStat EXCEPT !.length = 7]}

\* --- fids and data: files that come to an end, every way to open, clone and drop a fid, and
\* every write and resize at the edges of a usize of Word values; the creates are of files
\* that were removed or renamed, also below them
DataComponents == OneName({b})
DataWalks == {<< >>, <<<<a>>>>}
DataStats == {[NoStat EXCEPT !.length = n] : n \in {0, 3, 4}}
               \cup {[NoStat EXCEPT !.name = b, !.length = 0]}
DataBuffers == {<< >>, <<1>>, <<1, 1>>}
DataSeed == <<1>>
==============================================================================
