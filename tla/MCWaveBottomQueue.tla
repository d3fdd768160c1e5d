-------------------------- MODULE MCWaveBottomQueue --------------------------
(***************************************************************************)
(* Small instances of WaveBottomQueue for TLC.                             *)
(***************************************************************************)
EXTENDS WaveBottomQueue, TLC

CONSTANTS e1, e2, f1, f2, t1, t2

\* The events, focus times and threads each play the same part.
Symmetry == Permutations({e1, e2}) \cup Permutations({f1, f2}) \cup Permutations({t1, t2})

\* A collector that reads every symbol: it lists no failure and gives no lease
\* back, but may send its complete again.
EverySymbolRead ==
  Begin => \A c \in calls' \ calls : c.kind = "complete" /\ c.failures = {}

ReadSpec == Init /\ [][Next /\ EverySymbolRead]_vars
=============================================================================
