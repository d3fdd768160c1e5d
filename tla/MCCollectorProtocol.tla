------------------------- MODULE MCCollectorProtocol -------------------------
(***************************************************************************)
(* Small instances of CollectorProtocol for TLC.                           *)
(***************************************************************************)
EXTENDS CollectorProtocol, TLC

CONSTANTS s1, s2, f5, d1

\* Every pool a blacklist may leave.
EveryPool == {[symbols |-> S, eligible |-> S] : S \in (SUBSET Symbols) \ {{}}}

TwoCloses == f5 :> {1, 2}
OneClose  == f5 :> {1}
OnePeriod == f5 :> 1

\* The symbols play the same part.
SymbolSymmetry == Permutations({s1, s2})

\* The bound on plans is never reached.
EnoughCycles == lastCycle < MaxCycles
=============================================================================
