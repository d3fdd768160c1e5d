------------------------- MODULE MCCollectionSession -------------------------
(***************************************************************************)
(* Small instances of CollectionSession for TLC.                           *)
(***************************************************************************)
EXTENDS CollectionSession, TLC

CONSTANTS s1, s2, f5, f1d, d1, d2

\* One symbol that may lose its eligibility.
OneSymbolPools == {[symbols |-> {s1}, eligible |-> {s1}],
                   [symbols |-> {s1}, eligible |-> {}]}

\* Pools that differ by one symbol.
TwoPools == {[symbols |-> {s1}, eligible |-> {s1}],
             [symbols |-> {s1, s2}, eligible |-> {s1, s2}]}

\* Two closes of the short period; the day closes with the second, and its bar
\* may be published earlier or later than the intraday one.
TwoFrequencies == (f5 :> {1, 2}) @@ (f1d :> {2})
TwoPeriods == (f5 :> 1) @@ (f1d :> 2)

\* Three closes of one frequency with a break before the last.
OneFrequency == f5 :> {1, 2, 4}
OnePeriod == f5 :> 1
=============================================================================
