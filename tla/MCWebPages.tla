----------------------------- MODULE MCWebPages ------------------------------
(***************************************************************************)
(* A small instance of WebPages for TLC.                                   *)
(***************************************************************************)
EXTENDS WebPages, TLC

LOCAL Link(keyword, pivot, active, wave, by, direction, range) ==
  [keyword |-> keyword, pivotType |-> pivot, activeAtEnd |-> active, waveSignal |-> wave,
   sortBy |-> by, sortDirection |-> direction, dates |-> range]

\* Links that say nothing, what the page does not understand, and what it writes
\* in another way.
MCLinks ==
  {NoQuery,
   Link(" word ", "TOP", "maybe", "strong", "WAVE_SCORE", "ASC", <<1, 2>>),
   Link("word", "", "true", "weak", "PRICE", "ASC", << >>)}

\* A bar of a day is as long as two of five minutes.
MCStep == [f \in {"5m", "1d"} |-> IF f = "5m" THEN 1 ELSE 2]

LOCAL Hit(f, n) == [frequency |-> f, eob |-> n]

\* An event that lasts longer, and then is confirmed by the day.
MCReports ==
  <<[recommended |-> "5m", window |-> 2, hits |-> {Hit("5m", 1)}],
    [recommended |-> "5m", window |-> 4, hits |-> {Hit("5m", 1), Hit("5m", 3)}],
    [recommended |-> "1d", window |-> 4,
     hits |-> {Hit("5m", 1), Hit("5m", 3), Hit("1d", 4)}]>>
=============================================================================
