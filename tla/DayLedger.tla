------------------------------ MODULE DayLedger ------------------------------
(***************************************************************************)
(* What the session store and its compute worker promise those who read    *)
(* the pair-trend rows: a ledger of one trading day's K-lines.             *)
(*                                                                         *)
(* A close is settled when its official bar is known or proved absent, and *)
(* stays settled as long as the ledger is open.  The mark of a frequency   *)
(* moves only up, over closes that are settled for the whole pool, and     *)
(* only when one cycle, none younger, has rewritten the rows of every      *)
(* eligible symbol.  The ledger is started over for another day or another *)
(* pool and never for the same, unless it was lost.                        *)
(*                                                                         *)
(* Nothing is said here of plans, batches, retractions, queues or workers. *)
(***************************************************************************)
EXTENDS Integers

CONSTANTS
  Dates,     \* trading dates
  NoDate,    \* the ledger is closed
  Pools,     \* the pools a ledger may be kept for
  NoPool,    \* the pool of a closed ledger
  Symbols,   \* securities
  Freqs,     \* K-line frequencies
  Keys       \* symbol, frequency and closing time of a bar

VARIABLES
  date,      \* the trading date, or NoDate
  pool,      \* the symbols the ledger is kept for and who of them is eligible
  settled,   \* the closes whose bar is known or proved absent
  mark,      \* the mark of each frequency; 0 before the first
  rewritten  \* the cycle that last rewrote each symbol's rows

ledger == <<date, pool, settled, mark, rewritten>>

Unmarked == [f \in Freqs |-> 0]

\* Every close of the pool up to the marks m is settled.
SettledThrough(m) ==
  \A k \in Keys : k[1] \in pool.symbols /\ k[3] <= m[k[2]] => k \in settled

\* Every eligible symbol carries the rows of one cycle, the youngest there is.
AllRewritten ==
  \A s \in pool.eligible : /\ rewritten[s] # 0
                           /\ \A t \in Symbols : rewritten[t] <= rewritten[s]

Init ==
  /\ date = NoDate /\ pool = NoPool
  /\ settled = {} /\ mark = Unmarked
  /\ rewritten = [s \in Symbols |-> 0]

\* Started over, for another day or another pool.
Open ==
  /\ date' \in Dates /\ pool' \in Pools
  /\ date' # date \/ pool' # pool
  /\ settled' = {} /\ mark' = Unmarked
  /\ UNCHANGED rewritten

\* Closes of the pool are settled; none is unsettled.
Settle ==
  /\ settled \subseteq settled'
  /\ \A k \in settled' \ settled : k \in Keys /\ k[1] \in pool.symbols
  /\ UNCHANGED <<date, pool, mark, rewritten>>

\* The rows of one symbol are rewritten, never from an older cycle than before.
Rewrite(s) ==
  /\ rewritten'[s] \in Nat /\ rewritten'[s] >= rewritten[s]
  /\ rewritten' = [rewritten EXCEPT ![s] = rewritten'[s]]
  /\ UNCHANGED <<date, pool, settled, mark>>

Advance ==
  /\ AllRewritten
  /\ mark' \in [Freqs -> Nat]
  /\ \A f \in Freqs : mark'[f] >= mark[f]
  /\ SettledThrough(mark')
  /\ UNCHANGED <<date, pool, settled, rewritten>>

\* The process that keeps the ledger ends.
Lose ==
  /\ date' = NoDate /\ pool' = NoPool
  /\ settled' = {} /\ mark' = Unmarked
  /\ UNCHANGED rewritten

Next == Open \/ Settle \/ (\E s \in Symbols : Rewrite(s)) \/ Advance \/ Lose

Spec == Init /\ [][Next]_ledger
=============================================================================
