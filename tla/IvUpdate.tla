------------------------------ MODULE IvUpdate ------------------------------
(***************************************************************************)
(* The IV index of one node, mesh/node/meshx_iv_index.c: operators on the  *)
(* record of its static variables.  The functions that also clear the      *)
(* sequence numbers and the replay list (meshx_seq_clear, meshx_rpl_clear) *)
(* have a companion here that says when they do.                           *)
(***************************************************************************)
EXTENDS Integers

CONSTANTS
  Tick96,    \* MESHX_IV_OPERATE_TICK_96H, in ticks of 1200 s      (288)
  Tick144,   \* MESHX_IV_OPERATE_TICK_144H                         (432)
  TickMax,   \* MESHX_IV_OPERATE_TICK_48W, where the clock stops   (24192)
  MaxDiff,   \* MESHX_IV_INDEX_MAX_DIFF                            (42)
  TestMode   \* meshx_iv_test_mode_enabled

ASSUME IvAssumption ==
  /\ Tick96 \in Nat /\ Tick144 \in Nat /\ TickMax \in Nat /\ MaxDiff \in Nat
  /\ 0 < Tick96 /\ Tick96 < Tick144 /\ Tick144 <= TickMax
  /\ TestMode \in BOOLEAN

\* updating: MESHX_IV_UPDATE_STATE_IN_PROGRESS; tick: the operate time;
\* pending: the return to normal operation waits for segmented messages.
IvState == [index : Nat, updating : BOOLEAN, tick : 0 .. TickMax, pending : BOOLEAN]

\* The clock of a node that starts shows 48 weeks (meshx_init).
IvInit(i) == [index |-> i, updating |-> FALSE, tick |-> TickMax, pending |-> FALSE]

\* meshx_iv_index_tx_get
TxIndex(v) == IF v.updating THEN v.index - 1 ELSE v.index

\* Steps of half an index: entering an update is one, leaving it the other.
Phase(i, u) == 2 * i - (IF u THEN 1 ELSE 0)
Distance(v, i, u) == Phase(i, u) - Phase(v.index, v.updating)

ReturnToNormal(v) == [v EXCEPT !.updating = FALSE, !.tick = 0]
NormalUnlessBusy(v, busy) ==
  IF busy THEN [v EXCEPT !.pending = TRUE] ELSE ReturnToNormal(v)

-----------------------------------------------------------------------------
(* A tick of the clock *)

\* Mutant: the clock does not stop.
TickedForEver(v) == [v EXCEPT !.tick = @ + 1]

Ticked(v) == [v EXCEPT !.tick = IF @ < TickMax THEN @ + 1 ELSE @]

\* Mutant: the update ends at one reading of the clock, not from it on.
UpdateExpiresAt(v) == Ticked(v).tick = Tick144 /\ v.updating

UpdateExpires(v) == Ticked(v).tick >= Tick144 /\ v.updating

\* meshx_iv_index_async_handle_timeout
IvTick(v, busy) ==
  IF UpdateExpires(v) THEN NormalUnlessBusy(Ticked(v), busy) ELSE Ticked(v)
TickClears(v, busy) == UpdateExpires(v) /\ ~busy

-----------------------------------------------------------------------------
(* A secure network beacon with index i and update flag u *)

\* Mutant: a beacon with an older index is not left out.
UpdateAppliesOlder(v, i, u) ==
  /\ Distance(v, i, u) # 0
  /\ TestMode \/ v.tick >= Distance(v, i, u) * Tick96

UpdateApplies(v, i, u) ==
  /\ v.index <= i
  /\ i - v.index <= MaxDiff
  /\ Distance(v, i, u) > 0
  /\ TestMode \/ v.tick >= Distance(v, i, u) * Tick96

\* meshx_iv_index_update
IvUpdated(v, i, u, busy) ==
  LET w == [v EXCEPT !.index = i] IN
  CASE ~UpdateApplies(v, i, u) -> v
    [] UpdateApplies(v, i, u) /\ Distance(v, i, u) = 1 /\ u -> [w EXCEPT !.updating = TRUE]
    [] UpdateApplies(v, i, u) /\ Distance(v, i, u) = 1 /\ ~u -> NormalUnlessBusy(w, busy)
    [] OTHER -> [w EXCEPT !.updating = u, !.tick = Tick96]
UpdateClears(v, i, u, busy) ==
  /\ UpdateApplies(v, i, u)
  /\ Distance(v, i, u) = 1 => ~u /\ ~busy

\* The last lines of meshx_lower_trans_tx_task_finish before it looks for
\* a pending task: the state changes, clock and pending flag stay.
IvTaskFinished(v) == IF v.pending THEN [v EXCEPT !.updating = FALSE] ELSE v
=============================================================================
