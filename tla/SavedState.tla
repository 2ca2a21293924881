----------------------------- MODULE SavedState -----------------------------
(***************************************************************************)
(* The part of the controller that survives a restart, as the save task    *)
(* sees it: the heat runtime, a defrost under way, and the latched failure *)
(* of the reversing valve.  HeatPump implements it, and Persist saves it.  *)
(***************************************************************************)
EXTENDS Naturals

CONSTANT Threshold  \* the heat runtime at which a defrost starts

VARIABLE live       \* the controller's own values

SavedStates ==
    [runtime : 0..Threshold, defrost : BOOLEAN, rvFail : BOOLEAN]

\* A latched failure comes with neither a defrost nor a runtime towards one.
Quiet(s) == s.rvFail => ~s.defrost /\ s.runtime = 0

LiveInit == live \in SavedStates /\ Quiet(live)

Accumulate ==
    /\ ~live.rvFail /\ ~live.defrost
    /\ \E more \in live.runtime..Threshold : live' = [live EXCEPT !.runtime = more]

ResetRuntime == live' = [live EXCEPT !.runtime = 0]

BeginDefrost ==
    /\ ~live.rvFail /\ ~live.defrost
    /\ live' = [live EXCEPT !.defrost = TRUE]

\* A defrost ends, or is dropped by a COOL call or an override.
EndOfDefrost ==
    /\ live.defrost
    /\ live' = [live EXCEPT !.defrost = FALSE, !.runtime = 0]

LatchRvFail ==
    /\ live.defrost
    /\ live' = [runtime |-> 0, defrost |-> FALSE, rvFail |-> TRUE]

Clear == live' = [live EXCEPT !.rvFail = FALSE]

ControllerStep ==
    Accumulate \/ ResetRuntime \/ BeginDefrost \/ EndOfDefrost \/ LatchRvFail

LiveSpec == LiveInit /\ [][ControllerStep \/ Clear]_live
=============================================================================
