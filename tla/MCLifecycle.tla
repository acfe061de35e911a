---------------------------- MODULE MCLifecycle ------------------------------
(* Lifecycle for TLC: one view, or two that have the same id in turn.        *)
EXTENDS Lifecycle

CONSTANTS v1, v2, id
OneView == {v1}
TwoViews == {v1, v2}
OneId == {id}
IdOfOne == [v \in OneView |-> id]
IdOfTwo == [v \in TwoViews |-> id]
==============================================================================
