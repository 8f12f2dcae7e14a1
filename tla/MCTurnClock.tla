----------------------------- MODULE MCTurnClock -----------------------------
(* Bounded instances of the turn clock.                                    *)
EXTENDS TurnClock
=============================================================================
