------------------------------ MODULE MCStartup -----------------------------
(***************************************************************************)
(* Instances of Startup for TLC: budgets of a few first delays, with room  *)
(* for the delay to reach its ceiling.                                     *)
(***************************************************************************)
EXTENDS Startup

Same(n) == [l \in Loop |-> n]

Budgets == [l \in Loop |-> IF l = "auto" THEN 8 ELSE 4]
FirstDelays == Same(1)
MaxDelays == Same(2)
CallMaxes == [l \in Loop |-> IF l = "auto" THEN 2 ELSE 1]

(* Times when the worker is there at once, during the budget, never. *)
Times == {0, 3, 99}
=============================================================================
