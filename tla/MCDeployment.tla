---------------------------- MODULE MCDeployment ----------------------------
(***************************************************************************)
(* Instances of Deployment for TLC: two replicas, each with its own        *)
(* directory.                                                              *)
(***************************************************************************)
EXTENDS Deployment, TLC

CONSTANTS r1, r2, k1, k2, a, b

OwnHome == r1 :> k1 @@ r2 :> k2

Files2(x, y) == [n \in Name |-> CASE n = 1 -> x [] n = 2 -> y]

(* A rolling deployment: the second replica is one file behind. *)
RollingDirs == {k1 :> Files2(a, a) @@ k2 :> Files2(a, None)}

(* A batch commits late, a call is lost, a process dies: once each. *)
LateLostCrashed ==
    [f \in FaultKind |-> IF f \in {"timeout", "unavailable", "crash"} THEN 1 ELSE 0]
=============================================================================
