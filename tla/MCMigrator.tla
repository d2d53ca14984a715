----------------------------- MODULE MCMigrator -----------------------------
(***************************************************************************)
(* Instances of Migrator for TLC: two replicas, two or three files, and    *)
(* the contents a file can have: good ones (a, b), SQL the database        *)
(* refuses (bad) and text the splitter refuses (junk).                     *)
(***************************************************************************)
EXTENDS Migrator, TLC

CONSTANTS r1, r2, k1, k2, a, b, bad, junk

(* Both replicas on one host, or each with its own checkout. *)
SharedHome == [r \in Replica |-> k1]
OwnHome == r1 :> k1 @@ r2 :> k2

Files2(x, y) == [n \in Name |-> CASE n = 1 -> x [] n = 2 -> y [] OTHER -> None]

(* Two good files. *)
GoodDirs == {[k \in Checkout |-> Files2(a, a)]}

(* The second file is good, broken, or not SQL at all. *)
MixedDirs == {[k \in Checkout |-> Files2(a, c)] : c \in Content}

(* Everything, or the second file only. *)
BaselineAll == {None}
BaselineSome == {None, {2}}

Faults(e, c, t, u, w) ==
    [f \in FaultKind |-> CASE f = "edit" -> e
                           [] f = "crash" -> c
                           [] f = "timeout" -> t
                           [] f = "unavailable" -> u
                           [] f = "worker" -> w]

NoFaults == Faults(0, 0, 0, 0, 0)
CallFaults == Faults(0, 1, 1, 1, 1)
OneEdit == Faults(1, 0, 0, 0, 0)
EditAndTimeout == Faults(1, 0, 1, 0, 0)

BatchSymmetry == Permutations(Batch)

(* Replicas on one host are alike; others are together with their homes. *)
SharedSymmetry == BatchSymmetry \cup Permutations(Replica)
OwnSymmetry == BatchSymmetry \cup {r1 :> r2 @@ r2 :> r1 @@ k1 :> k2 @@ k2 :> k1}
=============================================================================
