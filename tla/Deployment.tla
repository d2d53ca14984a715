----------------------------- MODULE Deployment -----------------------------
(***************************************************************************)
(* Replicas that migrate at startup (`auto: true`): Startup's last loop    *)
(* around Migrator's up.  A replica that starts runs up; while that fails  *)
(* with DATABASE_WORKER_UNAVAILABLE it waits and runs up again, also when  *)
(* the call only timed out and its batch is still in the database worker,  *)
(* so that a replica may race with its own earlier attempt.  Then it       *)
(* serves requests until it crashes and starts again.  Startup models the  *)
(* budget in time; here it is a number of attempts.                        *)
(***************************************************************************)
EXTENDS Migrator

CONSTANT MaxAttempts    \* bound: attempts of one auto run

ASSUME AttemptsAssumption == MaxAttempts \in Nat \ {0}

VARIABLES
    boot,       \* replica -> "starting", "auto" (its auto run) or "serving"
    attempts    \* replica -> attempts of its auto run so far

deployVars == <<vars, boot, attempts>>

DeployInit ==
    /\ Init
    /\ boot = [r \in Replica |-> "starting"]
    /\ attempts = [r \in Replica |-> 0]

(* The auto run begins, or tries again after the delay. *)
Attempt(r) ==
    /\ Up(r)
    /\ boot' = [boot EXCEPT ![r] = "auto"]
    /\ attempts' = [attempts EXCEPT ![r] = @ + 1]

Boot(r) == boot[r] = "starting" /\ Attempt(r)

(* Mutant of Retryable: no error is worth another attempt. *)
NeverRetryable(r) == FALSE

(* Only an unavailable database worker is worth another attempt. *)
Retryable(r) ==
    /\ outcome[r].code = "DATABASE_WORKER_UNAVAILABLE"
    /\ attempts[r] < MaxAttempts

Retry(r) ==
    /\ boot[r] = "auto" /\ pc[r] = "idle"
    /\ Retryable(r)
    /\ Attempt(r)

(* The auto run is over, well or badly: the worker serves either way. *)
Serve(r) ==
    /\ boot[r] = "auto" /\ pc[r] = "idle"
    /\ ~Retryable(r)
    /\ boot' = [boot EXCEPT ![r] = "serving"]
    /\ attempts' = [attempts EXCEPT ![r] = 0]
    /\ UNCHANGED vars

(* The process dies and starts again. *)
Restart(r) ==
    /\ boot[r] # "starting"
    /\ Crash(r)
    /\ boot' = [boot EXCEPT ![r] = "starting"]
    /\ attempts' = [attempts EXCEPT ![r] = 0]

Running(A) == A /\ UNCHANGED <<boot, attempts>>

Startup(r) == Boot(r) \/ Retry(r) \/ Serve(r)

DeployNext ==
    \/ \E r \in Replica :
          \/ Startup(r)
          \/ Restart(r)
          \/ Running(Progress(r))
    \/ \E b \in Batch : Running(DatabaseStep(b))
    \/ Running((\A r \in Replica : boot[r] = "serving") /\ Quiescent)

(* Handlers and the startup are async tasks that the runtime keeps         *)
(* polling, and every await ends, with the answer or the timeout of the    *)
(* call; the database worker finishes what it started and grants its lock. *)
(* That a crashed worker is started again is not promised.                 *)
DeployFairness ==
    /\ \A r \in Replica : WF_deployVars(Running(Progress(r)))
    /\ \A r \in Replica : WF_deployVars(Retry(r) \/ Serve(r))
    /\ \A b \in Batch : WF_deployVars(Running(DatabaseStep(b)))

DeploySpec == DeployInit /\ [][DeployNext]_deployVars /\ DeployFairness

(***************************************************************************)
(* Properties                                                              *)
(***************************************************************************)

(* No name or SQL is refused, and directories agree on the files they      *)
(* share.                                                                  *)
GoodFiles ==
    /\ spent["worker"] = 0 /\ spent["edit"] = 0
    /\ \A k \in Checkout : \A n \in Listed(dir[k]) :
          /\ n \notin InvalidName
          /\ dir[k][n] \notin Broken \cup Unsplittable
          /\ \A l \in Checkout : dir[l][n] \in {None, dir[k][n]}

(* With good files and a database worker that reports no error of its own, *)
(* an auto run ends in one of two ways: everything its directory holds is  *)
(* on record, or its attempts are used up.  Replicas that start together,  *)
(* retries that race with the batch of a timed-out attempt, and restarts   *)
(* never leave a replica serving after a mismatch or a failed migration.   *)
AutoRunSettles ==
    [][\A r \in Replica :
          (GoodFiles /\ boot[r] = "auto" /\ boot'[r] = "serving") =>
              \/ /\ outcome[r].code = "ok"
                 /\ Listed(dir[Home[r]]) \subseteq Listed(ledger)
              \/ /\ outcome[r].code = "DATABASE_WORKER_UNAVAILABLE"
                 /\ attempts[r] = MaxAttempts]_deployVars

(* A replica that has begun its auto run serves in the end, or crashes,    *)
(* whatever the database does.                                             *)
EveryReplicaServes ==
    \A r \in Replica : boot[r] = "auto" ~> boot[r] # "auto"
=============================================================================
