------------------------------- MODULE Startup ------------------------------
(***************************************************************************)
(* The start of the worker: `register_config`, `fetch_config`, then        *)
(* `run_auto_migration`.  Neither the configuration worker nor the         *)
(* database worker need be there yet, so every call is a loop that retries *)
(* what may pass, with a delay that doubles up to a ceiling, for as long   *)
(* as the next attempt begins within a budget.                             *)
(*                                                                         *)
(* Time is counted in units of no particular length.  A phase is the loop  *)
(* the start is in, and `now` is then the time its next attempt begins.    *)
(***************************************************************************)
EXTENDS Naturals, FiniteSets

CONSTANTS
    Budget,      \* per loop: CONFIG_RETRY_BUDGET, AUTO_RETRY_BUDGET
    FirstDelay,  \* per loop: the delay after the first failure
    MaxDelay,    \* per loop: CONFIG_RETRY_MAX_DELAY, AUTO_RETRY_MAX_DELAY
    CallMax,     \* per loop: the longest an attempt takes to fail
    Lateness,    \* how late a timer may wake the task
    ReadyTimes,  \* when a worker is registered, from the start of this one
    Seeds,       \* configurations that the seed file may hold, or None
    Stored,      \* what the configuration worker may hold at the start
    WithAuto,    \* configurations with auto: true
    None,
    MaxFlukes,   \* bound: failures of a registered worker that may pass
    MaxEdits     \* bound: times an operator changes the stored value

Loop == {"seed", "register", "fetch", "auto"}

ServiceOf(l) == IF l = "auto" THEN "database" ELSE "configuration"

ASSUME LoopAssumption ==
    /\ Budget \in [Loop -> Nat] /\ CallMax \in [Loop -> Nat]
    /\ FirstDelay \in [Loop -> Nat] /\ MaxDelay \in [Loop -> Nat]
    /\ \A l \in Loop : FirstDelay[l] <= MaxDelay[l]
ASSUME TimeAssumption == ReadyTimes \subseteq Nat /\ Lateness \in Nat
(* A seed is a parsed configuration, never a missing or a null value. *)
ASSUME SeedsAssumption == Seeds \cap {"absent", "null"} = {}
ASSUME BoundsAssumption == MaxFlukes \in Nat /\ MaxEdits \in Nat

VARIABLES
    phase,      \* a loop, or "serving", or "dead"
    now,        \* the time the attempt begins
    delay,      \* the delay after it, if it fails
    began,      \* when each loop began
    verdict,    \* how each loop ended
    lastTry,    \* when the last attempt of each loop began
    readyAt,    \* when each worker is registered
    seed,       \* the seed file's configuration
    initial,    \* the initial_value to register
    stored,     \* the configuration worker's entry
    held,       \* what was stored before this start
    config,     \* the configuration in force
    flukes, edits

timing == <<phase, now, delay, began, verdict, lastTry>>
entry == <<seed, initial, stored, held, config>>
vars == <<timing, readyAt, entry, flukes, edits>>

Init ==
    /\ readyAt \in [{"configuration", "database"} -> ReadyTimes]
    /\ seed \in Seeds
    /\ stored \in Stored
    /\ held = stored
    /\ initial = seed
    /\ config = None
    /\ phase = IF seed = None THEN "seed" ELSE "register"
    /\ now = 0
    /\ delay = FirstDelay[phase]
    /\ began = [l \in Loop |-> 0]
    /\ verdict = [l \in Loop |-> "none"]
    /\ lastTry = [l \in Loop |-> 0]
    /\ flukes = 0
    /\ edits = 0

(* The start enters a loop, or is over.                                    *)
Enter(where, t) ==
    /\ phase' = where
    /\ now' = t
    /\ IF where \in Loop
       THEN /\ began' = [began EXCEPT ![where] = t]
            /\ delay' = FirstDelay[where]
       ELSE UNCHANGED <<began, delay>>

(* Mutant of Doubled: no ceiling. *)
Uncapped(l) == 2 * delay

Doubled(l) == IF 2 * delay <= MaxDelay[l] THEN 2 * delay ELSE MaxDelay[l]

(* Mutant of InBudget: the delay is not counted. *)
InBudgetBefore(l, end) == end <= began[l] + Budget[l]

(* started.elapsed() + delay <= budget *)
InBudget(l, end) == end + delay <= began[l] + Budget[l]

(* The end of the loop `l`, at time `t`. *)
Leave(l, result, where, t) ==
    /\ verdict' = [verdict EXCEPT ![l] = result]
    /\ lastTry' = [lastTry EXCEPT ![l] = now]
    /\ Enter(where, t)

(* Mutant of GiveUp: a failed auto run ends the start. *)
GiveUpAndExit(l, result, t) == Leave(l, result, "dead", t)

(* Mutant of GiveUp: the loop waits for an answer for good. *)
WaitOn(l, result, t) == phase # l /\ Leave(l, result, "dead", t)

(* The start is over, but for the auto run. *)
GiveUp(l, result, t) == Leave(l, result, IF l = "auto" THEN "serving" ELSE "dead", t)

(* An attempt whose failure is passing: the worker was not registered when *)
(* it began, or the call timed out or was lost.                            *)
Unavailable(l) ==
    /\ phase = l
    /\ \/ readyAt[ServiceOf(l)] > now /\ UNCHANGED flukes
       \/ flukes < MaxFlukes /\ flukes' = flukes + 1
    /\ \E d \in 0 .. CallMax[l] :
          IF InBudget(l, now + d)
          THEN /\ \E late \in 0 .. Lateness : now' = now + d + delay + late
               /\ delay' = Doubled(l)
               /\ lastTry' = [lastTry EXCEPT ![l] = now]
               /\ UNCHANGED <<phase, began, verdict>>
          ELSE GiveUp(l, "unavailable", now + d)
    /\ UNCHANGED <<readyAt, entry, edits>>

(* An attempt that is answered, `d` later. *)
Answered(l, d) ==
    /\ phase = l
    /\ d \in 0 .. CallMax[l]
    /\ readyAt[ServiceOf(l)] <= now + d

(* An error that will not pass. *)
Fails(l) ==
    /\ \E d \in 0 .. CallMax[l] : Answered(l, d) /\ GiveUp(l, "error", now + d)
    /\ UNCHANGED <<readyAt, entry, flukes, edits>>

(* should_seed_default_value: the default is seeded when nothing is stored *)
(* (NOT_FOUND is an answer here).                                          *)
SeedGet ==
    /\ \E d \in 0 .. CallMax["seed"] :
          Answered("seed", d) /\ Leave("seed", "ok", "register", now + d)
    /\ initial' = IF stored \in {"absent", "null"} THEN "default" ELSE None
    /\ UNCHANGED <<readyAt, seed, stored, held, config, flukes, edits>>

(* configuration::register installs an initial value on the first boot. *)
Installed(value) ==
    CASE stored \in {"absent", "null"} /\ value # None -> value
      [] stored = "absent" /\ value = None -> "null"
      [] OTHER -> stored

(* Mutant of Register: the seed is not sent. *)
RegisterSchemaOnly ==
    /\ \E d \in 0 .. CallMax["register"] :
          Answered("register", d) /\ Leave("register", "ok", "fetch", now + d)
    /\ stored' = Installed(None)
    /\ UNCHANGED <<readyAt, seed, initial, held, config, flukes, edits>>

Register ==
    /\ \E d \in 0 .. CallMax["register"] :
          Answered("register", d) /\ Leave("register", "ok", "fetch", now + d)
    /\ stored' = Installed(initial)
    /\ UNCHANGED <<readyAt, seed, initial, held, config, flukes, edits>>

(* fetch_config: a null value is the default, a missing one or one that    *)
(* does not parse ends the start.                                          *)
Fetch ==
    LET value == IF stored = "null" THEN "default" ELSE stored
    IN  /\ \E d \in 0 .. CallMax["fetch"] :
              /\ Answered("fetch", d)
              /\ IF stored \in {"absent", "malformed"}
                 THEN GiveUp("fetch", "error", now + d) /\ UNCHANGED config
                 ELSE /\ config' = value
                      /\ Leave("fetch", "ok",
                               IF value \in WithAuto THEN "auto" ELSE "serving", now + d)
        /\ UNCHANGED <<readyAt, seed, initial, stored, held, flukes, edits>>

(* up::handle succeeds. *)
AutoRun ==
    /\ \E d \in 0 .. CallMax["auto"] :
          Answered("auto", d) /\ Leave("auto", "ok", "serving", now + d)
    /\ UNCHANGED <<readyAt, entry, flukes, edits>>

(* An operator sets the entry or removes it. *)
OperatorEdits ==
    /\ edits < MaxEdits
    /\ edits' = edits + 1
    /\ stored' \in Stored
    /\ UNCHANGED <<timing, readyAt, seed, initial, held, config, flukes>>

Progress ==
    \/ \E l \in Loop : Unavailable(l) \/ Fails(l)
    \/ SeedGet \/ Register \/ Fetch \/ AutoRun

Next == Progress \/ OperatorEdits

(* Timers fire and calls return or time out. *)
Spec == Init /\ [][Next]_vars /\ WF_vars(Progress)

(***************************************************************************)
(* Properties                                                              *)
(***************************************************************************)

TypeOK ==
    /\ phase \in Loop \cup {"serving", "dead"}
    /\ now \in Nat
    /\ delay \in Nat
    /\ began \in [Loop -> Nat] /\ lastTry \in [Loop -> Nat]
    /\ verdict \in [Loop -> {"none", "ok", "unavailable", "error"}]
    /\ readyAt \in [{"configuration", "database"} -> Nat]
    /\ phase \in Loop => delay <= MaxDelay[phase]

(* No attempt begins after the budget of its loop, but for a late timer.   *)
AttemptsInBudget ==
    phase \in Loop => now <= began[phase] + Budget[phase] + Lateness

(* A loop that gives a worker up as unavailable has tried it at the end of *)
(* the budget, but for one call and one delay: the doubled delays never    *)
(* make it give up early, so a worker registered before is found.          *)
GivesUpLate ==
    \A l \in Loop :
        verdict[l] = "unavailable" =>
            /\ lastTry[l] + CallMax[l] + MaxDelay[l] > began[l] + Budget[l]
            /\ lastTry[l] < readyAt[ServiceOf(l)] \/ flukes > 0

(* The start ends without serving only for the configuration's sake: a     *)
(* database that is absent or an auto run that fails leaves the functions  *)
(* available.                                                              *)
ServesWithoutDatabase ==
    phase = "dead" => \E l \in Loop \ {"auto"} : verdict[l] \in {"unavailable", "error"}

(* What the entry and the seed file call for. *)
Expected ==
    CASE held \notin {"absent", "null"} -> held
      [] held \in {"absent", "null"} /\ seed # None -> seed
      [] OTHER -> "default"

(* The seed file is for the first boot: unless an operator interferes, the *)
(* worker serves with the configuration stored before it started, with the *)
(* seed if there was none, and with the default without either.            *)
StoredConfigWins == phase = "serving" /\ edits = 0 => config = Expected

(* The start always comes to an end. *)
StartEnds == <>(phase \in {"serving", "dead"})
=============================================================================
