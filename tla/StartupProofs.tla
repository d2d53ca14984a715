---------------------------- MODULE StartupProofs ---------------------------
(***************************************************************************)
(* The retry loops of the start, for every budget, delay, ceiling, length  *)
(* of a call and lateness of a timer: no attempt begins after the budget,  *)
(* and no loop gives up before its end.  TypeOK and AttemptsInBudget are   *)
(* inductive together; GivesUpLate follows from them step by step, since   *)
(* the delay that made a loop give up is at most the ceiling.              *)
(***************************************************************************)
EXTENDS Startup, TLAPS

LEMMA DelayWithinMax ==
    ASSUME NEW l \in Loop
    PROVE  FirstDelay[l] \in Nat /\ MaxDelay[l] \in Nat /\ FirstDelay[l] <= MaxDelay[l]
           /\ Budget[l] \in Nat /\ CallMax[l] \in Nat
BY LoopAssumption

(* Entering a loop resets its clock and its delay. *)
LEMMA EnterTyped ==
    ASSUME TypeOK, NEW where \in Loop \cup {"serving", "dead"}, NEW t \in Nat,
           Enter(where, t)
    PROVE  /\ phase' \in Loop \cup {"serving", "dead"}
           /\ now' \in Nat /\ delay' \in Nat
           /\ began' \in [Loop -> Nat]
           /\ phase' \in Loop => delay' <= MaxDelay[phase'] /\ began'[phase'] = now'
<1>1. CASE where \in Loop
  BY <1>1, DelayWithinMax DEF TypeOK, Enter
<1>2. CASE where \notin Loop
  BY <1>2 DEF TypeOK, Enter
<1> QED BY <1>1, <1>2

LEMMA LeaveTyped ==
    ASSUME TypeOK, NEW l \in Loop, NEW result \in {"ok", "unavailable", "error"},
           NEW where \in Loop \cup {"serving", "dead"}, NEW t \in Nat,
           Leave(l, result, where, t), UNCHANGED readyAt
    PROVE  TypeOK' /\ AttemptsInBudget'
<1>1. Enter(where, t) BY DEF Leave
<1>2. /\ phase' \in Loop \cup {"serving", "dead"}
      /\ now' \in Nat /\ delay' \in Nat
      /\ began' \in [Loop -> Nat]
      /\ phase' \in Loop => delay' <= MaxDelay[phase'] /\ began'[phase'] = now'
  BY <1>1, EnterTyped
<1>3. lastTry' \in [Loop -> Nat]
  BY DEF Leave, TypeOK
<1>4. verdict' \in [Loop -> {"none", "ok", "unavailable", "error"}]
  BY DEF Leave, TypeOK
<1>5. TypeOK'
  BY <1>2, <1>3, <1>4 DEF TypeOK
<1>6. AttemptsInBudget'
  BY <1>2, DelayWithinMax, TimeAssumption DEF AttemptsInBudget
<1> QED BY <1>5, <1>6

(* An attempt that fails for now: the next one is in the budget. *)
LEMMA RetryTyped ==
    ASSUME TypeOK, NEW l \in Loop, phase = l, NEW d \in 0 .. CallMax[l],
           InBudget(l, now + d), NEW late \in 0 .. Lateness,
           now' = now + d + delay + late,
           delay' = Doubled(l),
           lastTry' = [lastTry EXCEPT ![l] = now],
           UNCHANGED <<phase, began, verdict, readyAt>>
    PROVE  TypeOK' /\ AttemptsInBudget'
<1>1. d \in Nat /\ late \in Nat /\ late <= Lateness
  BY DelayWithinMax, TimeAssumption
<1>2. now' \in Nat
  BY <1>1 DEF TypeOK
<1>3. delay' \in Nat /\ delay' <= MaxDelay[l]
  BY DelayWithinMax DEF TypeOK, Doubled
<1>4. lastTry' \in [Loop -> Nat]
  BY DEF TypeOK
<1>5. TypeOK'
  BY <1>2, <1>3, <1>4 DEF TypeOK
<1>6. now' <= began[l] + Budget[l] + Lateness
  <2>1. now \in Nat /\ delay \in Nat /\ began[l] \in Nat /\ Budget[l] \in Nat /\ Lateness \in Nat
    BY DelayWithinMax, TimeAssumption DEF TypeOK
  <2>2. (now + d) + delay <= began[l] + Budget[l]
    BY DEF InBudget
  <2> QED BY <1>1, <2>1, <2>2
<1>7. AttemptsInBudget'
  BY <1>6 DEF AttemptsInBudget
<1> QED BY <1>5, <1>7

(* The time of an answer, and of a failure, is a number. *)
LEMMA EndTyped ==
    ASSUME TypeOK, NEW l \in Loop, NEW d \in 0 .. CallMax[l]
    PROVE  now + d \in Nat
BY DelayWithinMax DEF TypeOK

(***************************************************************************)
(* The steps                                                               *)
(***************************************************************************)

BudgetInv == TypeOK /\ AttemptsInBudget

LEMMA BudgetInit ==
    ASSUME Init PROVE BudgetInv
<1>1. phase \in Loop BY DEF Init, Loop
<1>2. TypeOK BY <1>1, DelayWithinMax, TimeAssumption DEF Init, TypeOK
<1>3. AttemptsInBudget BY <1>1, DelayWithinMax, TimeAssumption DEF Init, AttemptsInBudget
<1> QED BY <1>2, <1>3 DEF BudgetInv

LEMMA GiveUpTyped ==
    ASSUME TypeOK, NEW l \in Loop, NEW result \in {"ok", "unavailable", "error"},
           NEW t \in Nat, GiveUp(l, result, t), UNCHANGED readyAt
    PROVE  BudgetInv'
<1> DEFINE where == IF l = "auto" THEN "serving" ELSE "dead"
<1>1. where \in Loop \cup {"serving", "dead"} OBVIOUS
<1>2. Leave(l, result, where, t) BY DEF GiveUp
<1> QED BY <1>1, <1>2, LeaveTyped DEF BudgetInv

LEMMA UnavailableTyped ==
    ASSUME BudgetInv, NEW l \in Loop, Unavailable(l)
    PROVE  BudgetInv'
<1>1. TypeOK BY DEF BudgetInv
<1>2. phase = l /\ UNCHANGED readyAt BY DEF Unavailable
<1>3. PICK d \in 0 .. CallMax[l] :
          IF InBudget(l, now + d)
          THEN /\ \E late \in 0 .. Lateness : now' = now + d + delay + late
               /\ delay' = Doubled(l)
               /\ lastTry' = [lastTry EXCEPT ![l] = now]
               /\ UNCHANGED <<phase, began, verdict>>
          ELSE GiveUp(l, "unavailable", now + d)
  BY DEF Unavailable
<1>4. now + d \in Nat BY <1>1, EndTyped
<1>5. CASE InBudget(l, now + d)
  <2>1. PICK late \in 0 .. Lateness : now' = now + d + delay + late BY <1>3, <1>5
  <2>2. /\ delay' = Doubled(l) /\ lastTry' = [lastTry EXCEPT ![l] = now]
        /\ UNCHANGED <<phase, began, verdict>>
    BY <1>3, <1>5
  <2> QED BY <1>1, <1>2, <1>5, <2>1, <2>2, RetryTyped DEF BudgetInv
<1>6. CASE ~InBudget(l, now + d)
  BY <1>1, <1>2, <1>3, <1>4, <1>6, GiveUpTyped
<1> QED BY <1>5, <1>6

LEMMA FailsTyped ==
    ASSUME BudgetInv, NEW l \in Loop, Fails(l)
    PROVE  BudgetInv'
<1>1. TypeOK BY DEF BudgetInv
<1>2. PICK d \in 0 .. CallMax[l] : GiveUp(l, "error", now + d) BY DEF Fails
<1>3. now + d \in Nat BY <1>1, EndTyped
<1> QED BY <1>1, <1>2, <1>3, GiveUpTyped DEF Fails

LEMMA FetchTyped ==
    ASSUME BudgetInv, Fetch
    PROVE  BudgetInv'
<1>0. "fetch" \in Loop BY DEF Loop
<1>1. TypeOK /\ UNCHANGED readyAt BY DEF BudgetInv, Fetch
<1> DEFINE value == IF stored = "null" THEN "default" ELSE stored
           where == IF value \in WithAuto THEN "auto" ELSE "serving"
<1>2. where \in Loop \cup {"serving", "dead"} BY DEF Loop
<1>3. PICK d \in 0 .. CallMax["fetch"] :
          \/ GiveUp("fetch", "error", now + d)
          \/ Leave("fetch", "ok", where, now + d)
  BY DEF Fetch
<1>4. now + d \in Nat BY <1>0, <1>1, EndTyped
<1>5. CASE GiveUp("fetch", "error", now + d) BY <1>0, <1>1, <1>4, <1>5, GiveUpTyped
<1>6. CASE Leave("fetch", "ok", where, now + d)
  BY <1>0, <1>1, <1>2, <1>4, <1>6, LeaveTyped DEF BudgetInv
<1> QED BY <1>3, <1>5, <1>6

LEMMA BudgetStep ==
    ASSUME BudgetInv, [Next]_vars
    PROVE  BudgetInv'
<1>0. TypeOK BY DEF BudgetInv
<1>1. ASSUME NEW l \in Loop, Unavailable(l) PROVE BudgetInv' BY <1>1, UnavailableTyped
<1>2. ASSUME NEW l \in Loop, Fails(l) PROVE BudgetInv' BY <1>2, FailsTyped
<1>3. CASE SeedGet
  <2>1. PICK d \in 0 .. CallMax["seed"] : Leave("seed", "ok", "register", now + d)
    BY <1>3 DEF SeedGet
  <2>2. "seed" \in Loop /\ "register" \in Loop /\ UNCHANGED readyAt BY <1>3 DEF Loop, SeedGet
  <2>3. now + d \in Nat BY <1>0, <2>2, EndTyped
  <2> QED BY <1>0, <2>1, <2>2, <2>3, LeaveTyped DEF BudgetInv
<1>4. CASE Register
  <2>1. PICK d \in 0 .. CallMax["register"] : Leave("register", "ok", "fetch", now + d)
    BY <1>4 DEF Register
  <2>2. "register" \in Loop /\ "fetch" \in Loop /\ UNCHANGED readyAt BY <1>4 DEF Loop, Register
  <2>3. now + d \in Nat BY <1>0, <2>2, EndTyped
  <2> QED BY <1>0, <2>1, <2>2, <2>3, LeaveTyped DEF BudgetInv
<1>5. CASE Fetch BY <1>5, FetchTyped
<1>6. CASE AutoRun
  <2>1. PICK d \in 0 .. CallMax["auto"] : Leave("auto", "ok", "serving", now + d)
    BY <1>6 DEF AutoRun
  <2>2. "auto" \in Loop /\ UNCHANGED readyAt BY <1>6 DEF Loop, AutoRun
  <2>3. now + d \in Nat BY <1>0, <2>2, EndTyped
  <2> QED BY <1>0, <2>1, <2>2, <2>3, LeaveTyped DEF BudgetInv
<1>7. CASE OperatorEdits
  BY <1>7 DEF OperatorEdits, timing, BudgetInv, TypeOK, AttemptsInBudget
<1>8. CASE UNCHANGED vars
  BY <1>8 DEF vars, timing, BudgetInv, TypeOK, AttemptsInBudget
<1> QED BY <1>1, <1>2, <1>3, <1>4, <1>5, <1>6, <1>7, <1>8 DEF Next, Progress

(* The types, of every loop whatever its constants: the delay stays within *)
(* the ceiling of the loop.                                                *)
THEOREM StartupTyped == Spec => []TypeOK
<1>1. Init => BudgetInv BY BudgetInit
<1>2. BudgetInv /\ [Next]_vars => BudgetInv' BY BudgetStep
<1>3. BudgetInv => TypeOK BY DEF BudgetInv
<1> QED BY <1>1, <1>2, <1>3, PTL DEF Spec

(* No attempt of trigger_with_retry or run_auto_migration begins after the *)
(* budget of its loop, but for the lateness of one timer.                  *)
THEOREM StartupInBudget == Spec => []AttemptsInBudget
<1>1. Init => BudgetInv BY BudgetInit
<1>2. BudgetInv /\ [Next]_vars => BudgetInv' BY BudgetStep
<1>3. BudgetInv => AttemptsInBudget BY DEF BudgetInv
<1> QED BY <1>1, <1>2, <1>3, PTL DEF Spec

(***************************************************************************)
(* Giving up                                                               *)
(***************************************************************************)

(* A loop gives up at most once: afterwards the start is over. *)
LateInv ==
    /\ BudgetInv
    /\ flukes \in Nat
    /\ phase \in Loop => \A l \in Loop : verdict[l] # "unavailable"
    /\ GivesUpLate
    /\ ServesWithoutDatabase

LEMMA LateInit ==
    ASSUME Init PROVE LateInv
BY BudgetInit DEF Init, LateInv, GivesUpLate, ServesWithoutDatabase, Loop

(* Whatever ends a loop for another reason leaves no verdict to answer for. *)
LEMMA LeaveLate ==
    ASSUME LateInv, NEW l \in Loop, phase = l, NEW result \in {"ok", "error"},
           NEW where \in Loop \cup {"serving", "dead"}, NEW t,
           Leave(l, result, where, t),
           where = "dead" => l # "auto" /\ result = "error"
    PROVE  /\ \A k \in Loop : verdict'[k] # "unavailable"
           /\ GivesUpLate' /\ ServesWithoutDatabase'
<1>1. verdict' = [verdict EXCEPT ![l] = result] /\ phase' = where BY DEF Leave, Enter
<1>2. verdict \in [Loop -> {"none", "ok", "unavailable", "error"}]
  BY DEF LateInv, BudgetInv, TypeOK
<1>3. \A k \in Loop : verdict'[k] # "unavailable" BY <1>1, <1>2 DEF LateInv
<1>4. GivesUpLate' BY <1>3 DEF GivesUpLate
<1>5. ServesWithoutDatabase' BY <1>1, <1>2 DEF ServesWithoutDatabase
<1> QED BY <1>3, <1>4, <1>5

(* A loop that gives up was trying at the end of its budget: the attempt   *)
(* took at most CallMax and the delay refused was at most MaxDelay.        *)
LEMMA GiveUpLate ==
    ASSUME LateInv, NEW l \in Loop, phase = l, NEW d \in 0 .. CallMax[l],
           ~InBudget(l, now + d), GiveUp(l, "unavailable", now + d),
           readyAt[ServiceOf(l)] > now \/ flukes' > 0, UNCHANGED readyAt
    PROVE  phase' \notin Loop /\ GivesUpLate' /\ ServesWithoutDatabase'
<1>1. /\ verdict' = [verdict EXCEPT ![l] = "unavailable"]
      /\ lastTry' = [lastTry EXCEPT ![l] = now]
      /\ phase' = IF l = "auto" THEN "serving" ELSE "dead"
      /\ phase' \notin Loop => UNCHANGED began
  BY DEF GiveUp, Leave, Enter
<1>2. phase' \notin Loop /\ UNCHANGED began BY <1>1 DEF Loop
<1>3. TypeOK BY DEF LateInv, BudgetInv
<1>4. lastTry'[l] = now BY <1>1, <1>3 DEF TypeOK
<1>5. now + CallMax[l] + MaxDelay[l] > began[l] + Budget[l]
  <2>1. /\ now \in Nat /\ d \in Nat /\ d <= CallMax[l]
        /\ delay \in Nat /\ delay <= MaxDelay[l]
        /\ began[l] \in Nat
        /\ CallMax[l] \in Nat /\ MaxDelay[l] \in Nat /\ Budget[l] \in Nat
    BY <1>3, DelayWithinMax DEF TypeOK
  <2>2. ~((now + d) + delay <= began[l] + Budget[l]) BY DEF InBudget
  <2> QED BY <2>1, <2>2
<1>6. now < readyAt[ServiceOf(l)] \/ flukes' > 0
  BY <1>3 DEF TypeOK, ServiceOf
<1>7. \A k \in Loop \ {l} : verdict'[k] # "unavailable" BY <1>1, <1>3 DEF LateInv, TypeOK
<1>8. GivesUpLate'
  BY <1>2, <1>4, <1>5, <1>6, <1>7 DEF GivesUpLate
<1>9. ServesWithoutDatabase'
  <2>1. verdict'[l] = "unavailable" BY <1>1, <1>3 DEF TypeOK
  <2> QED BY <1>1, <2>1 DEF ServesWithoutDatabase
<1> QED BY <1>2, <1>8, <1>9

LEMMA FailsLate ==
    ASSUME LateInv, NEW l \in Loop, phase = l, NEW t, GiveUp(l, "error", t)
    PROVE  /\ \A k \in Loop : verdict'[k] # "unavailable"
           /\ GivesUpLate' /\ ServesWithoutDatabase'
<1> DEFINE where == IF l = "auto" THEN "serving" ELSE "dead"
<1>1. where \in Loop \cup {"serving", "dead"} /\ (where = "dead" => l # "auto") OBVIOUS
<1>2. Leave(l, "error", where, t) BY DEF GiveUp
<1> QED BY <1>1, <1>2, LeaveLate

LEMMA UnavailableLate ==
    ASSUME LateInv, NEW l \in Loop, Unavailable(l)
    PROVE  /\ phase' \in Loop => \A k \in Loop : verdict'[k] # "unavailable"
           /\ GivesUpLate' /\ ServesWithoutDatabase'
<1>1. phase = l /\ UNCHANGED readyAt BY DEF Unavailable
<1>2. readyAt[ServiceOf(l)] > now \/ flukes' > 0 BY DEF Unavailable, LateInv
<1>3. PICK d \in 0 .. CallMax[l] :
          IF InBudget(l, now + d)
          THEN UNCHANGED <<phase, began, verdict>>
          ELSE GiveUp(l, "unavailable", now + d)
  BY DEF Unavailable
<1>4. CASE InBudget(l, now + d)
  BY <1>1, <1>3, <1>4 DEF LateInv, GivesUpLate, ServesWithoutDatabase, Loop
<1>5. CASE ~InBudget(l, now + d)
  BY <1>1, <1>2, <1>3, <1>5, GiveUpLate
<1> QED BY <1>4, <1>5

LEMMA LateStep ==
    ASSUME LateInv, [Next]_vars
    PROVE  LateInv'
<1>1. BudgetInv' BY BudgetStep DEF LateInv
<1>2. flukes' \in Nat
  BY DEF LateInv, Next, Progress, Unavailable, Fails, SeedGet, Register, Fetch, AutoRun,
         OperatorEdits, vars
<1>3. /\ phase' \in Loop => \A k \in Loop : verdict'[k] # "unavailable"
      /\ GivesUpLate' /\ ServesWithoutDatabase'
  <2>1. ASSUME NEW l \in Loop, Unavailable(l) PROVE <1>3 BY <2>1, UnavailableLate
  <2>2. ASSUME NEW l \in Loop, Fails(l) PROVE <1>3
    BY <2>2, FailsLate DEF Fails, Answered
  <2>3. CASE SeedGet
    <3>1. "seed" \in Loop /\ "register" \in Loop /\ "register" # "dead" BY DEF Loop
    <3> QED BY <2>3, <3>1, LeaveLate DEF SeedGet, Answered
  <2>4. CASE Register
    <3>1. "register" \in Loop /\ "fetch" \in Loop /\ "fetch" # "dead" BY DEF Loop
    <3> QED BY <2>4, <3>1, LeaveLate DEF Register, Answered
  <2>5. CASE Fetch
    <3>0. "fetch" \in Loop BY DEF Loop
    <3> DEFINE value == IF stored = "null" THEN "default" ELSE stored
               where == IF value \in WithAuto THEN "auto" ELSE "serving"
    <3>1. where \in Loop \cup {"serving", "dead"} /\ where # "dead" BY DEF Loop
    <3>2. phase = "fetch" BY <2>5 DEF Fetch, Answered
    <3>3. PICK d \in 0 .. CallMax["fetch"] :
              \/ GiveUp("fetch", "error", now + d)
              \/ Leave("fetch", "ok", where, now + d)
      BY <2>5 DEF Fetch
    <3>4. CASE GiveUp("fetch", "error", now + d) BY <3>0, <3>2, <3>4, FailsLate
    <3>5. CASE Leave("fetch", "ok", where, now + d) BY <3>0, <3>1, <3>2, <3>5, LeaveLate
    <3> QED BY <3>3, <3>4, <3>5
  <2>6. CASE AutoRun
    <3>1. "auto" \in Loop /\ "serving" # "dead" BY DEF Loop
    <3> QED BY <2>6, <3>1, LeaveLate DEF AutoRun, Answered
  <2>7. CASE OperatorEdits \/ UNCHANGED vars
    <3>1. UNCHANGED <<timing, readyAt, flukes>> BY <2>7 DEF OperatorEdits, vars
    <3> QED BY <3>1 DEF timing, LateInv, GivesUpLate, ServesWithoutDatabase
  <2> QED BY <2>1, <2>2, <2>3, <2>4, <2>5, <2>6, <2>7 DEF Next, Progress
<1> QED BY <1>1, <1>2, <1>3 DEF LateInv

(* A worker that registers a call and a delay before the end of the budget *)
(* is found, whatever the delays grow to and however long attempts take.   *)
THEOREM StartupGivesUpLate == Spec => []GivesUpLate
<1>1. Init => LateInv BY LateInit
<1>2. LateInv /\ [Next]_vars => LateInv' BY LateStep
<1>3. LateInv => GivesUpLate BY DEF LateInv
<1> QED BY <1>1, <1>2, <1>3, PTL DEF Spec

(* Neither an absent database nor a failed auto run ends the worker. *)
THEOREM StartupServes == Spec => []ServesWithoutDatabase
<1>1. Init => LateInv BY LateInit
<1>2. LateInv /\ [Next]_vars => LateInv' BY LateStep
<1>3. LateInv => ServesWithoutDatabase BY DEF LateInv
<1> QED BY <1>1, <1>2, <1>3, PTL DEF Spec

(***************************************************************************)
(* The configuration in force                                              *)
(*                                                                         *)
(* What the loops know so far: before the seed is known to be needed the   *)
(* entry is as it was; before it is registered, `initial` is what an empty *)
(* entry will become; afterwards the entry reads as Expected; and once it  *)
(* has been read, `config` is Expected.                                    *)
(***************************************************************************)

SeedInv ==
    /\ phase = "seed" => stored = held /\ seed = None
    /\ phase = "register" =>
          /\ stored = held
          /\ initial = IF seed # None THEN seed
                       ELSE IF held \in {"absent", "null"} THEN "default" ELSE None
    /\ phase = "fetch" =>
          \/ stored \in {"absent", "malformed"}
          \/ Expected = IF stored = "null" THEN "default" ELSE stored
    /\ phase \in {"auto", "serving"} => config = Expected

ConfigInv ==
    /\ BudgetInv
    /\ seed \in Seeds
    /\ edits \in Nat
    /\ edits = 0 => SeedInv

(* Only OperatorEdits counts an edit; nothing changes the seed file. *)
LEMMA ConfigFrame ==
    ASSUME ConfigInv, [Next]_vars
    PROVE  /\ seed' = seed /\ held' = held
           /\ edits' \in Nat
           /\ edits' = 0 => edits = 0 /\ ~OperatorEdits
BY DEF ConfigInv, Next, Progress, Unavailable, Fails, SeedGet, Register, Fetch, AutoRun,
       OperatorEdits, vars, entry

(* A failed attempt is followed by another one of its loop or by the end:  *)
(* of the auto run, that the worker serves.                                *)
LEMMA FailureKeepsConfig ==
    ASSUME ConfigInv, SeedInv, NEW l \in Loop, Unavailable(l) \/ Fails(l)
    PROVE  SeedInv'
<1>1. phase = l /\ UNCHANGED entry BY DEF Unavailable, Fails, Answered
<1>2. \/ phase' = phase
      \/ phase' = IF l = "auto" THEN "serving" ELSE "dead"
  BY DEF Unavailable, Fails, GiveUp, Leave, Enter
<1>3. UNCHANGED <<seed, initial, stored, held, config, Expected>>
  BY <1>1 DEF entry, Expected
<1> QED BY <1>1, <1>2, <1>3 DEF SeedInv, Loop

LEMMA SeedGetConfig ==
    ASSUME ConfigInv, SeedInv, SeedGet PROVE SeedInv'
<1>1. phase = "seed" /\ phase' = "register"
  BY DEF SeedGet, Answered, Leave, Enter
<1> QED BY <1>1 DEF SeedGet, SeedInv

(* Register fills an empty entry with the seed or the default. *)
LEMMA RegisterConfig ==
    ASSUME ConfigInv, SeedInv, Register PROVE SeedInv'
<1>1. phase = "register" /\ phase' = "fetch"
  BY DEF Register, Answered, Leave, Enter
<1>2. stored = held /\ stored' = Installed(initial) /\ UNCHANGED <<seed, held>>
  BY <1>1 DEF Register, SeedInv
<1>3. Expected' = Expected BY <1>2 DEF Expected
<1>4. CASE held \notin {"absent", "null"}
  BY <1>1, <1>2, <1>3, <1>4 DEF SeedInv, Installed, Expected
<1>5. CASE held \in {"absent", "null"} /\ seed # None
  <2>1. initial = seed /\ seed # "null" BY <1>1, <1>5, SeedsAssumption DEF SeedInv, ConfigInv
  <2>2. stored' = seed BY <1>2, <1>5, <2>1 DEF Installed
  <2>3. Expected = seed BY <1>5 DEF Expected
  <2> QED BY <1>1, <1>3, <2>1, <2>2, <2>3 DEF SeedInv
<1>6. CASE held \in {"absent", "null"} /\ seed = None
  <2>1. initial = "default" BY <1>1, <1>6 DEF SeedInv
  <2>2. stored' \in {"default", "null"} BY <1>2, <1>6, <2>1 DEF Installed
  <2>3. Expected = "default" BY <1>6 DEF Expected
  <2> QED BY <1>1, <1>3, <2>2, <2>3 DEF SeedInv
<1> QED BY <1>4, <1>5, <1>6

LEMMA FetchConfig ==
    ASSUME ConfigInv, SeedInv, Fetch PROVE SeedInv'
<1>1. phase = "fetch" /\ UNCHANGED <<seed, held, stored, initial>>
  BY DEF Fetch, Answered
<1>2. Expected' = Expected BY <1>1 DEF Expected
<1>3. CASE stored \in {"absent", "malformed"}
  <2>1. phase' = "dead" BY <1>3 DEF Fetch, GiveUp, Leave, Enter
  <2> QED BY <2>1 DEF SeedInv
<1>4. CASE stored \notin {"absent", "malformed"}
  <2>1. config' = IF stored = "null" THEN "default" ELSE stored BY <1>4 DEF Fetch
  <2>2. phase' \in {"auto", "serving"} BY <1>4 DEF Fetch, Leave, Enter
  <2> QED BY <1>1, <1>2, <1>4, <2>1, <2>2 DEF SeedInv
<1> QED BY <1>3, <1>4

LEMMA ConfigStep ==
    ASSUME ConfigInv, [Next]_vars PROVE ConfigInv'
<1>1. BudgetInv' BY BudgetStep DEF ConfigInv
<1>2. /\ seed' = seed /\ edits' \in Nat
      /\ edits' = 0 => edits = 0 /\ ~OperatorEdits
  BY ConfigFrame
<1>3. ASSUME edits' = 0 PROVE SeedInv'
  <2>1. SeedInv /\ ~OperatorEdits BY <1>2, <1>3 DEF ConfigInv
  <2>2. CASE AutoRun
    <3>1. phase = "auto" /\ phase' = "serving" /\ UNCHANGED entry
      BY <2>2 DEF AutoRun, Answered, Leave, Enter
    <3>2. UNCHANGED <<config, Expected>> BY <3>1 DEF entry, Expected
    <3> QED BY <2>1, <3>1, <3>2 DEF SeedInv
  <2>3. CASE UNCHANGED vars
    BY <2>1, <2>3 DEF vars, timing, entry, SeedInv, Expected
  <2> QED BY <2>1, <2>2, <2>3, FailureKeepsConfig, SeedGetConfig, RegisterConfig, FetchConfig
          DEF Next, Progress
<1> QED BY <1>1, <1>2, <1>3 DEF ConfigInv

(* register_config and fetch_config together: the worker serves with the   *)
(* entry stored before, the seed file only fills an empty one.             *)
THEOREM StartupKeepsStored == Spec => []StoredConfigWins
<1>1. Init => ConfigInv
  <2> SUFFICES ASSUME Init PROVE ConfigInv OBVIOUS
  <2>1. BudgetInv BY BudgetInit
  <2>2. SeedInv BY DEF Init, SeedInv
  <2> QED BY <2>1, <2>2 DEF Init, ConfigInv
<1>2. ConfigInv /\ [Next]_vars => ConfigInv' BY ConfigStep
<1>3. ConfigInv => StoredConfigWins BY DEF ConfigInv, SeedInv, StoredConfigWins
<1> QED BY <1>1, <1>2, <1>3, PTL DEF Spec
=============================================================================
