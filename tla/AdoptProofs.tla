----------------------------- MODULE AdoptProofs ----------------------------
(***************************************************************************)
(* What Adopt promises, for any number of adopters, journals, directories, *)
(* crashes and failures.                                                   *)
(*                                                                         *)
(* The table: a plan is refused unless every entry has a content and a     *)
(* name (`PlanInv`), so a batch holds rows only, and only for the files    *)
(* its call wants on record (`TargetInv`).  It commits only if none of     *)
(* them is there, so it adds rows and changes none; up adds one row in the *)
(* step that executes the file; nothing else touches the table.            *)
(*                                                                         *)
(* The plan: entries that drizzle-kit appends leave the plan of the        *)
(* earlier ones as it was (`PlanPrefix`), and the names of a plan increase *)
(* (`NamesIncrease`).  So two calls agree on the file of a name, whenever  *)
(* each has read the journal (`SameFile`): what one has converted or       *)
(* recorded, no other replaces by something else (`CallInv`).              *)
(***************************************************************************)
EXTENDS Adopt, SequenceTheorems, FiniteSetTheorems, FunctionTheorems,
        WellFoundedInduction, TLAPS

ItemsOf(a) == {items[a][i] : i \in DOMAIN items[a]}

JournalInv == journal \in [dialect : STRING, entries : Seq(JournalEntry)]

ShapeInv ==
    /\ DOMAIN items = Adopter /\ DOMAIN outcome = Adopter
    /\ at \in [Adopter -> Nat]
    /\ targets \in [Adopter -> SUBSET Name]
    /\ \A a \in Adopter : items[a] \in Seq(ItemsOf(a))

(* The plan of a call that goes on. *)
PlanInv ==
    \A a \in Adopter : pc[a] # "idle" =>
        \A i \in DOMAIN items[a] : items[a][i].name \in Name /\ items[a][i].content \in Content

(* Where a call is in its plan, and what it is about to record. *)
TargetInv ==
    \A a \in Adopter :
        /\ at[a] \in 1 .. Len(items[a]) + 1
        /\ pc[a] = "write" => at[a] \in 1 .. Len(items[a])
        /\ pc[a] \in {"baseline", "record"} =>
              targets[a] \subseteq {item.name : item \in ItemsOf(a)}

RowsInv ==
    /\ dir \in Table /\ ledger \in Table
    /\ execLog \in Seq(Entry)

AdoptInv ==
    /\ pc \in [Adopter -> {"idle", "convert", "write", "match", "baseline", "record"}]
    /\ RowsInv /\ JournalInv /\ ShapeInv /\ PlanInv /\ TargetInv

(* Its parts are those of TypeOK, and more. *)
LEMMA InvTyped == ASSUME AdoptInv PROVE TypeOK
BY DEF AdoptInv, RowsInv, ShapeInv, PlanInv, TargetInv, TypeOK

(***************************************************************************)
(* Plans                                                                   *)
(***************************************************************************)

(* A plan is a sequence, whatever the order of the journal. *)
LEMMA PlanIsSequence ==
    ASSUME NEW entries \in Seq(JournalEntry)
    PROVE  Plan(entries) \in Seq({Plan(entries)[i] : i \in DOMAIN Plan(entries)})
<1> DEFINE plan == Plan(entries)
<1>1. DOMAIN Sorted(entries) = DOMAIN entries BY DEF Sorted
<1>2. plan = [i \in DOMAIN Sorted(entries) |-> plan[i]] BY DEF Plan
<1>3. DOMAIN plan = 1 .. Len(entries) /\ Len(entries) \in Nat BY <1>1, <1>2
<1> HIDE DEF plan
<1>4. plan = [i \in 1 .. Len(entries) |-> plan[i]] BY <1>1, <1>2, <1>3
<1>5. plan \in [1 .. Len(entries) -> {plan[i] : i \in DOMAIN plan}] BY <1>3, <1>4
<1>6. plan \in Seq({plan[i] : i \in DOMAIN plan}) BY <1>3, <1>5
<1> QED BY <1>6 DEF plan

(* The batch of a call holds rows, and only those of its targets. *)
LEMMA PlannedRows ==
    ASSUME AdoptInv, NEW a \in Adopter, pc[a] \in {"baseline", "record"}
    PROVE  /\ Planned(a) \in Table
           /\ \A n \in Name : Planned(a)[n] # None <=> n \in targets[a]
<1>1. ASSUME NEW n \in targets[a]
      PROVE  (CHOOSE item \in {items[a][i] : i \in DOMAIN items[a]} : item.name = n).content
                 \in Content
  <2>1. \E item \in {items[a][i] : i \in DOMAIN items[a]} : item.name = n
    BY <1>1 DEF AdoptInv, TargetInv, ItemsOf
  <2>2. \A item \in {items[a][i] : i \in DOMAIN items[a]} : item.content \in Content
    BY DEF AdoptInv, PlanInv
  <2> QED BY <2>1, <2>2
<1>2. \A n \in Name :
        Planned(a)[n] = IF n \in targets[a]
                        THEN (CHOOSE item \in {items[a][i] : i \in DOMAIN items[a]} :
                                 item.name = n).content
                        ELSE None
  BY DEF Planned
<1>3. Planned(a) \in Table BY <1>1, <1>2 DEF Planned, Table, Row
<1> QED BY <1>1, <1>2, <1>3, NoneAssumption

(* A batch that meets none of its rows adds them and changes no other. *)
LEMMA BatchAddsRows ==
    ASSUME AdoptInv, NEW a \in Adopter, pc[a] = "record",
           targets[a] \cap Listed(ledger) = {}
    PROVE  /\ Merge(ledger, Planned(a)) \in Table
           /\ \A n \in Name : ledger[n] # None => Merge(ledger, Planned(a))[n] = ledger[n]
<1>1. /\ Planned(a) \in Table
      /\ \A n \in Name : Planned(a)[n] # None <=> n \in targets[a]
  BY PlannedRows
<1>2. ledger \in Table BY DEF AdoptInv, RowsInv
<1>3. Merge(ledger, Planned(a)) \in Table BY <1>1, <1>2 DEF Merge, Table
<1>4. ASSUME NEW n \in Name, ledger[n] # None
      PROVE  Merge(ledger, Planned(a))[n] = ledger[n]
  <2>1. n \notin targets[a] BY <1>4 DEF Listed
  <2> QED BY <1>1, <2>1 DEF Merge
<1> QED BY <1>3, <1>4

(***************************************************************************)
(* The invariant is inductive                                              *)
(***************************************************************************)

LEMMA InitInv == ASSUME Init PROVE AdoptInv
<1>1. RowsInv
  <2>1. Empty \in Table BY DEF Empty, Table, Row
  <2>2. dir \in Table BY InitAssumption DEF Init
  <2>3. execLog \in Seq(Entry) BY DEF Init
  <2> QED BY <2>1, <2>2, <2>3 DEF Init, RowsInv
<1>2. JournalInv BY JournalAssumption DEF Init, JournalInv
<1>3. \A a \in Adopter : items[a] = <<>> BY DEF Init
<1>4. ShapeInv
  <2>1. ASSUME NEW a \in Adopter PROVE items[a] \in Seq(ItemsOf(a))
    <3>1. \A S : << >> \in Seq(S) OBVIOUS
    <3> QED BY <1>3, <3>1
  <2> QED BY <2>1 DEF Init, ShapeInv
<1>5. TargetInv BY <1>3 DEF Init, TargetInv
<1>6. PlanInv BY DEF Init, PlanInv
<1> QED BY <1>1, <1>2, <1>4, <1>5, <1>6 DEF Init, AdoptInv

PC == {"idle", "convert", "write", "match", "baseline", "record"}

(* A step of one call that keeps its plan. *)
LEMMA StepInv ==
    ASSUME AdoptInv, NEW a \in Adopter,
           RowsInv', JournalInv', UNCHANGED items, DOMAIN outcome' = Adopter,
           pc' \in [Adopter -> PC],
           at' \in [Adopter -> Nat], targets' \in [Adopter -> SUBSET Name],
           \A b \in Adopter \ {a} :
               pc'[b] = pc[b] /\ at'[b] = at[b] /\ targets'[b] = targets[b],
           pc'[a] # "idle" => pc[a] # "idle",
           at'[a] \in 1 .. Len(items[a]) + 1,
           pc'[a] = "write" => at'[a] \in 1 .. Len(items[a]),
           pc'[a] \in {"baseline", "record"} =>
               targets'[a] \subseteq {item.name : item \in ItemsOf(a)}
    PROVE  AdoptInv'
<1>1. ShapeInv' BY DEF AdoptInv, ShapeInv, ItemsOf
<1>2. PlanInv'
  <2>1. \A b \in Adopter : pc'[b] # "idle" => pc[b] # "idle" OBVIOUS
  <2> QED BY <2>1 DEF AdoptInv, PlanInv
<1>3. TargetInv'
  <2> SUFFICES ASSUME NEW b \in Adopter
               PROVE  /\ at'[b] \in 1 .. Len(items'[b]) + 1
                      /\ pc'[b] = "write" => at'[b] \in 1 .. Len(items'[b])
                      /\ pc'[b] \in {"baseline", "record"} =>
                            targets'[b] \subseteq {item.name : item \in ItemsOf(b)'}
    BY DEF TargetInv
  <2>0. ItemsOf(b)' = ItemsOf(b) BY DEF ItemsOf
  <2>1. CASE b = a BY <2>0, <2>1
  <2>2. CASE b # a BY <2>0, <2>2 DEF AdoptInv, TargetInv
  <2> QED BY <2>1, <2>2
<1> QED BY <1>1, <1>2, <1>3 DEF AdoptInv, PC

(* The plan is usable, or the call is over at once. *)
LEMMA AdoptStep ==
    ASSUME AdoptInv, NEW a \in Adopter, NEW m \in Mark, Adopt(a, m)
    PROVE  AdoptInv'
<1> DEFINE plan == Plan(journal.entries)
<1>1. /\ items' = [items EXCEPT ![a] = plan]
      /\ at' = [at EXCEPT ![a] = 1]
      /\ targets' = [targets EXCEPT ![a] = {}]
      /\ UNCHANGED world
  BY DEF Adopt
<1>2. \/ pc' = [pc EXCEPT ![a] = "idle"] /\ \E code : outcome' = [outcome EXCEPT ![a] = code]
      \/ /\ pc' = [pc EXCEPT ![a] = "convert"] /\ UNCHANGED outcome
         /\ ~ \E i \in DOMAIN plan : Unusable(plan[i])
  BY DEF Adopt, Goto, End
<1>3. plan \in Seq({plan[i] : i \in DOMAIN plan})
  BY PlanIsSequence DEF AdoptInv, JournalInv
<1>4. /\ items'[a] = plan /\ at'[a] = 1 /\ targets'[a] = {}
      /\ \A b \in Adopter \ {a} :
            pc'[b] = pc[b] /\ items'[b] = items[b] /\ at'[b] = at[b] /\ targets'[b] = targets[b]
  BY <1>1, <1>2 DEF AdoptInv, ShapeInv
<1> HIDE DEF plan
<1>5. RowsInv' /\ JournalInv' BY <1>1 DEF world, AdoptInv, RowsInv, JournalInv
<1>6. ShapeInv'
  <2>1. ASSUME NEW b \in Adopter PROVE items'[b] \in Seq({items'[b][i] : i \in DOMAIN items'[b]})
    <3>1. CASE b = a BY <1>3, <1>4, <3>1
    <3>2. CASE b # a BY <1>4, <3>2 DEF AdoptInv, ShapeInv, ItemsOf
    <3> QED BY <3>1, <3>2
  <2>2. DOMAIN items' = Adopter /\ DOMAIN outcome' = Adopter
    BY <1>1, <1>2 DEF AdoptInv, ShapeInv
  <2>3. at' \in [Adopter -> Nat] /\ targets' \in [Adopter -> SUBSET Name]
    BY <1>1 DEF AdoptInv, ShapeInv
  <2> QED BY <2>1, <2>2, <2>3 DEF ShapeInv, ItemsOf
<1>7. PlanInv'
  <2> SUFFICES ASSUME NEW b \in Adopter, pc'[b] # "idle", NEW i \in DOMAIN items'[b]
               PROVE  items'[b][i].name \in Name /\ items'[b][i].content \in Content
    BY DEF PlanInv
  <2>1. CASE b = a
    <3>1. pc'[a] # "idle" /\ i \in DOMAIN plan BY <1>4, <2>1
    <3>2. ~ \E j \in DOMAIN plan : Unusable(plan[j])
      BY <1>2, <3>1 DEF AdoptInv
    <3> QED BY <1>4, <2>1, <3>1, <3>2 DEF Unusable
  <2>2. CASE b # a BY <1>4, <2>2 DEF AdoptInv, PlanInv
  <2> QED BY <2>1, <2>2
<1>8. TargetInv'
  <2> SUFFICES ASSUME NEW b \in Adopter
               PROVE  /\ at'[b] \in 1 .. Len(items'[b]) + 1
                      /\ pc'[b] = "write" => at'[b] \in 1 .. Len(items'[b])
                      /\ pc'[b] \in {"baseline", "record"} =>
                            targets'[b] \subseteq {item.name : item \in ItemsOf(b)'}
    BY DEF TargetInv
  <2>1. CASE b = a
    <3>1. Len(plan) \in Nat BY <1>3
    <3>2. pc'[a] \in {"idle", "convert"} BY <1>2 DEF AdoptInv
    <3> QED BY <1>4, <2>1, <3>1, <3>2
  <2>2. CASE b # a BY <1>4, <2>2 DEF AdoptInv, TargetInv, ItemsOf
  <2> QED BY <2>1, <2>2
<1>9. pc' \in [Adopter -> PC] BY <1>2 DEF AdoptInv, PC
<1> QED BY <1>5, <1>6, <1>7, <1>8, <1>9 DEF AdoptInv, PC

(* A call that stops leaves its plan and its place in it. *)
LEMMA EndStep ==
    ASSUME AdoptInv, NEW a \in Adopter, RowsInv', JournalInv', NEW code, End(a, code),
           UNCHANGED <<items, at>>,
           \E S \in SUBSET Name : targets' = [targets EXCEPT ![a] = S]
    PROVE  AdoptInv'
<1>1. /\ pc' \in [Adopter -> PC] /\ pc'[a] = "idle"
      /\ \A b \in Adopter \ {a} : pc'[b] = pc[b]
      /\ DOMAIN outcome' = Adopter
  BY DEF End, AdoptInv, ShapeInv, PC
<1>2. /\ targets' \in [Adopter -> SUBSET Name]
      /\ \A b \in Adopter \ {a} : targets'[b] = targets[b]
  BY DEF AdoptInv, ShapeInv
<1>3. at[a] \in 1 .. Len(items[a]) + 1 /\ at \in [Adopter -> Nat]
  BY DEF AdoptInv, TargetInv, ShapeInv
<1> QED BY <1>1, <1>2, <1>3, StepInv

LEMMA SameTargets ==
    ASSUME AdoptInv, NEW a \in Adopter, UNCHANGED targets
    PROVE  \E S \in SUBSET Name : targets' = [targets EXCEPT ![a] = S]
BY DEF AdoptInv, ShapeInv

LEMMA WorldStays ==
    ASSUME AdoptInv, UNCHANGED <<dir, ledger, execLog, journal>> PROVE RowsInv' /\ JournalInv'
BY DEF AdoptInv, RowsInv, JournalInv

(* The names of a plan are in range while the call goes on. *)
LEMMA TargetsInRange ==
    ASSUME AdoptInv, NEW a \in Adopter, pc[a] # "idle", NEW S
    PROVE  /\ Names(a, S) \subseteq Name
           /\ Names(a, S) \subseteq {item.name : item \in ItemsOf(a)}
<1>1. \A i \in DOMAIN items[a] : items[a][i].name \in Name BY DEF AdoptInv, PlanInv
<1> QED BY <1>1 DEF Names, ItemsOf

LEMMA DecideStep ==
    ASSUME AdoptInv, NEW a \in Adopter, pc[a] # "idle", NEW S, Decide(a, S),
           S = {} \/ \E T : S = Names(a, T), UNCHANGED <<world, items, at>>
    PROVE  AdoptInv'
<1>1. S \subseteq Name /\ S \subseteq {item.name : item \in ItemsOf(a)} BY TargetsInRange
<1>2. RowsInv' /\ JournalInv' BY WorldStays DEF world
<1>3. targets' = [targets EXCEPT ![a] = S] BY DEF Decide
<1>4. CASE S = {}
  <2>1. End(a, "ok") BY <1>4 DEF Decide
  <2> QED BY <1>1, <1>2, <1>3, <2>1, EndStep
<1>5. CASE S # {}
  <2>1. pc' = [pc EXCEPT ![a] = "baseline"] /\ UNCHANGED outcome BY <1>5 DEF Decide, Goto
  <2>2. /\ pc' \in [Adopter -> PC] /\ pc'[a] = "baseline"
        /\ DOMAIN outcome' = Adopter
        /\ targets' \in [Adopter -> SUBSET Name] /\ targets'[a] = S
        /\ at' \in [Adopter -> Nat] /\ at'[a] \in 1 .. Len(items[a]) + 1
        /\ \A b \in Adopter \ {a} :
              pc'[b] = pc[b] /\ at'[b] = at[b] /\ targets'[b] = targets[b]
    BY <1>1, <1>3, <2>1 DEF AdoptInv, ShapeInv, TargetInv, PC
  <2> QED BY <1>1, <1>2, <2>2, StepInv
<1> QED BY <1>4, <1>5

(* A call goes on to `where` with the plan, the place and the targets.     *)
LEMMA GotoStep ==
    ASSUME AdoptInv, NEW a \in Adopter, pc[a] # "idle",
           NEW where \in {"convert", "write", "match"}, Goto(a, where),
           where = "write" => at[a] \in 1 .. Len(items[a]),
           RowsInv', JournalInv', UNCHANGED <<items, at, targets>>
    PROVE  AdoptInv'
<1>1. /\ pc' \in [Adopter -> PC] /\ pc'[a] = where
      /\ DOMAIN outcome' = Adopter
      /\ targets' \in [Adopter -> SUBSET Name]
      /\ at' \in [Adopter -> Nat] /\ at'[a] \in 1 .. Len(items[a]) + 1
      /\ \A b \in Adopter \ {a} : pc'[b] = pc[b]
  BY DEF Goto, AdoptInv, ShapeInv, TargetInv, PC
<1> QED BY <1>1, StepInv

(* A call goes on to the next entry of its plan. *)
LEMMA NextItemStep ==
    ASSUME AdoptInv, NEW a \in Adopter, pc[a] # "idle", at[a] \in 1 .. Len(items[a]),
           at' = [at EXCEPT ![a] = @ + 1], Goto(a, "convert"),
           RowsInv', JournalInv', UNCHANGED <<items, targets>>
    PROVE  AdoptInv'
<1>0. items[a] \in Seq(ItemsOf(a)) /\ at \in [Adopter -> Nat] BY DEF AdoptInv, ShapeInv
<1>1. Len(items[a]) \in Nat BY <1>0
<1>2. /\ pc' \in [Adopter -> PC] /\ pc'[a] = "convert"
      /\ DOMAIN outcome' = Adopter
      /\ targets' \in [Adopter -> SUBSET Name]
      /\ \A b \in Adopter \ {a} : pc'[b] = pc[b] /\ targets'[b] = targets[b]
  BY DEF Goto, AdoptInv, ShapeInv, PC
<1>3. /\ at' \in [Adopter -> Nat] /\ at'[a] = at[a] + 1
      /\ \A b \in Adopter \ {a} : at'[b] = at[b]
  BY <1>0
<1>4. at'[a] \in 1 .. Len(items[a]) + 1 BY <1>1, <1>3
<1> QED BY <1>2, <1>3, <1>4, StepInv

LEMMA ConvertingInPlan ==
    ASSUME AdoptInv, NEW a \in Adopter, Converting(a)
    PROVE  at[a] \in 1 .. Len(items[a]) /\ pc[a] # "idle"
<1>1. Len(items[a]) \in Nat /\ at[a] \in 1 .. Len(items[a]) + 1
  BY DEF AdoptInv, ShapeInv, TargetInv
<1> QED BY <1>1 DEF Converting

LEMMA TargetExistsStep ==
    ASSUME AdoptInv, NEW a \in Adopter, TargetExists(a) PROVE AdoptInv'
<1>1. at[a] \in 1 .. Len(items[a]) /\ pc[a] # "idle" BY ConvertingInPlan DEF TargetExists
<1>2. UNCHANGED <<world, items, targets>> BY DEF TargetExists
<1>3. RowsInv' /\ JournalInv' BY <1>2, WorldStays DEF world
<1>4. CASE at' = [at EXCEPT ![a] = @ + 1] /\ Goto(a, "convert")
  BY <1>1, <1>2, <1>3, <1>4, NextItemStep
<1>5. CASE UNCHANGED at /\ End(a, "ADOPT_CONFLICT")
  BY <1>2, <1>3, <1>5, SameTargets, EndStep
<1> QED BY <1>4, <1>5 DEF TargetExists

LEMMA TargetMissingStep ==
    ASSUME AdoptInv, NEW a \in Adopter, TargetMissing(a) PROVE AdoptInv'
<1>1. at[a] \in 1 .. Len(items[a]) /\ pc[a] # "idle" BY ConvertingInPlan DEF TargetMissing
<1>2. UNCHANGED <<world, items, at, targets>> BY DEF TargetMissing, call
<1>3. RowsInv' /\ JournalInv' BY <1>2, WorldStays DEF world
<1>4. Goto(a, "write") BY DEF TargetMissing
<1> QED BY <1>1, <1>2, <1>3, <1>4, GotoStep

(* What is written is an entry of the plan. *)
LEMMA WritingEntry ==
    ASSUME AdoptInv, NEW a \in Adopter, pc[a] = "write"
    PROVE  /\ at[a] \in 1 .. Len(items[a])
           /\ Item(a).name \in Name /\ Item(a).content \in Content
<1>1. at[a] \in 1 .. Len(items[a]) BY DEF AdoptInv, TargetInv
<1>2. items[a] \in Seq(ItemsOf(a)) BY DEF AdoptInv, ShapeInv
<1>3. at[a] \in DOMAIN items[a] BY <1>1, <1>2
<1> QED BY <1>1, <1>3 DEF Item, AdoptInv, PlanInv

LEMMA WriteTargetStep ==
    ASSUME AdoptInv, NEW a \in Adopter, WriteTarget(a) PROVE AdoptInv'
<1>1. pc[a] = "write" BY DEF WriteTarget
<1>2. /\ at[a] \in 1 .. Len(items[a])
      /\ Item(a).name \in Name /\ Item(a).content \in Content
  BY <1>1, WritingEntry
<1>3. dir' \in Table BY <1>2 DEF WriteTarget, AdoptInv, RowsInv, Table, Row
<1>4. RowsInv' /\ JournalInv' BY <1>3 DEF WriteTarget, AdoptInv, RowsInv, JournalInv
<1>5. /\ at' = [at EXCEPT ![a] = @ + 1] /\ Goto(a, "convert")
      /\ UNCHANGED <<items, targets>>
  BY DEF WriteTarget
<1> QED BY <1>1, <1>2, <1>4, <1>5, NextItemStep

LEMMA ConvertedStep ==
    ASSUME AdoptInv, NEW a \in Adopter, Converted(a) PROVE AdoptInv'
<1>1. pc[a] # "idle" /\ UNCHANGED <<world, items, at>> BY DEF Converted
<1>2. CASE \E S : Decide(a, S) /\ (S = {} \/ \E T : S = Names(a, T))
  BY <1>1, <1>2, DecideStep
<1>3. CASE Goto(a, "match") /\ UNCHANGED targets
  <2>1. RowsInv' /\ JournalInv' BY <1>1, WorldStays DEF world
  <2> QED BY <1>1, <1>3, <2>1, GotoStep
<1> QED BY <1>2, <1>3 DEF Converted

LEMMA MatchedStep ==
    ASSUME AdoptInv, NEW a \in Adopter, Matched(a) PROVE AdoptInv'
<1>1. pc[a] # "idle" /\ UNCHANGED <<world, items, at>> BY DEF Matched
<1>2. \E S : Decide(a, S) /\ (S = {} \/ \E T : S = Names(a, T)) BY DEF Matched
<1> QED BY <1>1, <1>2, DecideStep

LEMMA GateStep ==
    ASSUME AdoptInv, NEW a \in Adopter, Gate(a) PROVE AdoptInv'
<1>1. pc[a] = "baseline" /\ UNCHANGED <<world, items, at>> BY DEF Gate
<1>2. RowsInv' /\ JournalInv' BY <1>1, WorldStays DEF world
<1>3. /\ targets[a] \subseteq Name
      /\ targets[a] \subseteq {item.name : item \in ItemsOf(a)}
  BY <1>1 DEF AdoptInv, ShapeInv, TargetInv
<1>4. CASE End(a, "CHECKSUM_MISMATCH") /\ UNCHANGED targets
  BY <1>1, <1>2, <1>4, SameTargets, EndStep
<1> DEFINE rest == targets[a] \ Listed(ledger)
<1>5. CASE End(a, "ok") /\ targets' = [targets EXCEPT ![a] = rest]
  <2>1. rest \in SUBSET Name BY <1>3
  <2> QED BY <1>1, <1>2, <1>5, <2>1, EndStep
<1>6. CASE Goto(a, "record") /\ targets' = [targets EXCEPT ![a] = rest]
  <2>1. /\ pc' \in [Adopter -> PC] /\ pc'[a] = "record"
        /\ DOMAIN outcome' = Adopter
        /\ targets' \in [Adopter -> SUBSET Name] /\ targets'[a] = rest
        /\ at' \in [Adopter -> Nat] /\ at'[a] \in 1 .. Len(items[a]) + 1
        /\ \A b \in Adopter \ {a} :
              pc'[b] = pc[b] /\ at'[b] = at[b] /\ targets'[b] = targets[b]
    BY <1>1, <1>3, <1>6 DEF Goto, AdoptInv, ShapeInv, TargetInv, PC
  <2> QED BY <1>1, <1>2, <1>3, <2>1, StepInv
<1> QED BY <1>4, <1>5, <1>6 DEF Gate

(* The table after a batch that commits is one of rows. *)
LEMMA RecordTargetsStep ==
    ASSUME AdoptInv, NEW a \in Adopter, RecordTargets(a) PROVE AdoptInv'
<1>1. pc[a] = "record" /\ UNCHANGED <<journal, dir, execLog, items, at, targets>>
  BY DEF RecordTargets, call
<1>2. \E code : End(a, code) BY DEF RecordTargets
<1>3. ledger' \in Table BY <1>1, BatchAddsRows DEF RecordTargets, AdoptInv, RowsInv
<1>4. RowsInv' /\ JournalInv' BY <1>1, <1>3 DEF AdoptInv, RowsInv, JournalInv
<1> QED BY <1>1, <1>2, <1>4, SameTargets, EndStep

LEMMA CallFailsStep ==
    ASSUME AdoptInv, NEW a \in Adopter, CallFails(a) PROVE AdoptInv'
<1>1. UNCHANGED <<journal, dir, execLog, items, at, targets>> BY DEF CallFails, call
<1>2. End(a, "DATABASE_WORKER_UNAVAILABLE") BY DEF CallFails
<1>3. ledger' \in Table BY BatchAddsRows DEF CallFails, AdoptInv, RowsInv
<1>4. RowsInv' /\ JournalInv' BY <1>1, <1>3 DEF AdoptInv, RowsInv, JournalInv
<1> QED BY <1>1, <1>2, <1>4, SameTargets, EndStep

LEMMA CrashStep ==
    ASSUME AdoptInv, NEW a \in Adopter, Crash(a) PROVE AdoptInv'
<1>1. UNCHANGED <<journal, ledger, execLog, items, at, targets>> BY DEF Crash, call
<1>2. End(a, "none") BY DEF Crash
<1>3. dir' \in Table
  <2>1. dir \in Table BY DEF AdoptInv, RowsInv
  <2>2. CASE UNCHANGED dir BY <2>1, <2>2
  <2>3. CASE pc[a] = "write" /\ dir' = [dir EXCEPT ![Item(a).name] = Torn]
    BY <2>1, <2>3, WritingEntry, SourceAssumption DEF Table, Row
  <2> QED BY <2>2, <2>3 DEF Crash
<1>4. RowsInv' /\ JournalInv' BY <1>1, <1>3 DEF AdoptInv, RowsInv, JournalInv
<1> QED BY <1>1, <1>2, <1>4, SameTargets, EndStep

(* Steps of the others leave the calls alone. *)
LEMMA OthersStep ==
    ASSUME AdoptInv, RowsInv', JournalInv', UNCHANGED <<pc, call, outcome>>
    PROVE  AdoptInv'
BY DEF AdoptInv, call, ShapeInv, PlanInv, TargetInv, ItemsOf

LEMMA GenerateStep == ASSUME AdoptInv, Generate PROVE AdoptInv'
<1> DEFINE entries == journal.entries
<1>1. PICK w \in When, c \in Source :
        journal' = [journal EXCEPT !.entries =
                       Append(@, [idx |-> Len(journal.entries), when |-> w, file |-> c])]
  BY DEF Generate
<1>2. entries \in Seq(JournalEntry) /\ journal.dialect \in STRING BY DEF AdoptInv, JournalInv
<1>3. [idx |-> Len(entries), when |-> w, file |-> c] \in JournalEntry BY <1>2 DEF JournalEntry
<1>4. JournalInv'
  <2>1. Append(entries, [idx |-> Len(entries), when |-> w, file |-> c]) \in Seq(JournalEntry)
    BY <1>2, <1>3
  <2> QED BY <1>1, <1>2, <2>1 DEF AdoptInv, JournalInv
<1>5. RowsInv' BY DEF Generate, AdoptInv, RowsInv
<1> QED BY <1>4, <1>5, OthersStep DEF Generate

LEMMA UpFileStep ==
    ASSUME AdoptInv, UpFile
    PROVE  AdoptInv' /\ \E n \in Name, c \in Content : Log!Execute(n, c)
<1>1. PICK n \in Listed(dir) \ Listed(ledger) :
        /\ ledger' = [ledger EXCEPT ![n] = dir[n]]
        /\ execLog' = Append(execLog, [name |-> n, content |-> dir[n]])
  BY DEF UpFile
<1>2. n \in Name /\ dir[n] \in Content /\ ledger[n] = None
  BY DEF Listed, AdoptInv, RowsInv, Table, Row
<1>3. Log!Execute(n, dir[n]) BY <1>1, <1>2 DEF Log!Execute
<1>4. ledger' \in Table BY <1>1, <1>2 DEF AdoptInv, RowsInv, Table, Row
<1>5. execLog' \in Seq(Entry)
  <2>1. [name |-> n, content |-> dir[n]] \in Entry BY <1>2 DEF Entry
  <2> QED BY <1>1, <2>1 DEF AdoptInv, RowsInv
<1>6. RowsInv' /\ JournalInv' BY <1>4, <1>5 DEF UpFile, AdoptInv, RowsInv, JournalInv
<1>7. AdoptInv' BY <1>6, OthersStep DEF UpFile
<1> QED BY <1>2, <1>3, <1>7

(***************************************************************************)
(* Theorems                                                                *)
(***************************************************************************)

LEMMA InvStep == ASSUME AdoptInv, [Next]_vars PROVE AdoptInv'
<1>1. ASSUME NEW a \in Adopter, Step(a) PROVE AdoptInv'
  BY <1>1, AdoptStep, TargetExistsStep, TargetMissingStep, WriteTargetStep, ConvertedStep,
     MatchedStep, GateStep, RecordTargetsStep, CallFailsStep, CrashStep DEF Step
<1>2. CASE Idle \/ UNCHANGED vars
  BY <1>2, WorldStays, OthersStep DEF Idle, vars, world
<1> QED BY <1>1, <1>2, GenerateStep, UpFileStep DEF Next

(* Every step of an adopter either adds rows or leaves the table alone. *)
LEMMA CallKeepsLog ==
    ASSUME AdoptInv, NEW a \in Adopter, Step(a)
    PROVE  Log!Record \/ UNCHANGED <<ledger, execLog>>
<1> DEFINE Stays == UNCHANGED <<ledger, execLog>>
           Commits == /\ pc[a] = "record" /\ targets[a] \cap Listed(ledger) = {}
                      /\ ledger' = Merge(ledger, Planned(a)) /\ UNCHANGED execLog
<1>2. CASE Commits
  <2>1. /\ ledger' \in Table
        /\ \A n \in Name : ledger[n] # None => ledger'[n] = ledger[n]
    BY <1>2, BatchAddsRows
  <2> QED BY <1>2, <2>1 DEF Log!Record, Log!Table, Log!Row, Table, Row
<1>3. RecordTargets(a) => Stays \/ Commits BY DEF RecordTargets
<1>4. CallFails(a) => Stays \/ Commits BY DEF CallFails
<1>5. ~ RecordTargets(a) /\ ~ CallFails(a) => Stays
  BY DEF Step, Adopt, TargetExists, TargetMissing, WriteTarget, Converted, Matched, Gate,
     Crash, world
<1> QED BY <1>2, <1>3, <1>4, <1>5

(* `TypeOK`: directory and table hold contents under names, calls stay     *)
(* within their plans, and the plan of a call that goes on is in range.    *)
THEOREM AdoptTyped == Spec => []TypeOK
<1>1. Init => AdoptInv BY InitInv
<1>2. AdoptInv /\ [Next]_vars => AdoptInv' BY InvStep
<1>3. AdoptInv => TypeOK BY InvTyped
<1> QED BY <1>1, <1>2, <1>3, PTL DEF Spec

(* `AdoptImplementsLog`: however many adopters and ups overlap, crash and  *)
(* are called again, they keep the promise of the tracking table.          *)
THEOREM AdoptersImplementLog == Spec => AdoptImplementsLog
<1>1. Init => AdoptInv /\ Log!Init BY InitInv DEF Init, Log!Init, Log!Empty, Empty
<1>2. AdoptInv /\ [Next]_vars => AdoptInv' BY InvStep
<1>3. AdoptInv /\ [Next]_vars => [Log!Next]_(Log!logVars)
  <2> SUFFICES ASSUME AdoptInv, [Next]_vars PROVE Log!Next \/ UNCHANGED <<ledger, execLog>>
    BY DEF Log!logVars
  <2>1. ASSUME NEW a \in Adopter, Step(a) PROVE Log!Record \/ UNCHANGED <<ledger, execLog>>
    BY <2>1, CallKeepsLog
  <2>2. CASE UpFile BY <2>2, UpFileStep DEF Log!Next
  <2>3. CASE Generate \/ Idle \/ UNCHANGED vars BY <2>3 DEF Generate, Idle, vars, world
  <2> QED BY <2>1, <2>2, <2>3 DEF Next, Log!Next
<1> QED BY <1>1, <1>2, <1>3, PTL DEF Spec, AdoptImplementsLog, Log!Spec

(***************************************************************************)
(* Plans are stable: entries that drizzle-kit appends leave the plan of    *)
(* the earlier ones as it was                                              *)
(***************************************************************************)

(* drizzle-kit numbers the entries from 0 on. *)
Numbered(entries) ==
    /\ {entries[k].idx : k \in DOMAIN entries} = 0 .. Len(entries) - 1
    /\ \A k, l \in DOMAIN entries : entries[k].idx = entries[l].idx => k = l

LEMMA NumberedBelow ==
    ASSUME NEW entries \in Seq(JournalEntry), Numbered(entries)
    PROVE  \A k \in DOMAIN entries : entries[k].idx < Len(entries)
<1>1. \A k \in DOMAIN entries : entries[k].idx \in 0 .. Len(entries) - 1 BY DEF Numbered
<1> QED BY <1>1

LEMMA NumberedAppend ==
    ASSUME NEW entries \in Seq(JournalEntry), Numbered(entries),
           NEW e \in JournalEntry, e.idx = Len(entries)
    PROVE  Numbered(Append(entries, e))
<1> DEFINE n == Len(entries)
           longer == Append(entries, e)
<1>1. /\ n \in Nat /\ DOMAIN entries = 1 .. n /\ DOMAIN longer = 1 .. n + 1
      /\ Len(longer) = n + 1 /\ longer[n + 1].idx = n
      /\ \A k \in 1 .. n : longer[k] = entries[k]
  OBVIOUS
<1>2. /\ \A k \in 1 .. n : entries[k].idx \in 0 .. n - 1
      /\ \A v \in 0 .. n - 1 : \E k \in 1 .. n : entries[k].idx = v
      /\ \A k, l \in 1 .. n : entries[k].idx = entries[l].idx => k = l
  BY <1>1 DEF Numbered
<1> HIDE DEF n, longer
<1>3. \A k \in 1 .. n + 1 : k \in 1 .. n \/ k = n + 1 BY <1>1
<1>4. \A k \in 1 .. n + 1 : longer[k].idx \in 0 .. n BY <1>1, <1>2, <1>3
<1>5. ASSUME NEW v \in 0 .. n PROVE \E k \in 1 .. n + 1 : longer[k].idx = v
  <2>1. CASE v = n BY <1>1, <2>1
  <2>2. CASE v \in 0 .. n - 1
    <3>1. PICK k \in 1 .. n : entries[k].idx = v BY <1>2, <2>2
    <3>2. k \in 1 .. n + 1 /\ longer[k].idx = v BY <1>1, <3>1
    <3> QED BY <3>2
  <2> QED BY <1>1, <2>1, <2>2
<1>6. ASSUME NEW k \in 1 .. n + 1, NEW l \in 1 .. n + 1, longer[k].idx = longer[l].idx
      PROVE  k = l
  BY <1>1, <1>2, <1>3, <1>6
<1>7. {longer[k].idx : k \in 1 .. n + 1} = 0 .. n BY <1>4, <1>5
<1>8. 0 .. Len(longer) - 1 = 0 .. n BY <1>1
<1> QED BY <1>1, <1>6, <1>7, <1>8 DEF Numbered, longer

(* The entry of a journal whose place is i stays there. *)
LEMMA SortedPrefix ==
    ASSUME NEW entries \in Seq(JournalEntry), NEW e \in JournalEntry,
           e.idx = Len(entries), Numbered(entries),
           NEW i \in 1 .. Len(entries)
    PROVE  Sorted(Append(entries, e))[i] = Sorted(entries)[i]
<1> DEFINE n == Len(entries)
           longer == Append(entries, e)
           all == {entries[k] : k \in DOMAIN entries}
           all2 == {longer[k] : k \in DOMAIN longer}
           below(x) == {k \in DOMAIN entries : entries[k].idx < x.idx}
           below2(x) == {k \in DOMAIN longer : longer[k].idx < x.idx}
<1>1. /\ n \in Nat /\ DOMAIN entries = 1 .. n /\ DOMAIN longer = 1 .. n + 1
      /\ longer[n + 1] = e
      /\ \A k \in 1 .. n : longer[k] = entries[k] /\ entries[k] \in JournalEntry
  OBVIOUS
<1>2. /\ \A k \in 1 .. n : entries[k].idx \in Nat
      /\ \A k \in 1 .. n : entries[k].idx < n
  <2>1. \A k \in DOMAIN entries : entries[k].idx < n BY NumberedBelow
  <2> QED BY <1>1, <2>1 DEF JournalEntry
<1>3. all2 = all \cup {e} BY <1>1
<1>4. ASSUME NEW x \in all PROVE below2(x) = below(x)
  <2>1. ~ (longer[n + 1].idx < x.idx) BY <1>1, <1>2
  <2>2. /\ below2(x) = {k \in 1 .. n + 1 : longer[k].idx < x.idx}
        /\ below(x) = {k \in 1 .. n : entries[k].idx < x.idx}
    BY <1>1
  <2>3. 1 .. n + 1 = (1 .. n) \cup {n + 1} BY <1>1
  <2>4. \A k \in 1 .. n : longer[k] = entries[k] BY <1>1
  <2> HIDE DEF longer, n, below, below2
  <2> QED BY <2>1, <2>2, <2>3, <2>4
<1>5. Cardinality(below2(e)) = n
  <2>1. below2(e) = 1 .. n
    <3>1. \A k \in 1 .. n : longer[k].idx < e.idx BY <1>1, <1>2
    <3>2. ~ (longer[n + 1].idx < e.idx) BY <1>1
    <3>3. below2(e) = {k \in 1 .. n + 1 : longer[k].idx < e.idx} BY <1>1
    <3>4. 1 .. n + 1 = (1 .. n) \cup {n + 1} /\ n + 1 \notin 1 .. n BY <1>1
    <3> DEFINE less(k) == longer[k].idx < e.idx
    <3>5. /\ \A k \in 1 .. n : less(k)
          /\ ~ less(n + 1)
          /\ below2(e) = {k \in 1 .. n + 1 : less(k)}
      BY <3>1, <3>2, <3>3
    <3> HIDE DEF longer, below2, less, n
    <3> QED BY <3>4, <3>5
  <2>2. n \in Nat BY <1>1
  <2> HIDE DEF below2, n
  <2> QED BY <2>1, <2>2, FS_Interval
<1> DEFINE size(x) == Cardinality(below(x))
           size2(x) == Cardinality(below2(x))
           place == {x \in all : size(x) = i - 1}
           place2 == {x \in all2 : size2(x) = i - 1}
<1>6. place2 = place
  <2>1. size2(e) # i - 1
    <3>1. size2(e) = n BY <1>5
    <3> HIDE DEF size2
    <3> QED BY <1>1, <3>1
  <2>2. ASSUME NEW x \in all PROVE size2(x) = size(x)
    <3>1. below2(x) = below(x) BY <1>4
    <3> HIDE DEF below, below2
    <3> QED BY <3>1
  <2> HIDE DEF all, all2, size, size2
  <2>3. ASSUME NEW x PROVE x \in place2 <=> x \in place
    BY <1>3, <2>1, <2>2
  <2> HIDE DEF place, place2
  <2> QED BY <2>3
<1>7. i \in DOMAIN entries /\ i \in DOMAIN longer BY <1>1
<1>8. Sorted(longer)[i] = TheOne(place2) /\ Sorted(entries)[i] = TheOne(place)
  BY <1>7, Zenon DEF Sorted
<1> HIDE DEF place, place2
<1> QED BY <1>6, <1>8

LEMMA PlanPrefix ==
    ASSUME NEW entries \in Seq(JournalEntry), NEW e \in JournalEntry,
           e.idx = Len(entries), Numbered(entries),
           NEW i \in DOMAIN Plan(entries)
    PROVE  /\ i \in DOMAIN Plan(Append(entries, e))
           /\ Plan(Append(entries, e))[i] = Plan(entries)[i]
<1> DEFINE s == Sorted(entries)
           t == Sorted(Append(entries, e))
           n == Len(entries)
<1>1. n \in Nat /\ DOMAIN s = 1 .. n /\ DOMAIN t = 1 .. n + 1 BY DEF Sorted
<1>2. i \in 1 .. n BY <1>1 DEF Plan
<1>3. \A k \in 1 .. n : t[k] = s[k] BY SortedPrefix
<1> HIDE DEF s, t, n
<1>4. Second(t, i) = Second(s, i)
  <2>1. [k \in 1 .. i |-> t[k].when \div Milli] = [k \in 1 .. i |-> s[k].when \div Milli]
    BY <1>1, <1>2, <1>3
  <2> QED BY <2>1 DEF Second
<1>5. /\ Plan(entries)[i] = [name |-> Second(s, i), when |-> s[i].when, content |-> s[i].file]
      /\ Plan(Append(entries, e))[i] =
            [name |-> Second(t, i), when |-> t[i].when, content |-> t[i].file]
      /\ i \in DOMAIN Plan(Append(entries, e))
  BY <1>1, <1>2 DEF Plan, s, t
<1> QED BY <1>2, <1>3, <1>4, <1>5

(***************************************************************************)
(* With mark_applied "auto" only what drizzle has executed is recorded     *)
(***************************************************************************)

NumberedInv == Numbered(journal.entries)

(* A call that goes on, or has answered "ok". *)
Live(a) == pc[a] # "idle" \/ outcome[a] = "ok"

(* The plan of a call is the plan of the journal's first entries. *)
PrefixInv ==
    \A a \in Adopter : Live(a) =>
        \A i \in DOMAIN items[a] :
            i \in DOMAIN Plan(journal.entries) /\ items[a][i] = Plan(journal.entries)[i]

(* What such a call wants on record was in drizzle's table. *)
MatchedInv ==
    \A a \in Adopter :
        mark[a] = "auto" /\ pc[a] \in {"baseline", "record"} =>
            drizzle # None /\ targets[a] \subseteq Names(a, drizzle)

RecordInv == DOMAIN mark = Adopter /\ NumberedInv /\ PrefixInv /\ MatchedInv

LEMMA InitRecordInv == ASSUME Init PROVE RecordInv
<1>1. NumberedInv BY JournalAssumption DEF Init, NumberedInv, Numbered
<1>2. DOMAIN mark = Adopter /\ PrefixInv /\ MatchedInv
  BY DEF Init, PrefixInv, Live, MatchedInv
<1> QED BY <1>1, <1>2 DEF RecordInv

(* A step of one call concerns that call only. *)
LEMMA StepIsLocal ==
    ASSUME AdoptInv, RecordInv, NEW a \in Adopter, Step(a), NEW b \in Adopter, b # a
    PROVE  /\ pc'[b] = pc[b] /\ mark'[b] = mark[b] /\ items'[b] = items[b]
           /\ targets'[b] = targets[b] /\ at'[b] = at[b] /\ outcome'[b] = outcome[b]
<1>1. pc'[b] = pc[b]
  BY DEF Step, Adopt, TargetExists, TargetMissing, WriteTarget, Converted, Matched, Gate,
     RecordTargets, CallFails, Crash, Decide, Goto, End, AdoptInv
<1>4. outcome'[b] = outcome[b]
  BY DEF Step, Adopt, TargetExists, TargetMissing, WriteTarget, Converted, Matched, Gate,
     RecordTargets, CallFails, Crash, Decide, Goto, End, AdoptInv, ShapeInv
<1>5. at'[b] = at[b]
  BY DEF Step, Adopt, TargetExists, TargetMissing, WriteTarget, Converted, Matched, Gate,
     RecordTargets, CallFails, Crash, call, AdoptInv, ShapeInv
<1>2. mark'[b] = mark[b] /\ items'[b] = items[b]
  BY DEF Step, Adopt, TargetExists, TargetMissing, WriteTarget, Converted, Matched, Gate,
     RecordTargets, CallFails, Crash, call, AdoptInv, ShapeInv, RecordInv
<1>3. targets'[b] = targets[b]
  BY DEF Step, Adopt, TargetExists, TargetMissing, WriteTarget, Converted, Matched, Gate,
     RecordTargets, CallFails, Crash, call, Decide, AdoptInv, ShapeInv
<1> QED BY <1>1, <1>2, <1>3, <1>4, <1>5

(* Once planned, a call keeps its plan and its choice to the end. *)
LEMMA PlanIsKept ==
    ASSUME AdoptInv, NEW a \in Adopter, Step(a), \A m \in Mark : ~ Adopt(a, m)
    PROVE  UNCHANGED <<mark, items>> /\ pc[a] # "idle"
<1>1. UNCHANGED <<mark, items>>
  BY DEF Step, TargetExists, TargetMissing, WriteTarget, Converted, Matched, Gate,
     RecordTargets, CallFails, Crash, call
<1>2. pc[a] # "idle"
  BY DEF Step, TargetExists, TargetMissing, WriteTarget, Converting, Converted, Matched,
     Gate, RecordTargets, CallFails, Crash
<1> QED BY <1>1, <1>2

(* What a step of the call leaves it to record. *)
LEMMA StepMatches ==
    ASSUME AdoptInv, RecordInv, NEW a \in Adopter, Step(a),
           mark'[a] = "auto", pc'[a] \in {"baseline", "record"}
    PROVE  drizzle # None /\ targets'[a] \subseteq Names(a, drizzle)'
<1>1. ASSUME NEW m \in Mark, Adopt(a, m) PROVE FALSE
  BY <1>1 DEF Adopt, Goto, End, AdoptInv
<1>2. UNCHANGED <<mark, items>> BY <1>1, PlanIsKept
<1>3. UNCHANGED drizzle
  BY <1>1 DEF Step, TargetExists, TargetMissing, WriteTarget, Converted, Matched, Gate,
     RecordTargets, CallFails, Crash, world
<1>4. Names(a, drizzle)' = Names(a, drizzle) BY <1>2, <1>3 DEF Names
<1>5. Matched(a) \/ Gate(a) \/ Converted(a)
  BY <1>1 DEF Step, TargetExists, TargetMissing, WriteTarget, RecordTargets, CallFails, Crash,
     Goto, End, AdoptInv
<1>6. CASE Converted(a)
  <2>1. ~ (mark[a] = "all") /\ (mark[a] # "none") BY <1>2
  <2>2. Goto(a, "match") BY <1>6, <2>1 DEF Converted
  <2> QED BY <2>2 DEF Goto, AdoptInv
<1>7. CASE Matched(a)
  <2> DEFINE names == IF drizzle = None THEN {} ELSE Names(a, drizzle)
  <2>1. Decide(a, names) BY <1>7 DEF Matched
  <2>2. names # {} BY <2>1 DEF Decide, End, AdoptInv
  <2>3. targets'[a] = names BY <2>1 DEF Decide, AdoptInv, ShapeInv
  <2> QED BY <1>4, <2>2, <2>3
<1>8. CASE Gate(a)
  <2>1. pc[a] = "baseline" BY <1>8 DEF Gate
  <2>2. drizzle # None /\ targets[a] \subseteq Names(a, drizzle)
    BY <1>2, <2>1 DEF RecordInv, MatchedInv
  <2>3. targets'[a] \subseteq targets[a] BY <1>8 DEF Gate, AdoptInv, ShapeInv
  <2> QED BY <1>4, <2>2, <2>3
<1> QED BY <1>5, <1>6, <1>7, <1>8

LEMMA StepRecordInv ==
    ASSUME AdoptInv, RecordInv, NEW a \in Adopter, Step(a) PROVE RecordInv'
<1>1. UNCHANGED <<journal, drizzle>>
  BY DEF Step, Adopt, TargetExists, TargetMissing, WriteTarget, Converted, Matched, Gate,
     RecordTargets, CallFails, Crash, world
<1>2. DOMAIN mark' = Adopter
  BY DEF Step, Adopt, TargetExists, TargetMissing, WriteTarget, Converted, Matched, Gate,
     RecordTargets, CallFails, Crash, call, RecordInv
<1>3. NumberedInv' BY <1>1 DEF RecordInv, NumberedInv
<1>4. PrefixInv'
  <2> SUFFICES ASSUME NEW b \in Adopter, Live(b)', NEW i \in DOMAIN items'[b]
               PROVE  /\ i \in DOMAIN Plan(journal.entries)
                      /\ items'[b][i] = Plan(journal.entries)[i]
    BY <1>1 DEF PrefixInv
  <2>1. CASE b # a BY <2>1, StepIsLocal DEF RecordInv, PrefixInv, Live
  <2>2. CASE b = a /\ \E m \in Mark : Adopt(a, m)
    <3>1. items'[a] = Plan(journal.entries) BY <2>2 DEF Adopt, AdoptInv, ShapeInv
    <3> QED BY <2>2, <3>1
  <2>3. CASE b = a /\ \A m \in Mark : ~ Adopt(a, m)
    BY <2>3, PlanIsKept DEF RecordInv, PrefixInv, Live
  <2> QED BY <2>1, <2>2, <2>3
<1>5. MatchedInv'
  <2> SUFFICES ASSUME NEW b \in Adopter, mark'[b] = "auto", pc'[b] \in {"baseline", "record"}
               PROVE  drizzle # None /\ targets'[b] \subseteq Names(b, drizzle)'
    BY <1>1 DEF MatchedInv
  <2>1. CASE b # a
    <3>1. Names(b, drizzle)' = Names(b, drizzle) BY <1>1, <2>1, StepIsLocal DEF Names
    <3> QED BY <2>1, <3>1, StepIsLocal DEF RecordInv, MatchedInv
  <2>2. CASE b = a BY <2>2, StepMatches
  <2> QED BY <2>1, <2>2
<1> QED BY <1>2, <1>3, <1>4, <1>5 DEF RecordInv

LEMMA GenerateRecordInv == ASSUME AdoptInv, RecordInv, Generate PROVE RecordInv'
<1> DEFINE entries == journal.entries
<1>1. PICK w \in When, c \in Source :
        journal' = [journal EXCEPT !.entries =
                       Append(@, [idx |-> Len(journal.entries), when |-> w, file |-> c])]
  BY DEF Generate
<1> DEFINE e == [idx |-> Len(entries), when |-> w, file |-> c]
<1>2. entries \in Seq(JournalEntry) BY DEF AdoptInv, JournalInv
<1>3. e \in JournalEntry /\ e.idx = Len(entries) BY <1>2 DEF JournalEntry
<1>4. journal'.entries = Append(entries, e) BY <1>1 DEF AdoptInv, JournalInv
<1>5. UNCHANGED <<drizzle, pc, mark, items, targets, outcome>> BY DEF Generate, call
<1>6. Numbered(entries) BY DEF RecordInv, NumberedInv
<1>7. NumberedInv' BY <1>2, <1>3, <1>4, <1>6, NumberedAppend DEF NumberedInv
<1>8. PrefixInv'
  <2> SUFFICES ASSUME NEW a \in Adopter, Live(a), NEW i \in DOMAIN items[a]
               PROVE  /\ i \in DOMAIN Plan(Append(entries, e))
                      /\ items[a][i] = Plan(Append(entries, e))[i]
    BY <1>4, <1>5 DEF PrefixInv, Live
  <2>1. i \in DOMAIN Plan(entries) /\ items[a][i] = Plan(entries)[i]
    BY DEF RecordInv, PrefixInv
  <2> HIDE DEF entries, e
  <2> QED BY <1>2, <1>3, <1>6, <2>1, PlanPrefix
<1>9. MatchedInv' BY <1>5 DEF RecordInv, MatchedInv, Names
<1> QED BY <1>5, <1>7, <1>8, <1>9 DEF RecordInv

LEMMA RecordInvStep == ASSUME AdoptInv, RecordInv, [Next]_vars PROVE RecordInv'
<1>1. CASE UpFile \/ Idle \/ UNCHANGED vars
  BY <1>1 DEF UpFile, Idle, vars, world, call, RecordInv, NumberedInv, PrefixInv,
            Live, MatchedInv, Names
<1> QED BY <1>1, StepRecordInv, GenerateRecordInv DEF Next

(* `RecordedWasExecuted`: a call with mark_applied "auto" puts only those  *)
(* files on record that drizzle has executed, however the journal grows    *)
(* and whoever else converts it meanwhile.                                 *)
THEOREM OnlyExecutedIsRecorded == Spec => RecordedWasExecuted
<1>1. Init => AdoptInv /\ RecordInv BY InitInv, InitRecordInv
<1>2. AdoptInv /\ RecordInv /\ [Next]_vars => AdoptInv' /\ RecordInv'
  BY InvStep, RecordInvStep
<1>3. AdoptInv /\ RecordInv /\ [Next]_vars =>
        [\A a \in Adopter :
            (pc[a] = "record" /\ pc'[a] = "idle" /\ mark[a] = "auto")
            => Listed(ledger') \subseteq Listed(ledger) \cup Deployed]_vars
  <2> SUFFICES ASSUME AdoptInv, RecordInv, Next, NEW a \in Adopter,
                      pc[a] = "record", pc'[a] = "idle", mark[a] = "auto"
               PROVE  Listed(ledger') \subseteq Listed(ledger) \cup Deployed
    OBVIOUS
  <2>1. drizzle # None /\ targets[a] \subseteq Names(a, drizzle) BY DEF RecordInv, MatchedInv
  <2>2. Names(a, drizzle) \subseteq Deployed
    BY <2>1 DEF Names, Deployed, RecordInv, PrefixInv, Live
  <2>3. PICK b \in Adopter : Step(b)
    BY DEF Next, Generate, UpFile, Idle, vars
  <2>4. b = a BY <2>3, StepIsLocal
  <2>5. \/ UNCHANGED ledger
        \/ targets[a] \cap Listed(ledger) = {} /\ ledger' = Merge(ledger, Planned(a))
    BY <2>3, <2>4 DEF Step, Adopt, TargetExists, TargetMissing, WriteTarget, Converted,
       Matched, Gate, RecordTargets, CallFails, Crash, world
  <2>6. \A n \in Name : Planned(a)[n] # None <=> n \in targets[a] BY PlannedRows
  <2>7. Listed(ledger') \subseteq Listed(ledger) \cup targets[a]
    BY <2>5, <2>6 DEF Listed, Merge
  <2> QED BY <2>1, <2>2, <2>7
<1> QED BY <1>1, <1>2, <1>3, PTL DEF Spec, RecordedWasExecuted

(***************************************************************************)
(* The names of a plan increase                                            *)
(***************************************************************************)

(* Below an entry of a numbered journal there are as many as its number. *)
LEMMA CountBelow ==
    ASSUME NEW entries \in Seq(JournalEntry), Numbered(entries), NEW k \in DOMAIN entries
    PROVE  Cardinality({l \in DOMAIN entries : entries[l].idx < entries[k].idx}) = entries[k].idx
<1> DEFINE n == Len(entries)
           v == entries[k].idx
           S == {l \in DOMAIN entries : entries[l].idx < v}
           f == [l \in S |-> entries[l].idx]
<1>1. n \in Nat /\ DOMAIN entries = 1 .. n OBVIOUS
<1>2. /\ \A l \in DOMAIN entries : entries[l].idx \in 0 .. n - 1
      /\ \A t \in 0 .. n - 1 : \E l \in DOMAIN entries : entries[l].idx = t
      /\ \A l, m \in DOMAIN entries : entries[l].idx = entries[m].idx => l = m
  BY DEF Numbered
<1>3. v \in 0 .. n - 1 BY <1>2
<1>4. \A l : l \in S <=> l \in DOMAIN entries /\ entries[l].idx < v OBVIOUS
<1> HIDE DEF S, v, n
<1>5. f \in Bijection(S, 0 .. v - 1)
  <2>1. f \in [S -> 0 .. v - 1] BY <1>1, <1>2, <1>3, <1>4
  <2>2. IsInjective(f) BY <1>2, <1>4 DEF IsInjective
  <2>3. ASSUME NEW t \in 0 .. v - 1 PROVE \E l \in S : f[l] = t
    <3>1. t \in 0 .. n - 1 /\ t < v BY <1>1, <1>3
    <3>2. PICK l \in DOMAIN entries : entries[l].idx = t BY <1>2, <3>1
    <3>3. l \in S BY <1>4, <3>1, <3>2
    <3> QED BY <3>2, <3>3
  <2> QED BY <2>1, <2>2, <2>3 DEF Bijection, Injection, Surjection
<1>6. ExistsBijection(0 .. v - 1, S)
  <2>1. ExistsBijection(S, 0 .. v - 1) BY <1>5 DEF ExistsBijection
  <2> QED BY <2>1, Fun_ExistsBijSymmetric
<1>7. IsFiniteSet(0 .. v - 1) /\ Cardinality(0 .. v - 1) = v
  <2>1. v - 1 \in Int /\ 0 \in Int /\ v = IF 0 > v - 1 THEN 0 ELSE v - 1 - 0 + 1 BY <1>1, <1>3
  <2>2. /\ IsFiniteSet(0 .. v - 1)
        /\ Cardinality(0 .. v - 1) = IF 0 > v - 1 THEN 0 ELSE v - 1 - 0 + 1
    BY <2>1, FS_Interval, Zenon
  <2> QED BY <2>1, <2>2
<1>8. Cardinality(S) = v BY <1>6, <1>7, FS_Bijection
<1> QED BY <1>8 DEF S, v

(* Each place of a numbered journal is taken, by the entry of that number. *)
LEMMA SortedEntry ==
    ASSUME NEW entries \in Seq(JournalEntry), Numbered(entries), NEW i \in DOMAIN entries
    PROVE  /\ Sorted(entries)[i] \in JournalEntry
           /\ Sorted(entries)[i] \in {entries[k] : k \in DOMAIN entries}
           /\ Sorted(entries)[i].idx = i - 1
<1> DEFINE n == Len(entries)
           all == {entries[k] : k \in DOMAIN entries}
           below(x) == {k \in DOMAIN entries : entries[k].idx < x.idx}
           size(x) == Cardinality(below(x))
           place == {x \in all : size(x) = i - 1}
<1>1. n \in Nat /\ DOMAIN entries = 1 .. n /\ i \in 1 .. n OBVIOUS
<1>2. PICK k \in DOMAIN entries : entries[k].idx = i - 1
  <2>1. i - 1 \in 0 .. n - 1 BY <1>1
  <2>2. {entries[k].idx : k \in DOMAIN entries} = 0 .. n - 1 BY DEF Numbered
  <2> HIDE DEF n
  <2> QED BY <2>1, <2>2
<1>3. \A l \in DOMAIN entries : size(entries[l]) = entries[l].idx BY CountBelow
<1> HIDE DEF size
<1>4. \A x \in all : size(x) = x.idx BY <1>3
<1>5. entries[k] \in place BY <1>2, <1>3
<1>6. \A x \in place : x \in all /\ x.idx = i - 1 BY <1>4
<1>7. Sorted(entries)[i] = TheOne(place) BY Zenon DEF Sorted, size
<1> HIDE DEF place
<1>8. TheOne(place) \in place BY <1>5 DEF TheOne
<1>9. all \subseteq JournalEntry BY <1>1
<1> QED BY <1>6, <1>7, <1>8, <1>9

(* `f` is the run of the loop over the first n of the times `w`. *)
IsRun(w, n, f) ==
    /\ f \in [0 .. n -> Int]
    /\ f[0] = 0
    /\ \A k \in 1 .. n : f[k] = IF w[k] > f[k - 1] THEN w[k] ELSE f[k - 1] + 1

(* A set of natural numbers has a least one. *)
LEMMA LeastExists ==
    ASSUME NEW S, S \subseteq Nat, S # {}
    PROVE  \E g \in S : \A s \in S : g <= s
<1>1. PICK g \in S : \A s \in S : ~ (<<s, g>> \in OpToRel(<, Nat))
  BY NatLessThanWellFounded, WFMin, Zenon
<1>2. \A s \in S : ~ (s < g) BY <1>1, Zenon DEF OpToRel
<1> QED BY <1>2

LEMMA RunExists ==
    ASSUME NEW w \in Seq(Int), NEW n \in 0 .. Len(w)
    PROVE  \E f : IsRun(w, n, f)
<1> DEFINE Without == {m \in 0 .. Len(w) : ~ \E f : IsRun(w, m, f)}
<1> SUFFICES ASSUME Without # {} PROVE FALSE OBVIOUS
<1>0. Len(w) \in Nat OBVIOUS
<1>1. Without \subseteq Nat BY <1>0
<1> HIDE DEF Without
<1>2. PICK g \in Without : \A s \in Without : g <= s BY <1>1, LeastExists
<1>3. g \in 0 .. Len(w) /\ ~ \E f : IsRun(w, g, f) BY <1>2 DEF Without
<1>4. CASE g = 0
  <2>1. IsRun(w, 0, [k \in 0 .. 0 |-> 0]) BY DEF IsRun
  <2> QED BY <1>3, <1>4, <2>1
<1>5. CASE g # 0
  <2>1. g - 1 \in 0 .. Len(w) /\ g \in 1 .. Len(w) BY <1>0, <1>3, <1>5
  <2>2. ~ (g - 1 \in Without) BY <1>2, <2>1
  <2>3. PICK f : IsRun(w, g - 1, f) BY <2>1, <2>2 DEF Without
  <2> DEFINE last == IF w[g] > f[g - 1] THEN w[g] ELSE f[g - 1] + 1
             h == [k \in 0 .. g |-> IF k = g THEN last ELSE f[k]]
  <2>4. /\ f \in [0 .. g - 1 -> Int] /\ f[0] = 0
        /\ \A k \in 1 .. g - 1 : f[k] = IF w[k] > f[k - 1] THEN w[k] ELSE f[k - 1] + 1
    BY <2>3 DEF IsRun
  <2>5. last \in Int BY <2>1, <2>4
  <2>6. h[g] = last /\ \A k \in 0 .. g - 1 : h[k] = f[k] BY <2>1
  <2>7. h \in [0 .. g -> Int] BY <2>1, <2>4, <2>5
  <2> HIDE DEF h
  <2>8. ASSUME NEW k \in 1 .. g
        PROVE  h[k] = IF w[k] > h[k - 1] THEN w[k] ELSE h[k - 1] + 1
    <3>1. CASE k = g BY <2>1, <2>6, <3>1
    <3>2. CASE k # g
      <4>1. k \in 1 .. g - 1 /\ k - 1 \in 0 .. g - 1 /\ k \in 0 .. g - 1 BY <2>1, <3>2
      <4> QED BY <2>4, <2>6, <4>1
    <3> QED BY <3>1, <3>2
  <2>9. IsRun(w, g, h) BY <2>1, <2>4, <2>6, <2>7, <2>8 DEF IsRun
  <2> QED BY <1>3, <2>9
<1> QED BY <1>4, <1>5

(* `Bumped` is where the run ends. *)
LEMMA BumpedIsRun ==
    ASSUME NEW w \in Seq(Int), NEW f, IsRun(w, Len(w), f)
    PROVE  Bumped(w) = f[Len(w)]
<1> DEFINE n == Len(w)
           Eq(h) == h = [k \in 0 .. n |->
                           IF k = 0 THEN 0
                           ELSE IF w[k] > h[k - 1] THEN w[k] ELSE h[k - 1] + 1]
           g == CHOOSE h : Eq(h)
<1>0. n \in Nat OBVIOUS
<1>1. /\ f \in [0 .. n -> Int] /\ f[0] = 0
      /\ \A k \in 1 .. n : f[k] = IF w[k] > f[k - 1] THEN w[k] ELSE f[k - 1] + 1
  BY DEF IsRun
<1>2. Eq(f)
  <2>1. ASSUME NEW k \in 0 .. n
        PROVE  f[k] = IF k = 0 THEN 0 ELSE IF w[k] > f[k - 1] THEN w[k] ELSE f[k - 1] + 1
    <3>1. CASE k = 0 BY <1>1, <3>1
    <3>2. CASE k # 0
      <4>1. k \in 1 .. n BY <1>0, <3>2
      <4> QED BY <1>1, <3>2, <4>1
    <3> QED BY <3>1, <3>2
  <2> QED BY <1>1, <2>1
<1>3. Eq(g)
  <2> HIDE DEF Eq
  <2> QED BY <1>2
<1>4. Bumped(w) = g[n] BY Zenon DEF Bumped
<1> HIDE DEF g
<1>5. \A k \in 0 .. n : g[k] = IF k = 0 THEN 0
                              ELSE IF w[k] > g[k - 1] THEN w[k] ELSE g[k - 1] + 1
  BY <1>3, Zenon
<1> HIDE DEF n, Eq
<1>6. \A k \in 0 .. n : g[k] = f[k]
  <2> DEFINE D == {k \in 0 .. n : g[k] # f[k]}
  <2> SUFFICES ASSUME D # {} PROVE FALSE OBVIOUS
  <2>1. D \subseteq Nat BY <1>0
  <2> HIDE DEF D
  <2>2. PICK d \in D : \A s \in D : d <= s BY <2>1, LeastExists
  <2>3. d \in 0 .. n /\ g[d] # f[d] BY <2>2 DEF D
  <2>4. CASE d = 0 BY <1>0, <1>1, <1>5, <2>3, <2>4
  <2>5. CASE d # 0
    <3>1. d \in 1 .. n /\ d - 1 \in 0 .. n BY <1>0, <2>3, <2>5
    <3>2. ~ (d - 1 \in D) BY <2>2, <3>1
    <3>3. g[d - 1] = f[d - 1] BY <3>1, <3>2 DEF D
    <3>4. g[d] = IF w[d] > g[d - 1] THEN w[d] ELSE g[d - 1] + 1 BY <1>5, <2>3, <2>5
    <3>5. f[d] = IF w[d] > f[d - 1] THEN w[d] ELSE f[d - 1] + 1 BY <1>1, <3>1
    <3> QED BY <2>3, <3>3, <3>4, <3>5
  <2> QED BY <2>4, <2>5
<1> QED BY <1>0, <1>4, <1>6 DEF n

LEMMA NameIsNumber ==
    ASSUME NEW entries \in Seq(JournalEntry), Numbered(entries), NEW i \in DOMAIN Plan(entries)
    PROVE  Plan(entries)[i].name \in Int
<1> DEFINE s == Sorted(entries)
           n == Len(entries)
           sec(k) == s[k].when \div Milli
           w == [k \in 1 .. i |-> sec(k)]
<1>1. n \in Nat /\ DOMAIN s = 1 .. n /\ DOMAIN entries = 1 .. n BY DEF Sorted
<1>2. i \in 1 .. n
  <2>1. DOMAIN Plan(entries) = DOMAIN s BY DEF Plan
  <2> QED BY <1>1, <2>1
<1>3. \A k \in 1 .. n : sec(k) \in Int
  <2>1. \A k \in 1 .. n : s[k] \in JournalEntry BY <1>1, SortedEntry
  <2> HIDE DEF s, n
  <2>2. \A k \in 1 .. n : s[k].when \in Int BY <2>1, TimeAssumption DEF JournalEntry
  <2>3. \A t \in Int : t \div Milli \in Int BY TimeAssumption
  <2> QED BY <2>2, <2>3
<1>4. Plan(entries)[i].name = Bumped(w) BY <1>1, <1>2, Zenon DEF Plan, Second
<1> HIDE DEF s, n, sec
<1>5. w \in Seq(Int) /\ Len(w) = i
  <2>1. w \in [1 .. i -> Int] BY <1>1, <1>2, <1>3
  <2> QED BY <1>2, <2>1
<1> HIDE DEF w
<1>6. PICK f : IsRun(w, i, f)
  <2>1. i \in 0 .. Len(w) BY <1>1, <1>2, <1>5
  <2> QED BY <1>5, <2>1, RunExists
<1>7. Bumped(w) = f[i] /\ f \in [0 .. i -> Int] BY <1>5, <1>6, BumpedIsRun DEF IsRun
<1> QED BY <1>1, <1>2, <1>4, <1>7

LEMMA NamesIncrease ==
    ASSUME NEW entries \in Seq(JournalEntry), Numbered(entries),
           NEW i \in DOMAIN Plan(entries), NEW j \in DOMAIN Plan(entries), i < j
    PROVE  /\ Plan(entries)[i].name \in Int /\ Plan(entries)[j].name \in Int
           /\ Plan(entries)[i].name < Plan(entries)[j].name
<1> DEFINE s == Sorted(entries)
           n == Len(entries)
           sec(k) == s[k].when \div Milli
           w == [k \in 1 .. j |-> sec(k)]
           v == [k \in 1 .. i |-> sec(k)]
<1>1. n \in Nat /\ DOMAIN s = 1 .. n /\ DOMAIN entries = 1 .. n BY DEF Sorted
<1>2. i \in 1 .. n /\ j \in 1 .. n
  <2>1. DOMAIN Plan(entries) = DOMAIN s BY DEF Plan
  <2> QED BY <1>1, <2>1
<1>3. \A k \in 1 .. n : sec(k) \in Int
  <2>1. \A k \in 1 .. n : s[k] \in JournalEntry BY <1>1, SortedEntry
  <2> HIDE DEF s, n
  <2>2. \A k \in 1 .. n : s[k].when \in Int BY <2>1, TimeAssumption DEF JournalEntry
  <2>3. \A t \in Int : t \div Milli \in Int BY TimeAssumption
  <2> QED BY <2>2, <2>3
<1>4. /\ Plan(entries)[i].name = Bumped(v)
      /\ Plan(entries)[j].name = Bumped(w)
  BY <1>1, <1>2, Zenon DEF Plan, Second
<1> HIDE DEF s, n, sec
<1>5. w \in Seq(Int) /\ Len(w) = j /\ v \in Seq(Int) /\ Len(v) = i
  <2>1. w \in [1 .. j -> Int] /\ v \in [1 .. i -> Int] BY <1>1, <1>2, <1>3
  <2> QED BY <1>2, <2>1
<1>6. \A k \in 1 .. i : v[k] = w[k] BY <1>1, <1>2
<1> HIDE DEF w, v
<1>7. PICK f : IsRun(w, j, f)
  <2>1. j \in 0 .. Len(w) BY <1>1, <1>2, <1>5
  <2> QED BY <1>5, <2>1, RunExists
<1>8. /\ f \in [0 .. j -> Int] /\ f[0] = 0
      /\ \A k \in 1 .. j : f[k] = IF w[k] > f[k - 1] THEN w[k] ELSE f[k - 1] + 1
  BY <1>7 DEF IsRun
<1> DEFINE g == [k \in 0 .. i |-> f[k]]
<1>9. IsRun(v, i, g)
  <2>1. g \in [0 .. i -> Int] /\ g[0] = 0 BY <1>1, <1>2, <1>8
  <2>2. ASSUME NEW k \in 1 .. i
        PROVE  g[k] = IF v[k] > g[k - 1] THEN v[k] ELSE g[k - 1] + 1
    <3>1. k \in 1 .. j /\ k \in 0 .. i /\ k - 1 \in 0 .. i BY <1>1, <1>2
    <3>2. g[k] = f[k] /\ g[k - 1] = f[k - 1] BY <3>1
    <3> QED BY <1>6, <1>8, <3>1, <3>2
  <2> QED BY <2>1, <2>2 DEF IsRun
<1>10. Bumped(w) = f[j] BY <1>5, <1>7, BumpedIsRun
<1>11. Bumped(v) = f[i]
  <2>1. Bumped(v) = g[i] BY <1>5, <1>9, BumpedIsRun
  <2> QED BY <1>1, <1>2, <2>1
<1>12. \A k \in i + 1 .. j : f[i] < f[k]
  <2> DEFINE D == {k \in i + 1 .. j : ~ (f[i] < f[k])}
  <2> SUFFICES ASSUME D # {} PROVE FALSE OBVIOUS
  <2>1. D \subseteq Nat BY <1>1, <1>2
  <2> HIDE DEF D
  <2>2. PICK d \in D : \A c \in D : d <= c BY <2>1, LeastExists
  <2>3. d \in i + 1 .. j /\ ~ (f[i] < f[d]) BY <2>2 DEF D
  <2>4. d \in 1 .. j /\ d - 1 \in 0 .. j /\ d - 1 \in i .. j BY <1>1, <1>2, <2>3
  <2>5. ~ (d - 1 \in D) BY <2>2, <2>4
  <2>6. f[i] <= f[d - 1]
    <3>1. CASE d - 1 = i BY <1>1, <1>2, <1>8, <3>1
    <3>2. CASE d - 1 # i
      <4>1. d - 1 \in i + 1 .. j BY <1>1, <1>2, <2>4, <3>2
      <4>2. f[i] < f[d - 1] BY <2>5, <4>1 DEF D
      <4>3. f[i] \in Int /\ f[d - 1] \in Int BY <1>1, <1>2, <1>8, <2>4
      <4> QED BY <4>2, <4>3
    <3> QED BY <3>1, <3>2
  <2>7. f[d - 1] < f[d]
    <3>1. f[d] = IF w[d] > f[d - 1] THEN w[d] ELSE f[d - 1] + 1 BY <1>8, <2>4
    <3>2. f[d - 1] \in Int BY <1>8, <2>4
    <3>3. w[d] \in Int BY <1>5, <2>4
    <3>4. CASE w[d] > f[d - 1] BY <3>1, <3>2, <3>3, <3>4
    <3>5. CASE ~ (w[d] > f[d - 1])
      <4>1. f[d] = f[d - 1] + 1 BY <3>1, <3>5
      <4> QED BY <3>2, <4>1
    <3> QED BY <3>4, <3>5
  <2>8. f[i] \in Int /\ f[d - 1] \in Int /\ f[d] \in Int BY <1>1, <1>2, <1>8, <2>4
  <2> QED BY <2>3, <2>6, <2>7, <2>8
<1>13. j \in i + 1 .. j /\ f[i] \in Int /\ f[j] \in Int BY <1>1, <1>2, <1>8
<1> QED BY <1>4, <1>10, <1>11, <1>12, <1>13

LEMMA NamesApart ==
    ASSUME NEW entries \in Seq(JournalEntry), Numbered(entries),
           NEW i \in DOMAIN Plan(entries), NEW j \in DOMAIN Plan(entries),
           Plan(entries)[i].name = Plan(entries)[j].name
    PROVE  i = j
<1>1. i \in Nat /\ j \in Nat BY DEF Plan, Sorted
<1>2. ASSUME i < j PROVE FALSE
  <2>1. /\ Plan(entries)[i].name \in Int
        /\ Plan(entries)[i].name < Plan(entries)[j].name
    BY <1>2, NamesIncrease
  <2> QED BY <2>1
<1>3. ASSUME j < i PROVE FALSE
  <2>1. /\ Plan(entries)[i].name \in Int
        /\ Plan(entries)[j].name < Plan(entries)[i].name
    BY <1>3, NamesIncrease
  <2> QED BY <2>1
<1> QED BY <1>1, <1>2, <1>3

(***************************************************************************)
(* What a call has written and recorded stays                              *)
(***************************************************************************)

(* What the file of an entry holds once the call has dealt with it. *)
FileOk(a, item) == {item.content} \cup TornByOthers(a)

(* The target of the next write was missing, or others have written it. *)
WritingInv(a) ==
    pc[a] = "write" =>
        /\ dir[Item(a).name] \in {None} \cup FileOk(a, Item(a))
        /\ dir[Item(a).name] # None => Adopter \ {a} # {}

UsableInv(a) ==
    Live(a) => \A i \in DOMAIN items[a] :
                  items[a][i].name \in Name /\ items[a][i].content \in Content

(* The entries behind the call are in the directory, all of them when the  *)
(* conversion is over.                                                     *)
ConvertedInv(a) ==
    /\ Live(a) => \A i \in DOMAIN items[a] :
                     i < at[a] => dir[items[a][i].name] \in FileOk(a, items[a][i])
    /\ Live(a) /\ pc[a] \notin {"convert", "write"} => at[a] > Len(items[a])

(* The entries that must be on record at the end. *)
Wanted(a) ==
    {i \in DOMAIN items[a] :
        drizzle # None /\ items[a][i].when \in drizzle /\ mark[a] # "none"}

RecordedInv(a) ==
    \A i \in Wanted(a) :
        /\ pc[a] = "baseline" => items[a][i].name \in targets[a]
        /\ pc[a] = "record" =>
              items[a][i].name \in targets[a] \/ ledger[items[a][i].name] = items[a][i].content
        /\ pc[a] = "idle" /\ outcome[a] = "ok" => ledger[items[a][i].name] = items[a][i].content

CallInv(a) ==
    /\ mark[a] \in {"auto", "all", "none"}
    /\ UsableInv(a) /\ WritingInv(a) /\ ConvertedInv(a) /\ RecordedInv(a)

WholeInv == AdoptInv /\ RecordInv /\ \A a \in Adopter : CallInv(a)

LEMMA InitWholeInv == ASSUME Init PROVE WholeInv
<1>1. \A a \in Adopter : items[a] = <<>> /\ mark[a] = "auto" /\ pc[a] = "idle" /\ outcome[a] = "none"
  BY DEF Init
<1>2. \A a \in Adopter : CallInv(a)
  BY <1>1 DEF CallInv, UsableInv, WritingInv, ConvertedInv, RecordedInv, Wanted, Live
<1> QED BY <1>2, InitInv, InitRecordInv DEF WholeInv

(* Entries of the same name, whosever plan they are in, are the same file. *)
LEMMA SameFile ==
    ASSUME WholeInv, NEW a \in Adopter, NEW b \in Adopter, Live(a), Live(b),
           NEW i \in DOMAIN items[a], NEW j \in DOMAIN items[b],
           items[a][i].name = items[b][j].name
    PROVE  items[a][i] = items[b][j]
<1> DEFINE plan == Plan(journal.entries)
<1>1. /\ i \in DOMAIN plan /\ items[a][i] = plan[i]
      /\ j \in DOMAIN plan /\ items[b][j] = plan[j]
  BY DEF WholeInv, RecordInv, PrefixInv
<1>2. journal.entries \in Seq(JournalEntry) /\ Numbered(journal.entries)
  BY DEF WholeInv, AdoptInv, JournalInv, RecordInv, NumberedInv
<1>3. plan[i].name = plan[j].name BY <1>1
<1> HIDE DEF plan
<1>4. i = j BY <1>1, <1>2, <1>3, NamesApart DEF plan
<1> QED BY <1>1, <1>4

(* How the directory changes. *)
LEMMA DirChanges ==
    ASSUME WholeInv, [Next]_vars
    PROVE  \/ UNCHANGED dir
           \/ \E b \in Adopter :
                 /\ pc[b] = "write" /\ Step(b)
                 /\ \/ dir' = [dir EXCEPT ![Item(b).name] = Item(b).content]
                    \/ dir' = [dir EXCEPT ![Item(b).name] = Torn] /\ End(b, "none")
<1>1. ASSUME NEW b \in Adopter, Step(b)
      PROVE  \/ UNCHANGED dir
             \/ /\ pc[b] = "write"
                /\ \/ dir' = [dir EXCEPT ![Item(b).name] = Item(b).content]
                   \/ dir' = [dir EXCEPT ![Item(b).name] = Torn] /\ End(b, "none")
  BY <1>1 DEF Step, Adopt, TargetExists, TargetMissing, WriteTarget, Converted, Matched, Gate,
     RecordTargets, CallFails, Crash, world
<1>2. CASE Generate \/ UpFile \/ Idle \/ UNCHANGED vars
  BY <1>2 DEF Generate, UpFile, Idle, vars, world
<1> QED BY <1>1, <1>2 DEF Next

(* A file that is as a call wants it stays so, unless that call dies. *)
LEMMA FileStays ==
    ASSUME WholeInv, [Next]_vars, NEW a \in Adopter, Live(a), NEW i \in DOMAIN items[a],
           dir[items[a][i].name] \in FileOk(a, items[a][i]),
           Live(a)' /\ (pc[a] = "write" => pc'[a] # "idle")
    PROVE  dir'[items[a][i].name] \in FileOk(a, items[a][i])
<1>1. ASSUME NEW b \in Adopter, pc[b] = "write", Step(b),
             dir' = [dir EXCEPT ![Item(b).name] = Item(b).content]
      PROVE  dir'[items[a][i].name] \in FileOk(a, items[a][i])
  <2>1. at[b] \in DOMAIN items[b] /\ Live(b)
    <3>1. at[b] \in 1 .. Len(items[b]) /\ items[b] \in Seq(ItemsOf(b))
      BY <1>1 DEF WholeInv, AdoptInv, TargetInv, ShapeInv
    <3> QED BY <1>1, <3>1 DEF Live
  <2>2. DOMAIN dir = Name BY DEF WholeInv, AdoptInv, RowsInv, Table
  <2>3. CASE items[a][i].name = Item(b).name
    <3>1. Item(b) = items[a][i] BY <2>1, <2>3, SameFile DEF Item
    <3>2. items[a][i].name \in Name BY DEF WholeInv, CallInv, UsableInv
    <3> QED BY <1>1, <2>2, <3>1, <3>2 DEF FileOk
  <2>4. CASE items[a][i].name # Item(b).name BY <1>1, <2>2, <2>4
  <2> QED BY <2>3, <2>4
<1>2. ASSUME NEW b \in Adopter, pc[b] = "write", Step(b), End(b, "none"),
             dir' = [dir EXCEPT ![Item(b).name] = Torn]
      PROVE  dir'[items[a][i].name] \in FileOk(a, items[a][i])
  <2>1. b # a BY <1>2 DEF End, WholeInv, AdoptInv
  <2>2. Torn \in FileOk(a, items[a][i]) BY <2>1 DEF FileOk, TornByOthers
  <2>3. DOMAIN dir = Name BY DEF WholeInv, AdoptInv, RowsInv, Table
  <2>4. CASE items[a][i].name = Item(b).name
    <3>1. items[a][i].name \in Name BY DEF WholeInv, CallInv, UsableInv
    <3> QED BY <1>2, <2>2, <2>3, <2>4, <3>1
  <2>5. CASE items[a][i].name # Item(b).name BY <1>2, <2>3, <2>5
  <2> QED BY <2>4, <2>5
<1> QED BY <1>1, <1>2, DirChanges

(* A row is never changed. *)
LEMMA RowStays ==
    ASSUME WholeInv, [Next]_vars, NEW n \in Name, ledger[n] # None
    PROVE  ledger'[n] = ledger[n]
<1>1. AdoptInv BY DEF WholeInv
<1>2. ASSUME NEW a \in Adopter, Step(a) PROVE ledger'[n] = ledger[n]
  BY <1>1, <1>2, CallKeepsLog DEF Log!Record
<1>3. CASE UpFile
  <2>1. PICK m \in Name, c \in Content : Log!Execute(m, c) BY <1>1, <1>3, UpFileStep
  <2>2. m # n BY <2>1 DEF Log!Execute
  <2> QED BY <2>1, <2>2 DEF Log!Execute
<1>4. CASE Generate \/ Idle \/ UNCHANGED vars BY <1>4 DEF Generate, Idle, vars, world
<1> QED BY <1>2, <1>3, <1>4 DEF Next

(* A call that does not move keeps what it knows, whatever others do. *)
LEMMA OtherCallInv ==
    ASSUME WholeInv, [Next]_vars, NEW a \in Adopter,
           pc'[a] = pc[a], mark'[a] = mark[a], items'[a] = items[a], at'[a] = at[a],
           targets'[a] = targets[a], outcome'[a] = outcome[a], UNCHANGED drizzle,
           \A b \in Adopter : Step(b) => b # a
    PROVE  CallInv(a)'
<1>1. CallInv(a) BY DEF WholeInv
<1>2. UsableInv(a)' BY <1>1 DEF CallInv, UsableInv, Live
<1>3. WritingInv(a)'
  <2> SUFFICES ASSUME pc[a] = "write"
               PROVE  /\ dir'[Item(a).name] \in {None} \cup FileOk(a, Item(a))
                      /\ dir'[Item(a).name] # None => Adopter \ {a} # {}
    BY DEF WritingInv, Item, FileOk, TornByOthers
  <2>1. /\ dir[Item(a).name] \in {None} \cup FileOk(a, Item(a))
        /\ dir[Item(a).name] # None => Adopter \ {a} # {}
    BY <1>1 DEF CallInv, WritingInv
  <2>2. at[a] \in DOMAIN items[a] /\ Live(a)
    <3>1. at[a] \in 1 .. Len(items[a]) /\ items[a] \in Seq(ItemsOf(a))
      BY DEF WholeInv, AdoptInv, TargetInv, ShapeInv
    <3> QED BY <3>1 DEF Live
  <2>3. CASE dir[Item(a).name] \in FileOk(a, Item(a)) /\ dir[Item(a).name] # None
    <3>1. dir'[Item(a).name] \in FileOk(a, Item(a))
      BY <2>2, <2>3, FileStays DEF Item, Live
    <3> QED BY <2>1, <2>3, <3>1
  <2>4. CASE dir[Item(a).name] = None
    <3>1. CASE UNCHANGED dir BY <2>4, <3>1
    <3>2. ASSUME NEW b \in Adopter, pc[b] = "write", Step(b),
                 \/ dir' = [dir EXCEPT ![Item(b).name] = Item(b).content]
                 \/ dir' = [dir EXCEPT ![Item(b).name] = Torn]
          PROVE  /\ dir'[Item(a).name] \in {None} \cup FileOk(a, Item(a))
                 /\ dir'[Item(a).name] # None => Adopter \ {a} # {}
      <4>1. b # a BY <3>2
      <4>2. Adopter \ {a} # {} /\ Torn \in FileOk(a, Item(a))
        BY <4>1 DEF FileOk, TornByOthers
      <4>3. DOMAIN dir = Name BY DEF WholeInv, AdoptInv, RowsInv, Table
      <4>4. Item(a).name \in Name BY <1>1, <2>2 DEF CallInv, UsableInv, Item
      <4>5. CASE Item(a).name # Item(b).name BY <2>4, <3>2, <4>3, <4>4, <4>5
      <4>6. CASE Item(a).name = Item(b).name
        <5>1. at[b] \in DOMAIN items[b] /\ Live(b)
          <6>1. at[b] \in 1 .. Len(items[b]) /\ items[b] \in Seq(ItemsOf(b))
            BY <3>2 DEF WholeInv, AdoptInv, TargetInv, ShapeInv
          <6> QED BY <3>2, <6>1 DEF Live
        <5>2. Item(a) = Item(b) BY <2>2, <4>6, <5>1, SameFile DEF Item
        <5>3. dir'[Item(a).name] \in {Item(a).content, Torn} BY <3>2, <4>3, <4>4, <5>2
        <5> QED BY <4>2, <5>3 DEF FileOk
      <4> QED BY <4>5, <4>6
    <3> QED BY <3>1, <3>2, DirChanges
  <2> QED BY <2>1, <2>3, <2>4
<1>4. ConvertedInv(a)'
  <2>1. ASSUME Live(a), NEW i \in DOMAIN items[a], i < at[a]
        PROVE  dir'[items[a][i].name] \in FileOk(a, items[a][i])
    <3>1. dir[items[a][i].name] \in FileOk(a, items[a][i])
      BY <1>1, <2>1 DEF CallInv, ConvertedInv
    <3>2. Live(a)' /\ (pc[a] = "write" => pc'[a] # "idle") BY <2>1 DEF Live
    <3> QED BY <2>1, <3>1, <3>2, FileStays
  <2>2. Live(a)' <=> Live(a) BY DEF Live
  <2>3. Live(a) /\ pc[a] \notin {"convert", "write"} => at[a] > Len(items[a])
    BY <1>1 DEF CallInv, ConvertedInv
  <2> QED BY <2>1, <2>2, <2>3 DEF ConvertedInv, FileOk, TornByOthers
<1>5. RecordedInv(a)'
  <2> SUFFICES ASSUME NEW i \in Wanted(a)
               PROVE  /\ pc[a] = "baseline" => items[a][i].name \in targets[a]
                      /\ pc[a] = "record" =>
                            \/ items[a][i].name \in targets[a]
                            \/ ledger'[items[a][i].name] = items[a][i].content
                      /\ pc[a] = "idle" /\ outcome[a] = "ok" =>
                            ledger'[items[a][i].name] = items[a][i].content
    BY DEF RecordedInv, Wanted
  <2>1. Live(a) /\ ledger[items[a][i].name] = items[a][i].content
          => ledger'[items[a][i].name] = items[a][i].content
    <3>1. Live(a) => items[a][i].name \in Name /\ items[a][i].content \in Content
      BY <1>1 DEF CallInv, UsableInv, Wanted
    <3> QED BY <3>1, RowStays, NoneAssumption
  <2> QED BY <1>1, <2>1 DEF CallInv, RecordedInv, Live
<1> QED BY <1>1, <1>2, <1>3, <1>4, <1>5 DEF CallInv

(* The batch holds the contents of the plan. *)
LEMMA PlannedContent ==
    ASSUME WholeInv, NEW a \in Adopter, pc[a] \in {"baseline", "record"},
           NEW i \in DOMAIN items[a], items[a][i].name \in targets[a]
    PROVE  Planned(a)[items[a][i].name] = items[a][i].content
<1> DEFINE all == {items[a][k] : k \in DOMAIN items[a]}
           n == items[a][i].name
           item == CHOOSE e \in all : e.name = n
<1>1. Live(a) BY DEF Live
<1>2. n \in Name BY <1>1 DEF WholeInv, CallInv, UsableInv
<1>3. Planned(a)[n] = item.content BY <1>2, Zenon DEF Planned
<1>4. item \in all /\ item.name = n
  <2>1. items[a][i] \in all OBVIOUS
  <2> HIDE DEF all
  <2> QED BY <2>1
<1> HIDE DEF item
<1>5. PICK j \in DOMAIN items[a] : item = items[a][j] BY <1>4
<1>6. items[a][j] = items[a][i] BY <1>1, <1>4, <1>5, SameFile
<1> QED BY <1>3, <1>5, <1>6

(* Every entry has one of the creation times. *)
LEMMA PlanTimes ==
    ASSUME WholeInv, NEW a \in Adopter, Live(a), NEW i \in DOMAIN items[a]
    PROVE  items[a][i].when \in When
<1> DEFINE entries == journal.entries
<1>1. i \in DOMAIN Plan(entries) /\ items[a][i] = Plan(entries)[i]
  BY DEF WholeInv, RecordInv, PrefixInv
<1>2. entries \in Seq(JournalEntry) /\ Numbered(entries)
  BY DEF WholeInv, AdoptInv, JournalInv, RecordInv, NumberedInv
<1> HIDE DEF entries
<1>3. i \in DOMAIN entries BY <1>1 DEF Plan, Sorted
<1>4. Plan(entries)[i].when = Sorted(entries)[i].when BY <1>1 DEF Plan
<1> QED BY <1>1, <1>2, <1>3, <1>4, SortedEntry DEF JournalEntry

LEMMA AdoptCallInv ==
    ASSUME WholeInv, NEW a \in Adopter, NEW m \in Mark, Adopt(a, m)
    PROVE  CallInv(a)'
<1>1. AdoptInv' BY AdoptStep DEF WholeInv
<1>2. mark'[a] = m /\ m \in {"auto", "all", "none"}
  BY MarkAssumption DEF Adopt, WholeInv, RecordInv
<1>3. at'[a] = 1 BY DEF Adopt, WholeInv, AdoptInv, ShapeInv
<1>4. \/ pc'[a] = "idle" /\ outcome'[a] # "ok"
      \/ pc'[a] = "convert"
  BY DEF Adopt, Goto, End, WholeInv, AdoptInv, ShapeInv
<1>5. \A i \in DOMAIN items'[a] : i \in Nat /\ i >= 1
  <2>1. items'[a] \in Seq({items'[a][i] : i \in DOMAIN items'[a]})
    BY <1>1 DEF AdoptInv, ShapeInv, ItemsOf
  <2> QED BY <2>1
<1>6. UsableInv(a)' BY <1>1, <1>4 DEF UsableInv, Live, AdoptInv, PlanInv
<1>7. ConvertedInv(a)' BY <1>3, <1>4, <1>5 DEF ConvertedInv, Live
<1>8. WritingInv(a)' /\ RecordedInv(a)' BY <1>4 DEF WritingInv, RecordedInv, Wanted
<1> QED BY <1>2, <1>6, <1>7, <1>8 DEF CallInv

(* What a call knows after a step of its own, the first excepted. *)
LEMMA StepConverts ==
    ASSUME WholeInv, NEW a \in Adopter, Step(a), [Next]_vars, \A m \in Mark : ~ Adopt(a, m)
    PROVE  ConvertedInv(a)'
<1>1. /\ UNCHANGED items /\ pc[a] # "idle" /\ Live(a)
      /\ ConvertedInv(a) /\ UsableInv(a) /\ AdoptInv
  BY PlanIsKept DEF WholeInv, Live, CallInv
<1>2. ASSUME NEW i \in DOMAIN items[a], i < at[a], Live(a)'
      PROVE  dir'[items[a][i].name] \in FileOk(a, items[a][i])
  <2>1. dir[items[a][i].name] \in FileOk(a, items[a][i]) BY <1>1, <1>2 DEF ConvertedInv
  <2>2. pc[a] = "write" => pc'[a] # "idle"
    BY <1>2 DEF Live, Step, Adopt, TargetExists, TargetMissing, WriteTarget, Converting,
       Converted, Matched, Gate, RecordTargets, CallFails, Crash, Goto, End, AdoptInv,
       ShapeInv, WholeInv
  <2> QED BY <1>1, <1>2, <2>1, <2>2, FileStays
<1>3. CASE Live(a)' /\ TargetExists(a)
  <2>1. /\ dir[Item(a).name] = Item(a).content /\ UNCHANGED dir
        /\ pc'[a] = "convert" /\ at'[a] = at[a] + 1
    BY <1>1, <1>3 DEF TargetExists, Live, Goto, End, AdoptInv, ShapeInv, world
  <2>2. ASSUME NEW i \in DOMAIN items[a], i < at'[a]
        PROVE  dir'[items[a][i].name] \in FileOk(a, items[a][i])
    <3>1. i \in Nat /\ at[a] \in Nat
      BY <1>1 DEF AdoptInv, ShapeInv
    <3>2. CASE i < at[a] BY <1>2, <1>3, <3>2
    <3>3. CASE i = at[a] BY <2>1, <3>3 DEF FileOk, Item
    <3> QED BY <2>1, <2>2, <3>1, <3>2, <3>3
  <2> QED BY <1>1, <2>1, <2>2 DEF ConvertedInv, FileOk, TornByOthers
<1>4. CASE Live(a)' /\ WriteTarget(a)
  <2>1. /\ dir' = [dir EXCEPT ![Item(a).name] = Item(a).content]
        /\ pc'[a] = "convert" /\ at'[a] = at[a] + 1
    BY <1>1, <1>4 DEF WriteTarget, Goto, AdoptInv, ShapeInv
  <2>2. Item(a).name \in Name /\ DOMAIN dir = Name
    BY <1>1, <1>4, WritingEntry DEF WriteTarget, AdoptInv, RowsInv, Table
  <2>3. ASSUME NEW i \in DOMAIN items[a], i < at'[a]
        PROVE  dir'[items[a][i].name] \in FileOk(a, items[a][i])
    <3>1. i \in Nat /\ at[a] \in Nat
      BY <1>1 DEF AdoptInv, ShapeInv
    <3>2. CASE i < at[a] BY <1>2, <1>4, <3>2
    <3>3. CASE i = at[a] BY <2>1, <2>2, <3>3 DEF FileOk, Item
    <3> QED BY <2>1, <2>3, <3>1, <3>2, <3>3
  <2> QED BY <1>1, <2>1, <2>3 DEF ConvertedInv, FileOk, TornByOthers
<1>5. CASE Live(a)' /\ ~ TargetExists(a) /\ ~ WriteTarget(a)
  <2>1. UNCHANGED at
    BY <1>5 DEF Step, TargetMissing, Converted, Matched, Gate, RecordTargets, CallFails,
       Crash, call
  <2>2. pc'[a] \in {"convert", "write"} \/ at[a] > Len(items[a])
    <3>1. CASE TargetMissing(a) BY <1>1, <3>1 DEF TargetMissing, Goto, AdoptInv
    <3>2. CASE Converted(a) BY <3>2 DEF Converted
    <3>3. CASE Matched(a) \/ Gate(a) \/ RecordTargets(a)
      BY <1>1, <3>3 DEF Matched, Gate, RecordTargets, ConvertedInv
    <3>4. CASE CallFails(a) \/ Crash(a)
      BY <1>1, <1>5, <3>4 DEF CallFails, Crash, End, Live, AdoptInv, ShapeInv
    <3> QED BY <1>5, <3>1, <3>2, <3>3, <3>4 DEF Step
  <2> QED BY <1>1, <1>2, <1>5, <2>1, <2>2 DEF ConvertedInv, FileOk, TornByOthers
<1>6. CASE ~ Live(a)' BY <1>6 DEF ConvertedInv
<1> QED BY <1>3, <1>4, <1>5, <1>6

(* The entries that must be on record are among those that are chosen. *)
LEMMA DecideRecords ==
    ASSUME WholeInv, NEW a \in Adopter, pc[a] # "idle", NEW names, Decide(a, names),
           UNCHANGED <<drizzle, items, mark, ledger>>,
           \A i \in Wanted(a) : items[a][i].name \in names
    PROVE  RecordedInv(a)'
<1>1. Wanted(a)' = Wanted(a) BY DEF Wanted
<1>2. targets'[a] = names BY DEF Decide, WholeInv, AdoptInv, ShapeInv
<1>3. CASE names = {}
  <2>1. Wanted(a) = {} BY <1>3
  <2> QED BY <1>1, <2>1 DEF RecordedInv
<1>4. CASE names # {}
  <2>1. pc'[a] = "baseline" BY <1>4 DEF Decide, Goto, WholeInv, AdoptInv
  <2> QED BY <1>1, <1>2, <2>1 DEF RecordedInv
<1> QED BY <1>3, <1>4

LEMMA StepRecords ==
    ASSUME WholeInv, NEW a \in Adopter, Step(a), \A m \in Mark : ~ Adopt(a, m)
    PROVE  RecordedInv(a)'
<1>1. /\ UNCHANGED <<items, mark>> /\ pc[a] # "idle" /\ Live(a) /\ AdoptInv
      /\ UsableInv(a) /\ RecordedInv(a) /\ mark[a] \in {"auto", "all", "none"}
  BY PlanIsKept DEF WholeInv, Live, CallInv
<1>2. UNCHANGED drizzle
  BY DEF Step, Adopt, TargetExists, TargetMissing, WriteTarget, Converted, Matched, Gate,
     RecordTargets, CallFails, Crash, world
<1>3. Wanted(a)' = Wanted(a) BY <1>1, <1>2 DEF Wanted
<1>4. \A i \in Wanted(a) :
        i \in DOMAIN items[a] /\ items[a][i].name \in Name /\ items[a][i].content \in Content
  BY <1>1 DEF UsableInv, Wanted
<1>5. CASE Converted(a)
  <2>1. CASE mark[a] = "all"
    <3>1. Decide(a, Names(a, When)) /\ UNCHANGED ledger BY <1>5, <2>1 DEF Converted, world
    <3>2. \A i \in Wanted(a) : items[a][i].name \in Names(a, When)
      BY <1>1, <1>4, PlanTimes DEF Names
    <3> QED BY <1>1, <1>2, <3>1, <3>2, DecideRecords
  <2>2. CASE mark[a] = "none"
    <3>1. Decide(a, {}) /\ UNCHANGED ledger BY <1>5, <2>2 DEF Converted, world
    <3>2. Wanted(a) = {} BY <2>2 DEF Wanted
    <3> QED BY <1>1, <1>2, <3>1, <3>2, DecideRecords
  <2>3. CASE mark[a] = "auto"
    <3>1. pc'[a] = "match" BY <1>1, <1>5, <2>3 DEF Converted, Goto, AdoptInv
    <3> QED BY <3>1 DEF RecordedInv
  <2> QED BY <1>1, <2>1, <2>2, <2>3
<1>6. CASE Matched(a)
  <2> DEFINE names == IF drizzle = None THEN {} ELSE Names(a, drizzle)
  <2>1. Decide(a, names) /\ UNCHANGED ledger BY <1>6 DEF Matched, world
  <2>2. \A i \in Wanted(a) : items[a][i].name \in names BY DEF Names, Wanted
  <2> HIDE DEF names
  <2> QED BY <1>1, <1>2, <2>1, <2>2, DecideRecords
<1>7. CASE Gate(a)
  <2>1. pc[a] = "baseline" /\ UNCHANGED ledger BY <1>7 DEF Gate, world
  <2>2. ASSUME NEW i \in Wanted(a)
        PROVE  items[a][i].name \in targets[a]
               /\ Planned(a)[items[a][i].name] = items[a][i].content
    <3>1. items[a][i].name \in targets[a] BY <1>1, <2>1, <2>2 DEF RecordedInv
    <3> QED BY <1>4, <2>1, <3>1, PlannedContent
  <2>3. CASE outcome'[a] # "ok" /\ pc'[a] = "idle" BY <2>3 DEF RecordedInv
  <2>4. CASE /\ targets' = [targets EXCEPT ![a] = @ \ Listed(ledger)]
             /\ ~ \E n \in targets[a] : ledger[n] \notin {None, Planned(a)[n]}
             /\ \/ targets[a] \subseteq Listed(ledger) /\ pc'[a] = "idle"
                \/ pc'[a] = "record"
    <3>1. targets'[a] = targets[a] \ Listed(ledger) BY <1>1, <2>4 DEF AdoptInv, ShapeInv
    <3>2. ASSUME NEW i \in Wanted(a)
          PROVE  \/ ledger[items[a][i].name] = items[a][i].content
                 \/ items[a][i].name \in targets'[a] /\ ~ (targets[a] \subseteq Listed(ledger))
      BY <1>4, <2>2, <2>4, <3>1 DEF Listed
    <3> QED BY <1>1, <1>3, <2>1, <2>4, <3>2 DEF RecordedInv
  <2>5. \/ outcome'[a] # "ok" /\ pc'[a] = "idle"
        \/ /\ targets' = [targets EXCEPT ![a] = @ \ Listed(ledger)]
           /\ ~ \E n \in targets[a] : ledger[n] \notin {None, Planned(a)[n]}
           /\ \/ targets[a] \subseteq Listed(ledger) /\ pc'[a] = "idle"
              \/ pc'[a] = "record"
    BY <1>1, <1>7 DEF Gate, Goto, End, AdoptInv, ShapeInv
  <2> QED BY <2>3, <2>4, <2>5
<1>8. CASE RecordTargets(a)
  <2>1. pc[a] = "record" /\ pc'[a] = "idle" BY <1>1, <1>8 DEF RecordTargets, End, AdoptInv
  <2>2. \A i \in Wanted(a) :
          \/ items[a][i].name \in targets[a]
          \/ ledger[items[a][i].name] = items[a][i].content
    BY <1>1, <2>1 DEF RecordedInv
  <2>3. ASSUME NEW i \in Wanted(a), items[a][i].name \in targets[a]
        PROVE  Planned(a)[items[a][i].name] = items[a][i].content
    BY <1>4, <2>1, <2>3, PlannedContent
  <2>4. CASE /\ targets[a] \cap Listed(ledger) = {}
             /\ ledger' = Merge(ledger, Planned(a))
    <3>1. \A n \in Name : Planned(a)[n] # None <=> n \in targets[a]
      BY <1>1, <2>1, PlannedRows
    <3>2. \A n \in Name : ledger'[n] = IF n \in targets[a] THEN Planned(a)[n] ELSE ledger[n]
      BY <2>4, <3>1 DEF Merge
    <3>3. ASSUME NEW i \in Wanted(a) PROVE ledger'[items[a][i].name] = items[a][i].content
      BY <1>4, <2>2, <2>3, <3>2
    <3> QED BY <1>1, <1>3, <2>1, <3>3 DEF RecordedInv
  <2>5. CASE UNCHANGED ledger /\ \A n \in targets[a] : ledger[n] = Planned(a)[n]
    <3>1. ASSUME NEW i \in Wanted(a) PROVE ledger[items[a][i].name] = items[a][i].content
      BY <2>2, <2>3, <2>5
    <3> QED BY <1>1, <1>3, <2>1, <2>5, <3>1 DEF RecordedInv
  <2>6. CASE outcome'[a] # "ok" BY <2>1, <2>6 DEF RecordedInv
  <2> QED BY <1>1, <1>8, <2>4, <2>5, <2>6 DEF RecordTargets, End, AdoptInv, ShapeInv
<1>9. CASE TargetExists(a) \/ TargetMissing(a) \/ WriteTarget(a) \/ CallFails(a) \/ Crash(a)
  <2>1. pc'[a] \in {"convert", "write"} \/ (pc'[a] = "idle" /\ outcome'[a] # "ok")
    <3>1. DOMAIN pc = Adopter /\ DOMAIN outcome = Adopter BY <1>1 DEF AdoptInv, ShapeInv
    <3>2. \/ Goto(a, "convert") \/ Goto(a, "write")
          \/ End(a, "ADOPT_CONFLICT") \/ End(a, "DATABASE_WORKER_UNAVAILABLE") \/ End(a, "none")
      <4>1. CASE TargetExists(a) BY <4>1, Zenon DEF TargetExists
      <4>2. CASE TargetMissing(a) \/ WriteTarget(a) BY <4>2, Zenon DEF TargetMissing, WriteTarget
      <4>3. CASE CallFails(a) \/ Crash(a) BY <4>3, Zenon DEF CallFails, Crash
      <4> QED BY <1>9, <4>1, <4>2, <4>3
    <3> QED BY <3>1, <3>2 DEF Goto, End
  <2> QED BY <2>1 DEF RecordedInv
<1> QED BY <1>5, <1>6, <1>7, <1>8, <1>9 DEF Step

LEMMA OwnCallInv ==
    ASSUME WholeInv, NEW a \in Adopter, Step(a), [Next]_vars PROVE CallInv(a)'
<1>1. CASE \E m \in Mark : Adopt(a, m) BY <1>1, AdoptCallInv
<1>2. CASE \A m \in Mark : ~ Adopt(a, m)
  <2>1. UNCHANGED <<items, mark>> /\ pc[a] # "idle" /\ Live(a) /\ AdoptInv
    BY <1>2, PlanIsKept DEF WholeInv, Live
  <2>2. mark'[a] \in {"auto", "all", "none"} /\ UsableInv(a)'
    BY <2>1 DEF WholeInv, CallInv, UsableInv
  <2>3. WritingInv(a)'
    <3> SUFFICES ASSUME pc'[a] = "write" PROVE dir'[Item(a)'.name] = None
      BY DEF WritingInv
    <3>1. TargetMissing(a)
      BY <1>2, <2>1 DEF Step, TargetExists, WriteTarget, Converted, Matched, Gate, RecordTargets,
         CallFails, Crash, Decide, Goto, End, AdoptInv
    <3> QED BY <2>1, <3>1 DEF TargetMissing, Item, world, call
  <2> QED BY <1>2, <2>2, <2>3, StepConverts, StepRecords DEF CallInv
<1> QED BY <1>1, <1>2

LEMMA WholeInvStep == ASSUME WholeInv, [Next]_vars PROVE WholeInv'
<1>1. AdoptInv' /\ RecordInv' BY InvStep, RecordInvStep DEF WholeInv
<1>2. UNCHANGED drizzle
  BY DEF Next, Step, Adopt, TargetExists, TargetMissing, WriteTarget, Converted, Matched, Gate,
     RecordTargets, CallFails, Crash, Generate, UpFile, Idle, vars, world
<1>3. ASSUME NEW a \in Adopter PROVE CallInv(a)'
  <2>1. CASE Step(a) BY <2>1, OwnCallInv
  <2>2. CASE ~ Step(a)
    <3>1. /\ pc'[a] = pc[a] /\ mark'[a] = mark[a] /\ items'[a] = items[a]
          /\ at'[a] = at[a] /\ targets'[a] = targets[a] /\ outcome'[a] = outcome[a]
      <4>1. CASE \E b \in Adopter : Step(b)
        BY <2>2, <4>1, StepIsLocal DEF WholeInv
      <4>2. CASE Generate \/ UpFile \/ Idle \/ UNCHANGED vars
        BY <4>2 DEF Generate, UpFile, Idle, vars, call
      <4> QED BY <4>1, <4>2 DEF Next
    <3> QED BY <1>2, <2>2, <3>1, OtherCallInv
  <2> QED BY <2>1, <2>2
<1> QED BY <1>1, <1>3 DEF WholeInv

(* `AdoptionComplete`: a call that answers leaves every entry it read in   *)
(* the directory and every applied one on record, for any number of calls, *)
(* failures and crashes around it.                                         *)
THEOREM AdoptersComplete == Spec => []AdoptionComplete
<1>1. Init => WholeInv BY InitWholeInv
<1>2. WholeInv /\ [Next]_vars => WholeInv' BY WholeInvStep
<1>3. WholeInv => AdoptionComplete
  <2> SUFFICES ASSUME WholeInv, NEW a \in Adopter, pc[a] = "idle", outcome[a] = "ok",
                      NEW i \in DOMAIN items[a]
               PROVE  /\ dir[items[a][i].name] \in {items[a][i].content} \cup TornByOthers(a)
                      /\ (drizzle # None /\ items[a][i].when \in drizzle /\ mark[a] # "none")
                             => ledger[items[a][i].name] = items[a][i].content
    BY DEF AdoptionComplete
  <2>1. Live(a) /\ ConvertedInv(a) /\ RecordedInv(a) BY DEF Live, WholeInv, CallInv
  <2>2. at[a] > Len(items[a]) BY <2>1 DEF ConvertedInv
  <2>3. i < at[a]
    <3>1. items[a] \in Seq(ItemsOf(a)) /\ at[a] \in Nat BY DEF WholeInv, AdoptInv, ShapeInv
    <3> QED BY <2>2, <3>1
  <2> QED BY <2>1, <2>3 DEF ConvertedInv, FileOk, RecordedInv, Wanted
<1> QED BY <1>1, <1>2, <1>3, PTL DEF Spec

(* `NeverOverwritten`: a whole file in the directory is never changed, by  *)
(* any number of calls converting at once: between the test for a target   *)
(* and its writing, only the same file can have appeared.                  *)
THEOREM WholeFilesStay == Spec => NeverOverwritten
<1>1. Init => WholeInv BY InitWholeInv
<1>2. WholeInv /\ [Next]_vars => WholeInv' BY WholeInvStep
<1>3. WholeInv /\ [Next]_vars =>
        [\A n \in Name : dir[n] \notin {None, Torn} =>
           dir'[n] \in {dir[n]} \cup UNION {TornByOthers(a) : a \in Adopter}]_vars
  <2> SUFFICES ASSUME WholeInv, [Next]_vars, NEW n \in Name, dir[n] \notin {None, Torn}
               PROVE  dir'[n] \in {dir[n]} \cup UNION {TornByOthers(a) : a \in Adopter}
    OBVIOUS
  <2>1. CASE UNCHANGED dir BY <2>1
  <2>2. ASSUME NEW b \in Adopter, pc[b] = "write",
               \/ dir' = [dir EXCEPT ![Item(b).name] = Item(b).content]
               \/ dir' = [dir EXCEPT ![Item(b).name] = Torn]
        PROVE  dir'[n] \in {dir[n]} \cup UNION {TornByOthers(a) : a \in Adopter}
    <3>1. DOMAIN dir = Name BY DEF WholeInv, AdoptInv, RowsInv, Table
    <3>2. CASE n # Item(b).name BY <2>2, <3>1, <3>2
    <3>3. CASE n = Item(b).name
      <4>1. /\ dir[n] \in {None} \cup FileOk(b, Item(b))
            /\ Adopter \ {b} # {}
        BY <2>2, <3>3 DEF WholeInv, CallInv, WritingInv
      <4>2. dir[n] = Item(b).content BY <4>1 DEF FileOk, TornByOthers
      <4>3. Torn \in UNION {TornByOthers(a) : a \in Adopter} BY <4>1 DEF TornByOthers
      <4> QED BY <2>2, <3>1, <3>3, <4>2, <4>3
    <3> QED BY <3>2, <3>3
  <2> QED BY <2>1, <2>2, DirChanges
<1> QED BY <1>1, <1>2, <1>3, PTL DEF Spec, NeverOverwritten

(***************************************************************************)
(* The adopted files are the first entries of the journal                  *)
(***************************************************************************)

(* The adopted file `n` is that of the k-th entry, and those of the        *)
(* entries before are adopted as well.                                     *)
IsFileOf(n, k) ==
    /\ k \in DOMAIN Plan(journal.entries)
    /\ Plan(journal.entries)[k].name = n
    /\ dir[n] \in {Plan(journal.entries)[k].content, Torn}
    /\ \A j \in DOMAIN Plan(journal.entries) :
          j < k => Plan(journal.entries)[j].name \in Adopted

OrderInv == \A n \in Adopted : \E k : IsFileOf(n, k)

(* The content of an adopted file comes from drizzle. *)
LEMMA PlanSources ==
    ASSUME WholeInv, NEW a \in Adopter, Live(a), NEW i \in DOMAIN items[a]
    PROVE  items[a][i].content \in Source
<1> DEFINE entries == journal.entries
<1>1. i \in DOMAIN Plan(entries) /\ items[a][i] = Plan(entries)[i]
  BY DEF WholeInv, RecordInv, PrefixInv
<1>2. entries \in Seq(JournalEntry) /\ Numbered(entries)
  BY DEF WholeInv, AdoptInv, JournalInv, RecordInv, NumberedInv
<1>3. items[a][i].content \in Content BY DEF WholeInv, CallInv, UsableInv
<1> HIDE DEF entries
<1>4. i \in DOMAIN entries BY <1>1 DEF Plan, Sorted
<1>5. Plan(entries)[i].content = Sorted(entries)[i].file BY <1>1 DEF Plan
<1> QED BY <1>1, <1>2, <1>3, <1>4, <1>5, SortedEntry, NoneAssumption DEF JournalEntry

(* Adopted files stay so. *)
LEMMA AdoptedStays == ASSUME WholeInv, [Next]_vars PROVE Adopted \subseteq Adopted'
<1>1. DOMAIN dir = Name BY DEF WholeInv, AdoptInv, RowsInv, Table
<1>2. ASSUME NEW b \in Adopter, pc[b] = "write",
             \/ dir' = [dir EXCEPT ![Item(b).name] = Item(b).content]
             \/ dir' = [dir EXCEPT ![Item(b).name] = Torn]
      PROVE  Adopted \subseteq Adopted'
  <2>1. at[b] \in DOMAIN items[b] /\ Live(b)
    <3>1. at[b] \in 1 .. Len(items[b]) /\ items[b] \in Seq(ItemsOf(b))
      BY <1>2 DEF WholeInv, AdoptInv, TargetInv, ShapeInv
    <3> QED BY <1>2, <3>1 DEF Live
  <2>2. Item(b).content \in Source BY <2>1, PlanSources DEF Item
  <2> QED BY <1>1, <1>2, <2>2 DEF Adopted
<1> QED BY <1>2, DirChanges DEF Adopted

LEMMA OrderInvStep == ASSUME WholeInv, OrderInv, [Next]_vars PROVE OrderInv'
<1> DEFINE plan == Plan(journal.entries)
<1>1. DOMAIN dir = Name BY DEF WholeInv, AdoptInv, RowsInv, Table
<1>2. journal.entries \in Seq(JournalEntry) /\ Numbered(journal.entries)
  BY DEF WholeInv, AdoptInv, JournalInv, RecordInv, NumberedInv
<1>3. \A i \in DOMAIN plan : i \in DOMAIN plan' /\ plan'[i] = plan[i]
  <2>1. CASE UNCHANGED journal BY <2>1
  <2>2. CASE Generate
    <3>1. PICK w \in When, c \in Source :
            journal' = [journal EXCEPT !.entries =
                           Append(@, [idx |-> Len(journal.entries), when |-> w, file |-> c])]
      BY <2>2 DEF Generate
    <3> DEFINE e == [idx |-> Len(journal.entries), when |-> w, file |-> c]
    <3>2. e \in JournalEntry /\ e.idx = Len(journal.entries) BY <1>2 DEF JournalEntry
    <3>3. journal'.entries = Append(journal.entries, e)
      BY <3>1 DEF WholeInv, AdoptInv, JournalInv
    <3> HIDE DEF e
    <3> QED BY <1>2, <3>2, <3>3, PlanPrefix
  <2>3. UNCHANGED journal \/ Generate
    BY DEF Next, Step, Adopt, TargetExists, TargetMissing, WriteTarget, Converted, Matched, Gate,
       RecordTargets, CallFails, Crash, UpFile, Idle, vars, world
  <2> QED BY <2>1, <2>2, <2>3
<1>4. DOMAIN plan \subseteq Nat /\ \A k \in DOMAIN plan : \A j \in DOMAIN plan' :
                                    j < k => j \in DOMAIN plan
  <2>1. /\ DOMAIN plan = 1 .. Len(journal.entries) /\ Len(journal.entries) \in Nat
        /\ DOMAIN plan' = DOMAIN journal'.entries
    BY <1>2 DEF Plan, Sorted
  <2>2. journal'.entries \in Seq(JournalEntry)
    BY InvStep DEF WholeInv, AdoptInv, JournalInv
  <2>3. DOMAIN plan' = 1 .. Len(journal'.entries) /\ Len(journal'.entries) \in Nat
    BY <2>1, <2>2
  <2> HIDE DEF plan
  <2> QED BY <2>1, <2>3
<1>5. Adopted \subseteq Adopted' BY AdoptedStays
<1> HIDE DEF plan
<1>6. ASSUME NEW n, NEW k, IsFileOf(n, k), dir'[n] \in {dir[n], Torn} PROVE IsFileOf(n, k)'
  <2>1. /\ k \in DOMAIN plan /\ plan[k].name = n /\ dir[n] \in {plan[k].content, Torn}
        /\ \A j \in DOMAIN plan : j < k => plan[j].name \in Adopted
    BY <1>6 DEF IsFileOf, plan
  <2>2. /\ k \in DOMAIN plan' /\ plan'[k].name = n /\ dir'[n] \in {plan'[k].content, Torn}
        /\ \A j \in DOMAIN plan' : j < k => plan'[j].name \in Adopted'
    BY <1>3, <1>4, <1>5, <1>6, <2>1
  <2> QED BY <2>2 DEF IsFileOf, plan
<1>7. CASE UNCHANGED dir BY <1>6, <1>7 DEF OrderInv, Adopted
<1>8. ASSUME NEW b \in Adopter, pc[b] = "write",
             \/ dir' = [dir EXCEPT ![Item(b).name] = Item(b).content]
             \/ dir' = [dir EXCEPT ![Item(b).name] = Torn]
      PROVE  OrderInv'
  <2>0. PICK k, name : k = at[b] /\ name = Item(b).name OBVIOUS
  <2>1. k \in DOMAIN items[b] /\ Live(b) /\ \A j \in DOMAIN plan : j < k => j \in DOMAIN items[b]
    <3>1. k \in 1 .. Len(items[b]) /\ items[b] \in Seq(ItemsOf(b))
      BY <1>8, <2>0 DEF WholeInv, AdoptInv, TargetInv, ShapeInv
    <3>2. DOMAIN plan = 1 .. Len(journal.entries) /\ Len(journal.entries) \in Nat
      BY <1>2 DEF plan, Plan, Sorted
    <3> QED BY <1>8, <3>1, <3>2 DEF Live
  <2>2. \A i \in DOMAIN items[b] : i \in DOMAIN plan /\ items[b][i] = plan[i]
    BY <2>1 DEF WholeInv, RecordInv, PrefixInv, plan
  <2>3. \A i \in DOMAIN items[b] : items[b][i].name \in Name /\ items[b][i].content \in Source
    BY <2>1, PlanSources DEF WholeInv, CallInv, UsableInv
  <2>4. \A j \in DOMAIN plan : j < k => plan[j].name \in Adopted
    <3> SUFFICES ASSUME NEW j \in DOMAIN plan, j < k PROVE plan[j].name \in Adopted OBVIOUS
    <3>1. dir[items[b][j].name] \in FileOk(b, items[b][j])
      BY <2>0, <2>1 DEF WholeInv, CallInv, ConvertedInv
    <3> QED BY <2>1, <2>2, <2>3, <3>1 DEF FileOk, TornByOthers, Adopted
  <2>5. name \in Name /\ dir'[name] \in {plan[k].content, Torn} /\ plan[k].name = name
    BY <1>1, <1>8, <2>0, <2>1, <2>2, <2>3 DEF Item
  <2>6. \E l : IsFileOf(name, l)'
    <3>1. /\ k \in DOMAIN plan' /\ plan'[k].name = name /\ dir'[name] \in {plan'[k].content, Torn}
          /\ \A j \in DOMAIN plan' : j < k => plan'[j].name \in Adopted'
      BY <1>3, <1>4, <1>5, <2>1, <2>2, <2>4, <2>5
    <3>2. IsFileOf(name, k)' BY <3>1 DEF IsFileOf, plan
    <3> QED BY <3>2
  <2>7. \A n \in Name \ {name} : dir'[n] = dir[n] BY <1>1, <1>8, <2>0
  <2> SUFFICES ASSUME NEW n \in Adopted' PROVE \E l : IsFileOf(n, l)' BY DEF OrderInv
  <2>8. CASE n = name BY <2>6, <2>8
  <2>9. CASE n # name
    <3>1. n \in Adopted /\ dir'[n] = dir[n] BY <2>7, <2>9 DEF Adopted
    <3>2. PICK l : IsFileOf(n, l) BY <3>1 DEF OrderInv
    <3> QED BY <1>6, <3>1, <3>2
  <2> QED BY <2>8, <2>9
<1> QED BY <1>7, <1>8, DirChanges

LEMMA OrderGivesFiles == ASSUME WholeInv, OrderInv PROVE FilesFollowJournal
<1> DEFINE entries == journal.entries
           plan == Plan(entries)
<1>1. entries \in Seq(JournalEntry) /\ Numbered(entries)
  BY DEF WholeInv, AdoptInv, JournalInv, RecordInv, NumberedInv
<1>2. /\ DOMAIN plan = 1 .. Len(entries) /\ DOMAIN entries = 1 .. Len(entries)
      /\ Len(entries) \in Nat
  BY <1>1 DEF Plan, Sorted
<1>3. \A i, j \in DOMAIN plan :
        i < j => /\ plan[i].name \in Int /\ plan[j].name \in Int
                 /\ plan[i].name < plan[j].name
  BY <1>1, NamesIncrease
<1>4. \A i \in DOMAIN plan :
        plan[i].content = Sorted(entries)[i].file /\ plan[i].name \in Int
  BY <1>1, NameIsNumber DEF Plan
<1>5. \A n, i : IsFileOf(n, i) =>
        /\ i \in DOMAIN plan /\ plan[i].name = n /\ dir[n] \in {plan[i].content, Torn}
        /\ \A j \in DOMAIN plan : j < i => plan[j].name \in Adopted
  BY DEF IsFileOf
<1> HIDE DEF plan
<1> SUFFICES ASSUME NEW n \in Adopted
             PROVE  \E e \in {entries[k] : k \in DOMAIN entries} :
                       /\ e.idx = Cardinality({m \in Adopted : m < n})
                       /\ dir[n] \in {e.file, Torn}
  BY DEF FilesFollowJournal
<1>6. PICK k : IsFileOf(n, k) BY DEF OrderInv
<1>7. /\ k \in DOMAIN plan /\ plan[k].name = n /\ dir[n] \in {plan[k].content, Torn}
      /\ \A j \in DOMAIN plan : j < k => plan[j].name \in Adopted
  BY <1>5, <1>6
<1> HIDE DEF entries
<1> DEFINE S == {m \in Adopted : m < n}
           f == [j \in 1 .. k - 1 |-> plan[j].name]
<1>8. f \in Bijection(1 .. k - 1, S)
  <2>1. \A j \in 1 .. k - 1 : j \in DOMAIN plan /\ j < k BY <1>2, <1>7
  <2>2. f \in [1 .. k - 1 -> S] BY <1>3, <1>7, <2>1
  <2>3. ASSUME NEW i \in 1 .. k - 1, NEW j \in 1 .. k - 1, i < j PROVE f[i] # f[j]
    <3>1. plan[i].name \in Int /\ plan[j].name \in Int /\ plan[i].name < plan[j].name
      BY <1>3, <2>1, <2>3
    <3> QED BY <3>1
  <2>4. IsInjective(f)
    <3> SUFFICES ASSUME NEW i \in 1 .. k - 1, NEW j \in 1 .. k - 1, f[i] = f[j] PROVE i = j
      BY DEF IsInjective
    <3>1. ~ (i < j) /\ ~ (j < i) BY <2>3
    <3> QED BY <3>1
  <2>5. ASSUME NEW m \in S PROVE \E j \in 1 .. k - 1 : f[j] = m
    <3>1. PICK l : IsFileOf(m, l) BY DEF OrderInv
    <3>2. l \in DOMAIN plan /\ plan[l].name = m /\ m < n BY <1>5, <3>1
    <3>3. CASE l < k
      <4>1. l \in 1 .. k - 1 BY <1>2, <1>7, <3>2, <3>3
      <4>2. f[l] = m BY <3>2, <4>1
      <4> QED BY <4>1, <4>2
    <3>4. CASE l = k
      <4>1. m = n /\ n \in Int BY <1>4, <1>7, <3>2, <3>4
      <4> QED BY <3>2, <4>1
    <3>5. CASE k < l
      <4>1. n \in Int /\ m \in Int /\ n < m BY <1>3, <1>7, <3>2, <3>5
      <4> QED BY <3>2, <4>1
    <3> QED BY <1>2, <1>7, <3>2, <3>3, <3>4, <3>5
  <2> QED BY <2>2, <2>4, <2>5 DEF Bijection, Injection, Surjection
<1>9. Cardinality(S) = k - 1
  <2>1. k - 1 \in Nat BY <1>2, <1>7
  <2> HIDE DEF S
  <2>2. ExistsBijection(1 .. k - 1, S) BY <1>8 DEF ExistsBijection
  <2> QED BY <2>1, <2>2, FS_CountingElements
<1>10. /\ Sorted(entries)[k] \in {entries[j] : j \in DOMAIN entries}
       /\ Sorted(entries)[k].idx = k - 1
  BY <1>1, <1>2, <1>7, SortedEntry
<1>11. dir[n] \in {Sorted(entries)[k].file, Torn} BY <1>4, <1>7
<1> QED BY <1>9, <1>10, <1>11

(* `FilesFollowJournal`: the adopted files are, in name order, the first   *)
(* entries of the journal in idx order, whatever the creation times, the   *)
(* calls that overlap and the crashes.                                     *)
THEOREM FilesAreFirstEntries == Spec => []FilesFollowJournal
<1>1. Init => WholeInv /\ OrderInv
  <2>1. Init => Adopted = {} BY InitAssumption DEF Init, Adopted
  <2> QED BY <2>1, InitWholeInv DEF OrderInv
<1>2. WholeInv /\ OrderInv /\ [Next]_vars => WholeInv' /\ OrderInv'
  BY WholeInvStep, OrderInvStep
<1>3. WholeInv /\ OrderInv => FilesFollowJournal BY OrderGivesFiles
<1> QED BY <1>1, <1>2, <1>3, PTL DEF Spec
=============================================================================
