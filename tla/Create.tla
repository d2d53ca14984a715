-------------------------------- MODULE Create ------------------------------
(***************************************************************************)
(* `migrate::create`: a new file is named after the clock, but never       *)
(* before the files that are there.  Calls overlap (the handler takes no   *)
(* lock, and replicas may share the directory), the clock may be set back, *)
(* and authors add files with names of their own.                          *)
(*                                                                         *)
(* A name is its prefix, as a number of seconds, and its slug; authors     *)
(* also write prefixes of 14 digits that are no date.  Dates end with the  *)
(* year 9999: chrono writes later ones with a sign, so they are no prefix  *)
(* of 14 digits, and up refuses a directory that has such a file.  The     *)
(* clock counts fractions of a second.                                     *)
(***************************************************************************)
EXTENDS Naturals

CONSTANTS
    Creator,      \* calls of migrate::create in progress at once
    Slug,         \* slugs the name scheme allows
    BadSlug,      \* slugs it does not
    Fraction,     \* clock ticks in a second
    LastSecond,   \* 99991231235959
    HandWritten,  \* dates that authors write by hand
    Undated,      \* prefixes that they write, of 14 digits that are no date
    MaxClock,     \* bound: the clock
    MaxSetBacks,  \* bound: times the clock is set back
    MaxHand,      \* bound: files written by hand
    MaxRuns       \* bound: calls per creator

ASSUME FractionAssumption == Fraction \in Nat \ {0}
ASSUME PrefixAssumption ==
    /\ LastSecond \in Nat \ {0}
    /\ HandWritten \subseteq 1 .. LastSecond
    /\ Undated \cap Nat = {}
ASSUME SlugAssumption == Slug \cap BadSlug = {}
ASSUME BoundsAssumption ==
    /\ {MaxClock, MaxSetBacks, MaxHand, MaxRuns} \subseteq Nat
    /\ MaxClock < (LastSecond + 1) * Fraction

VARIABLES
    dir,               \* files of the migrations directory
    clock, setBacks,   \* Utc::now(), and how often it was set back
    hand,              \* files written by hand
    pc, slug, ts, known, created, outcome, runs   \* the creators

file == <<dir, hand>>
time == <<clock, setBacks>>
vars == <<file, time, pc, slug, ts, known, created, outcome, runs>>

Date == 0 .. LastSecond

(* The names up and status accept: 14 digits, then a slug of the scheme. *)
ValidName == [sec : Date \cup Undated, slug : Slug]

(* The names files can have: also those after the last second, with a sign. *)
FileName == [sec : Nat \cup Undated, slug : Slug]

NoFile == [sec |-> 0, slug |-> "none"]

Init ==
    /\ dir = {}
    /\ clock \in Fraction .. 2 * Fraction - 1
    /\ setBacks = 0
    /\ hand = 0
    /\ pc = [p \in Creator |-> "idle"]
    /\ slug = [p \in Creator |-> "none"]
    /\ ts = [p \in Creator |-> 0]
    /\ known = [p \in Creator |-> {}]
    /\ created = [p \in Creator |-> NoFile]
    /\ outcome = [p \in Creator |-> "none"]
    /\ runs = [p \in Creator |-> 0]

(* Mutant of Refused: the slug is not checked. *)
RefusedNever(s) == FALSE

(* A slug with other characters would make an ill-named file. *)
Refused(s) == s \in BadSlug

(* The call begins: the slug is checked.  `known` keeps, for the           *)
(* properties, the files that are there already.                           *)
Invoke(p) ==
    /\ pc[p] = "idle"
    /\ runs[p] < MaxRuns
    /\ runs' = [runs EXCEPT ![p] = @ + 1]
    /\ known' = [known EXCEPT ![p] = dir]
    /\ created' = [created EXCEPT ![p] = NoFile]
    /\ \E s \in Slug \cup BadSlug :
          /\ slug' = [slug EXCEPT ![p] = s]
          /\ IF Refused(s)
             THEN /\ outcome' = [outcome EXCEPT ![p] = "INVALID_MIGRATION_NAME"]
                  /\ UNCHANGED pc
             ELSE /\ outcome' = [outcome EXCEPT ![p] = "none"]
                  /\ pc' = [pc EXCEPT ![p] = "clock"]
    /\ UNCHANGED <<file, time, ts>>

ReadClock(p) ==
    /\ pc[p] = "clock"
    /\ ts' = [ts EXCEPT ![p] = clock]
    /\ pc' = [pc EXCEPT ![p] = "scan"]
    /\ UNCHANGED <<file, time, slug, known, created, outcome, runs>>

(* latest_migration_timestamp: prefixes that are no date do not count, nor *)
(* do ill-named files, as those after the last second are.                 *)
Dated == {f.sec : f \in dir} \cap Date

(* Mutant of AfterLatest: the second of the latest file itself. *)
AtLatest(t) ==
    LET later == {s \in Dated : s * Fraction > t}
    IN  IF later = {} THEN t
        ELSE (CHOOSE s \in later : \A r \in later : r <= s) * Fraction

(* The time to name the file after: the clock's, or the first second after *)
(* the latest file if that is ahead of the clock.                          *)
AfterLatest(t) ==
    LET ahead == {s \in Dated : (s + 1) * Fraction > t}
    IN  IF ahead = {} THEN t
        ELSE ((CHOOSE s \in ahead : \A r \in ahead : r <= s) + 1) * Fraction

Scan(p) ==
    /\ pc[p] = "scan"
    /\ ts' = [ts EXCEPT ![p] = AfterLatest(@)]
    /\ pc' = [pc EXCEPT ![p] = "probe"]
    /\ UNCHANGED <<file, time, slug, known, created, outcome, runs>>

(* The name holds whole seconds. *)
Formatted(p) == [sec |-> ts[p] \div Fraction, slug |-> slug[p]]

(* A name that is taken is bumped by a second. *)
Taken(p) ==
    /\ pc[p] = "probe"
    /\ Formatted(p) \in dir
    /\ ts' = [ts EXCEPT ![p] = @ + Fraction]
    /\ UNCHANGED <<file, time, pc, slug, known, created, outcome, runs>>

(* A free name is kept; the file is written in another system call. *)
Free(p) ==
    /\ pc[p] = "probe"
    /\ Formatted(p) \notin dir
    /\ pc' = [pc EXCEPT ![p] = "write"]
    /\ UNCHANGED <<file, time, slug, ts, known, created, outcome, runs>>

Write(p) ==
    /\ pc[p] = "write"
    /\ dir' = dir \cup {Formatted(p)}
    /\ created' = [created EXCEPT ![p] = Formatted(p)]
    /\ outcome' = [outcome EXCEPT ![p] = "ok"]
    /\ pc' = [pc EXCEPT ![p] = "idle"]
    /\ UNCHANGED <<hand, time, slug, ts, known, runs>>

(* The write fails, with or without having created the file. *)
WriteFails(p) ==
    /\ pc[p] = "write"
    /\ dir' \in {dir, dir \cup {Formatted(p)}}
    /\ outcome' = [outcome EXCEPT ![p] = "CONFIG_ERROR"]
    /\ pc' = [pc EXCEPT ![p] = "idle"]
    /\ UNCHANGED <<hand, time, slug, ts, known, created, runs>>

(***************************************************************************)
(* The environment                                                         *)
(***************************************************************************)

HandWrite ==
    /\ hand < MaxHand
    /\ hand' = hand + 1
    /\ \E s \in HandWritten \cup Undated, g \in Slug : dir' = dir \cup {[sec |-> s, slug |-> g]}
    /\ UNCHANGED <<time, pc, slug, ts, known, created, outcome, runs>>

Tick ==
    /\ clock < MaxClock
    /\ clock' = clock + 1
    /\ UNCHANGED <<file, setBacks, pc, slug, ts, known, created, outcome, runs>>

SetBack ==
    /\ setBacks < MaxSetBacks
    /\ setBacks' = setBacks + 1
    /\ clock' \in 0 .. clock
    /\ UNCHANGED <<file, pc, slug, ts, known, created, outcome, runs>>

Step(p) ==
    \/ Invoke(p) \/ ReadClock(p) \/ Scan(p)
    \/ Taken(p) \/ Free(p) \/ Write(p) \/ WriteFails(p)

Next == (\E p \in Creator : Step(p)) \/ HandWrite \/ Tick \/ SetBack

Spec == Init /\ [][Next]_vars

(***************************************************************************)
(* Properties                                                              *)
(***************************************************************************)

(* Types; among them that a file is never created under a name for which   *)
(* up would refuse the directory (the assertion of create.rs:71), as long  *)
(* as no file is of the last second, and that files are never removed.     *)
TypeOK ==
    /\ dir \subseteq FileName
    /\ LastSecond \notin Dated => dir \subseteq ValidName
    /\ clock \in Nat
    /\ pc \in [Creator -> {"idle", "clock", "scan", "probe", "write"}]
    /\ slug \in [Creator -> Slug \cup BadSlug \cup {"none"}]
    /\ ts \in [Creator -> Nat]
    /\ known \in [Creator -> SUBSET dir]
    /\ created \in [Creator -> FileName \cup {NoFile}]
    /\ outcome \in [Creator -> {"none", "ok", "INVALID_MIGRATION_NAME", "CONFIG_ERROR"}]

(* A created file sorts after every dated file that was there when the     *)
(* call began, also when those are ahead of the clock, when the clock was  *)
(* set back since they were created, and when other calls are writing; but *)
(* after the last second nothing sorts.                                    *)
SortsAfterKnown ==
    LastSecond \notin Dated =>
        \A p \in Creator : outcome[p] = "ok" =>
            \A f \in known[p] : f.sec \in Date =>
                created[p].sec \in Date /\ f.sec < created[p].sec

(* No two calls create the same file: create.rs:49, "bump by one second on *)
(* collision (two creates within the same second) so names stay unique".   *)
NamesUnique ==
    \A p, q \in Creator :
        p # q /\ outcome[p] = "ok" /\ outcome[q] = "ok" => created[p] # created[q]
=============================================================================
