------------------------------- MODULE Reports ------------------------------
(***************************************************************************)
(* `migrate::status` and `migrate::check`: reports put together from a     *)
(* listing of the directory, the tracking table read afterwards and, for   *)
(* check, the files read once more.  In between, other workers run up and  *)
(* baseline and authors change the directory.                              *)
(*                                                                         *)
(* The future-dated files of both reports are left out.                    *)
(***************************************************************************)
EXTENDS MigrationRows

CONSTANTS
    Reporter,      \* calls of status or check in progress at once
    Kind,          \* which of the two
    Unsplittable,  \* contents the statement splitter refuses
    Blank,         \* contents without a statement
    IllName,       \* .sql files whose names do not follow the scheme
    InitDirs,      \* the directory at the start
    InitLedgers,   \* the tracking table at the start
    MaxEdits,      \* bound: changes of the directory
    MaxRuns        \* bound: calls per reporter

ASSUME ContentAssumption == Unsplittable \subseteq Content /\ Blank \subseteq Content
ASSUME KindAssumption == Kind \subseteq {"status", "check"}
ASSUME InitAssumption == InitDirs \subseteq Table /\ InitLedgers \subseteq Table
ASSUME BoundsAssumption == MaxEdits \in Nat /\ MaxRuns \in Nat

VARIABLES
    dir, ill,        \* the files, and the ill-named ones
    ledger,          \* the `_iii_migrations` table
    edits,           \* changes of the directory so far
    pc, kind, since, \* the reporters; `since` is `edits` when a call began
    scan, bad, rows, \* what a call has read: files, ill-named files, rows
    report, runs

disk == <<dir, ill, edits>>
call == <<kind, since, runs>>
vars == <<disk, ledger, pc, call, scan, bad, rows, report>>

NoReport == [of |-> "none"]

Init ==
    /\ dir \in InitDirs
    /\ ill = {}
    /\ ledger \in InitLedgers
    /\ edits = 0
    /\ pc = [r \in Reporter |-> "idle"]
    /\ kind = [r \in Reporter |-> "none"]
    /\ since = [r \in Reporter |-> 0]
    /\ scan = [r \in Reporter |-> Empty]
    /\ bad = [r \in Reporter |-> {}]
    /\ rows = [r \in Reporter |-> Empty]
    /\ report = [r \in Reporter |-> NoReport]
    /\ runs = [r \in Reporter |-> 0]

Invoke(r, k) ==
    /\ pc[r] = "idle"
    /\ runs[r] < MaxRuns
    /\ runs' = [runs EXCEPT ![r] = @ + 1]
    /\ kind' = [kind EXCEPT ![r] = k]
    /\ since' = [since EXCEPT ![r] = edits]
    /\ report' = [report EXCEPT ![r] = NoReport]
    /\ pc' = [pc EXCEPT ![r] = "scan"]
    /\ UNCHANGED <<disk, ledger, scan, bad, rows>>

Answer(r, answer) ==
    /\ report' = [report EXCEPT ![r] = answer]
    /\ pc' = [pc EXCEPT ![r] = "idle"]

(* scan_migrations; status goes through list_migrations, which refuses a   *)
(* directory with ill-named files.                                         *)
Scan(r) ==
    /\ pc[r] = "scan"
    /\ scan' = [scan EXCEPT ![r] = dir]
    /\ bad' = [bad EXCEPT ![r] = ill]
    /\ IF kind[r] = "status" /\ ill # {}
       THEN Answer(r, [of |-> "INVALID_MIGRATION_NAME"])
       ELSE pc' = [pc EXCEPT ![r] = "fetch"] /\ UNCHANGED report
    /\ UNCHANGED <<disk, ledger, call, rows>>

(* Files with a row of another checksum. *)
Drifted(files, table) == {n \in Listed(files) \cap Listed(table) : files[n] # table[n]}

Pending(files, table) == Listed(files) \ Listed(table)

(* Mutant of StatusReport: files up cannot run are not called pending. *)
BrokenNotPending(files, table) ==
    [of |-> "status",
     pending |-> {n \in Pending(files, table) : files[n] \notin Unsplittable},
     mismatched |-> Drifted(files, table),
     missing |-> Listed(table) \ Listed(files)]

(* Mutant of StatusReport: drifted files are not taken off the rows. *)
DriftedAlsoMissing(files, table) ==
    [of |-> "status",
     pending |-> Pending(files, table),
     mismatched |-> Drifted(files, table),
     missing |-> {n \in Listed(table) : files[n] # table[n]}]

StatusReport(files, table) ==
    [of |-> "status",
     pending |-> Pending(files, table),
     mismatched |-> Drifted(files, table),
     missing |-> Listed(table) \ Listed(files)]

(* fetch_applied answers: status is done, check goes on to the contents of *)
(* the files without a row.                                                *)
Fetch(r) ==
    /\ pc[r] = "fetch"
    /\ rows' = [rows EXCEPT ![r] = ledger]
    /\ IF kind[r] = "status"
       THEN Answer(r, StatusReport(scan[r], ledger))
       ELSE pc' = [pc EXCEPT ![r] = "contents"] /\ UNCHANGED report
    /\ UNCHANGED <<disk, ledger, call, scan, bad>>

(* Mutant of FetchFails: status does without the rows too. *)
FetchNothing(r) ==
    /\ pc[r] = "fetch"
    /\ rows' = [rows EXCEPT ![r] = None]
    /\ pc' = [pc EXCEPT ![r] = "contents"]
    /\ UNCHANGED <<disk, ledger, call, scan, bad, report>>

(* The database is unreachable: status fails, check does without the rows. *)
FetchFails(r) ==
    /\ pc[r] = "fetch"
    /\ IF kind[r] = "status"
       THEN Answer(r, [of |-> "DATABASE_WORKER_UNAVAILABLE"]) /\ UNCHANGED rows
       ELSE /\ rows' = [rows EXCEPT ![r] = None]
            /\ pc' = [pc EXCEPT ![r] = "contents"]
            /\ UNCHANGED report
    /\ UNCHANGED <<disk, ledger, call, scan, bad>>

(* Mutant of Executable: a file without statements passes. *)
Splits(content) == content \notin Unsplittable

(* check_sql: the file splits, into one statement at least. *)
Executable(content) == content \notin Unsplittable \cup Blank

(* build_report, from the contents the files to check have now. *)
CheckReport(files, names, table, contents, toCheck) ==
    LET known == table # None
    IN  [of |-> "check",
         ok |-> /\ names = {}
                /\ \A n \in toCheck : Executable(contents[n])
                /\ known => Drifted(files, table) = {},
         dbChecked |-> known]

(* The files without a row are read; one that is gone is a CONFIG_ERROR. *)
Contents(r) ==
    LET table == rows[r]
        toCheck == IF table = None THEN Listed(scan[r]) ELSE Pending(scan[r], table)
    IN  /\ pc[r] = "contents"
        /\ Answer(r, IF toCheck \subseteq Listed(dir)
                     THEN CheckReport(scan[r], bad[r], table, dir, toCheck)
                     ELSE [of |-> "CONFIG_ERROR"])
        /\ UNCHANGED <<disk, ledger, call, scan, bad, rows>>

(***************************************************************************)
(* The environment                                                         *)
(***************************************************************************)

(* What would block migrate::up, or break one of its files. *)
UpBlocked ==
    \/ ill # {}
    \/ Drifted(dir, ledger) # {}
    \/ \E n \in Pending(dir, ledger) : dir[n] \in Unsplittable \cup Blank

(* migrate::up, on another worker, applies the next file. *)
UpFile ==
    /\ ill = {} /\ Drifted(dir, ledger) = {}
    /\ \E n \in Pending(dir, ledger) :
          /\ \A m \in Pending(dir, ledger) : n <= m
          /\ dir[n] \notin Unsplittable \cup Blank
          /\ ledger' = [ledger EXCEPT ![n] = dir[n]]
    /\ UNCHANGED <<disk, pc, call, scan, bad, rows, report>>

(* migrate::baseline records a file, which need not be good SQL. *)
BaselineFile ==
    /\ ill = {}
    /\ \E n \in Pending(dir, ledger) : ledger' = [ledger EXCEPT ![n] = dir[n]]
    /\ UNCHANGED <<disk, pc, call, scan, bad, rows, report>>

(* A file appears, changes or goes away. *)
Edit ==
    /\ edits < MaxEdits
    /\ edits' = edits + 1
    /\ \/ \E n \in Name, c \in Row : dir' = [dir EXCEPT ![n] = c] /\ UNCHANGED ill
       \/ ill' \in SUBSET IllName /\ UNCHANGED dir
    /\ UNCHANGED <<ledger, pc, call, scan, bad, rows, report>>

Step(r) ==
    \/ \E k \in Kind : Invoke(r, k)
    \/ Scan(r) \/ Fetch(r) \/ FetchFails(r) \/ Contents(r)

Next == (\E r \in Reporter : Step(r)) \/ UpFile \/ BaselineFile \/ Edit

Spec == Init /\ [][Next]_vars

(***************************************************************************)
(* Properties                                                              *)
(***************************************************************************)

TypeOK ==
    /\ dir \in Table /\ ledger \in Table /\ ill \subseteq IllName /\ edits \in Nat
    /\ pc \in [Reporter -> {"idle", "scan", "fetch", "contents"}]
    /\ since \in [Reporter -> Nat]
    /\ scan \in [Reporter -> Table]
    /\ \A r \in Reporter : since[r] <= edits
    /\ \A r \in Reporter : pc[r] # "idle" => kind[r] \in Kind
    /\ \A r \in Reporter : pc[r] = "contents" => kind[r] = "check"

(* The directory has not changed since the call of this report began. *)
Unedited(r) == since[r] = edits

(* check.rs:37, `ok` is "False when anything would block or break          *)
(* migrate::up": from an ok report on, until somebody changes the          *)
(* directory, up is neither refused nor stopped by a file, whatever up and *)
(* baseline did while the report was made.                                 *)
OkMeansUpRuns ==
    \A r \in Reporter :
        report[r].of = "check" /\ Unedited(r) =>
            (report[r].ok /\ report[r].dbChecked => ~UpBlocked)

(* While nobody changes the directory, the mismatches of a status are      *)
(* those up stops at, no more and no less, and its missing files those     *)
(* that have a row only.                                                   *)
StatusDriftExact ==
    \A r \in Reporter :
        report[r].of = "status" /\ Unedited(r) =>
            /\ report[r].mismatched = Drifted(dir, ledger)
            /\ report[r].missing = Listed(ledger) \ Listed(dir)

(* Every file that is pending was pending in the report too: a concurrent  *)
(* up may make a status too long, never too short.                         *)
StatusMissesNoPending ==
    \A r \in Reporter :
        report[r].of = "status" /\ Unedited(r) =>
            Pending(dir, ledger) \subseteq report[r].pending
=============================================================================
