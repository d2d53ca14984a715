------------------------------ MODULE Migrator ------------------------------
(***************************************************************************)
(* miiigrate workers ("replicas") that run `migrate::up`,                  *)
(* `migrate::baseline` and `migrate::codegen` against one database.        *)
(*                                                                         *)
(* A replica talks to the database only through invocations of the         *)
(* external `database` worker.  Every await on such an invocation is a     *)
(* step boundary; what the code does between two awaits is one action.  A  *)
(* `database::transaction` is the only long call: its batch is a process   *)
(* of its own, which waits for the migration lock, runs, and commits or    *)
(* rolls back whether or not its caller is still waiting for the reply.    *)
(*                                                                         *)
(* Replicas may share a migrations directory and a types file (two workers *)
(* on one host) or have their own (a rolling deployment): Home says which  *)
(* checkout a replica reads and writes.                                    *)
(***************************************************************************)
EXTENDS MigrationRows, Sequences, FiniteSets

CONSTANTS
    Replica,        \* worker processes
    Checkout,       \* migrations directories, each with its types file
    Home,           \* replica -> the checkout it is configured with
    Batch,          \* identifiers of batches in flight (reused when free)
    InvalidName,    \* names that validate_name refuses
    Unsplittable,   \* contents the splitter refuses, or with no statement
    Broken,         \* contents whose SQL the database refuses
    Handler,        \* the handlers clients call
    BaselineNames,  \* payloads of migrate::baseline: sets of names, or None
    CodegenOnUp,    \* configuration: codegen_on_up_enabled()
    InitDirs,       \* the checkouts' contents at the start
    MaxRuns,        \* bound: handler invocations per replica
    FaultBudget     \* bound: fault kind -> how often the environment does it

FaultKind == {"edit", "crash", "timeout", "unavailable", "worker"}

ASSUME HomeAssumption == Home \in [Replica -> Checkout]
ASSUME BatchAssumption == None \notin Batch
ASSUME ContentAssumption == Unsplittable \subseteq Content /\ Broken \subseteq Content
ASSUME InitDirsAssumption == InitDirs \subseteq [Checkout -> Table]
ASSUME BaselineAssumption ==
    \A T \in BaselineNames : T # None => T \subseteq Name
ASSUME ConfigAssumption ==
    /\ Handler \subseteq {"up", "baseline", "codegen"}
    /\ CodegenOnUp \in BOOLEAN
ASSUME BoundAssumption ==
    /\ MaxRuns \in Nat
    /\ FaultBudget \in [FaultKind -> Nat]

VARIABLES
    dir,          \* checkout -> its migration files
    types,        \* checkout -> the schema versions its types file shows
    tableExists,  \* the tracking table has been created
    ledger,       \* the tracking table's rows
    execLog,      \* history: executed files in commit order (schema version = length)
    phase,        \* batch -> where it is in the database worker
    sql,          \* batch -> the content whose SQL it executes, or None
    rows,         \* batch -> the tracking rows it inserts
    pc,           \* replica -> the await its handler is at
    op,           \* replica -> the handler it runs
    files,        \* replica -> the listing, with each file's checksum as last read
    todo,         \* replica -> names still to apply (up) or record (baseline)
    call,         \* replica -> the batch whose reply it awaits, or None
    applied,      \* replica -> names its run has applied (recorded, for baseline)
    skipped,      \* replica -> names its run counts as skipped
    snap,         \* replica -> schema versions its code generation has read
    outcome,      \* replica -> how its last run ended
    runs,         \* replica -> handler invocations so far
    spent         \* fault kind -> how often it has happened

dbVars == <<tableExists, ledger, execLog>>
batchVars == <<phase, sql, rows>>
runVars == <<pc, op, files, todo, call, applied, skipped, snap, outcome>>
vars == <<dir, types, dbVars, batchVars, runVars, runs, spent>>

Phase == {"free", "queued", "running", "committed", "failed"}

PC == {"idle", "ensure", "probe", "fetch", "loop", "await", "classify",
       "columns", "enums", "write"}

ErrorCode == {"CONFIG_ERROR", "INVALID_MIGRATION_NAME", "CHECKSUM_MISMATCH",
              "MIGRATION_FAILED", "DATABASE_WORKER_UNAVAILABLE"}

Outcome == [code : ErrorCode \cup {"none", "ok"}, name : Name \cup {None}]

NoVersion == [columns |-> 0, enums |-> 0]
Version == [columns : Nat, enums : Nat]

(***************************************************************************)
(* Helpers                                                                 *)
(***************************************************************************)

Spend(k) ==
    /\ spent[k] < FaultBudget[k]
    /\ spent' = [spent EXCEPT ![k] = @ + 1]

(* Mutant of Lowest: files in directory order, here the reverse. *)
Unsorted(S) == CHOOSE n \in S : \A m \in S : n >= m

(* Files are handled in name order. *)
Lowest(S) == CHOOSE n \in S : \A m \in S : n <= m

(* Mutant of Drifted: a file without a row counts as drifted. *)
DriftedOrNew(f) == {n \in Listed(f) : ledger[n] # f[n]}

(* The file whose content differs from its row: the error names the first. *)
Drifted(f) == {n \in Listed(f) : ledger[n] # None /\ ledger[n] # f[n]}

Awaited(b) == \E r \in Replica : call[r] = b

(* The handler returns: a response, or the error `code` about file `n`. *)
End(r, code, n) ==
    /\ pc' = [pc EXCEPT ![r] = "idle"]
    /\ outcome' = [outcome EXCEPT ![r] = [code |-> code, name |-> n]]

Goto(r, where) ==
    /\ pc' = [pc EXCEPT ![r] = where]
    /\ UNCHANGED outcome

(***************************************************************************)
(* Initial states: an empty database and any of the given directories      *)
(***************************************************************************)

Init ==
    /\ dir \in InitDirs
    /\ types = [k \in Checkout |-> NoVersion]
    /\ tableExists = FALSE
    /\ ledger = Empty
    /\ execLog = <<>>
    /\ phase = [b \in Batch |-> "free"]
    /\ sql = [b \in Batch |-> None]
    /\ rows = [b \in Batch |-> Empty]
    /\ pc = [r \in Replica |-> "idle"]
    /\ op = [r \in Replica |-> "up"]
    /\ files = [r \in Replica |-> Empty]
    /\ todo = [r \in Replica |-> {}]
    /\ call = [r \in Replica |-> None]
    /\ applied = [r \in Replica |-> {}]
    /\ skipped = [r \in Replica |-> {}]
    /\ snap = [r \in Replica |-> NoVersion]
    /\ outcome = [r \in Replica |-> [code |-> "none", name |-> None]]
    /\ runs = [r \in Replica |-> 0]
    /\ spent = [k \in FaultKind |-> 0]

(***************************************************************************)
(* A handler starts                                                        *)
(***************************************************************************)

(* A request arrives at an idle replica and sets up an empty response. *)
Invoke(r, handler, listing) ==
    /\ pc[r] = "idle"
    /\ handler \in Handler
    /\ runs[r] < MaxRuns
    /\ runs' = [runs EXCEPT ![r] = @ + 1]
    /\ op' = [op EXCEPT ![r] = handler]
    /\ files' = [files EXCEPT ![r] = listing]
    /\ todo' = [todo EXCEPT ![r] = {}]
    /\ applied' = [applied EXCEPT ![r] = {}]
    /\ skipped' = [skipped EXCEPT ![r] = {}]
    /\ snap' = [snap EXCEPT ![r] = NoVersion]
    /\ UNCHANGED <<dir, types, dbVars, batchVars, call, spent>>

(* list_migrations: an ill-named file fails the whole listing. *)
IllNamed(r) == Listed(dir[Home[r]]) \cap InvalidName # {}

(* migrate::up lists and checksums the directory. *)
Up(r) ==
    /\ Invoke(r, "up", dir[Home[r]])
    /\ IF IllNamed(r)
       THEN End(r, "INVALID_MIGRATION_NAME", None)
       ELSE Goto(r, "ensure")

(* migrate::baseline narrows the listing to the names asked for. *)
Baseline(r, T) ==
    LET present == Listed(dir[Home[r]])
        targets == IF T = None THEN present ELSE T
    IN  /\ Invoke(r, "baseline", Selected(dir[Home[r]], targets))
        /\ CASE IllNamed(r) -> End(r, "INVALID_MIGRATION_NAME", None)
             [] ~IllNamed(r) /\ ~(targets \subseteq present) ->
                    End(r, "CONFIG_ERROR", None)
             [] OTHER -> Goto(r, "ensure")

(* migrate::codegen goes straight to introspection. *)
Codegen(r) ==
    /\ Invoke(r, "codegen", Empty)
    /\ Goto(r, "columns")

(***************************************************************************)
(* ensure_table and fetch_applied                                          *)
(***************************************************************************)

(* CREATE TABLE IF NOT EXISTS succeeds. *)
EnsureTable(r) ==
    /\ pc[r] = "ensure"
    /\ tableExists' = TRUE
    /\ Goto(r, "fetch")
    /\ UNCHANGED <<dir, types, ledger, execLog, batchVars, op, files, todo,
                   call, applied, skipped, snap, runs, spent>>

(* The DDL fails: it raced another migrator's (the table exists now), or   *)
(* the call itself failed.  Either way the code looks for the table.       *)
EnsureTableFails(r) ==
    /\ pc[r] = "ensure"
    /\ \/ tableExists /\ UNCHANGED spent
       \/ Spend("unavailable")
    /\ Goto(r, "probe")
    /\ UNCHANGED <<dir, types, dbVars, batchVars, op, files, todo, call,
                   applied, skipped, snap, runs>>

(* Mutant of ProbeTable: the error of the DDL is returned as it is. *)
TrustDDLError(r) ==
    /\ pc[r] = "probe"
    /\ End(r, "DATABASE_WORKER_UNAVAILABLE", None)
    /\ UNCHANGED <<dir, types, dbVars, batchVars, op, files, todo, call,
                   applied, skipped, snap, runs, spent>>

(* table_exists decides whether the failed DDL matters. *)
ProbeTable(r) ==
    /\ pc[r] = "probe"
    /\ IF tableExists THEN Goto(r, "fetch")
       ELSE End(r, "DATABASE_WORKER_UNAVAILABLE", None)
    /\ UNCHANGED <<dir, types, dbVars, batchVars, op, files, todo, call,
                   applied, skipped, snap, runs, spent>>

(* fetch_applied, then the checksum gate: a drifted file blocks the run,   *)
(* otherwise the files without a row remain to be handled.                 *)
FetchApplied(r) ==
    /\ pc[r] = "fetch"
    /\ IF Drifted(files[r]) # {}
       THEN /\ End(r, "CHECKSUM_MISMATCH", Lowest(Drifted(files[r])))
            /\ UNCHANGED <<todo, skipped>>
       ELSE /\ todo' = [todo EXCEPT ![r] = Listed(files[r]) \ Listed(ledger)]
            /\ skipped' = [skipped EXCEPT ![r] =
                   IF op[r] = "up" THEN Listed(ledger)
                   ELSE Listed(files[r]) \cap Listed(ledger)]
            /\ Goto(r, "loop")
    /\ UNCHANGED <<dir, types, dbVars, batchVars, op, files, call, applied,
                   snap, runs, spent>>

(***************************************************************************)
(* Sending a batch                                                         *)
(***************************************************************************)

(* `database::transaction` is invoked with SQL to execute (None for         *)
(* baseline) and the tracking rows `g` to insert.                          *)
Send(r, statements, g) ==
    \E b \in Batch :
        /\ phase[b] = "free"
        /\ phase' = [phase EXCEPT ![b] = "queued"]
        /\ sql' = [sql EXCEPT ![b] = statements]
        /\ rows' = [rows EXCEPT ![b] = g]
        /\ call' = [call EXCEPT ![r] = b]
        /\ Goto(r, "await")

(* Mutant of ApplyNext: the row keeps the checksum of the listing. *)
ApplyWithListedChecksum(r) ==
    /\ pc[r] = "loop" /\ op[r] = "up" /\ todo[r] # {}
    /\ LET n == Lowest(todo[r])
           c == dir[Home[r]][n]
       IN  /\ c # None
           /\ c \notin Unsplittable
           /\ Send(r, c, Selected(files[r], {n}))
    /\ UNCHANGED <<dir, types, dbVars, op, files, todo, applied, skipped, snap,
                   runs, spent>>

(* One turn of the loop of up: re-read the next file, checksum what was    *)
(* read, build the batch and send it; a vanished file or one the splitter  *)
(* refuses ends the run with earlier files applied.                        *)
ApplyNext(r) ==
    /\ pc[r] = "loop" /\ op[r] = "up" /\ todo[r] # {}
    /\ LET n == Lowest(todo[r])
           c == dir[Home[r]][n]
       IN  IF c = None
           THEN /\ End(r, "CONFIG_ERROR", n)
                /\ UNCHANGED <<files, batchVars, call>>
           ELSE /\ files' = [files EXCEPT ![r][n] = c]
                /\ IF c \in Unsplittable
                   THEN /\ End(r, "MIGRATION_FAILED", n)
                        /\ UNCHANGED <<batchVars, call>>
                   ELSE Send(r, c, Selected(files'[r], {n}))
    /\ UNCHANGED <<dir, types, dbVars, op, todo, applied, skipped, snap, runs,
                   spent>>

(* baseline sends the rows of all its files in one batch. *)
RecordAll(r) ==
    /\ pc[r] = "loop" /\ op[r] = "baseline" /\ todo[r] # {}
    /\ Send(r, None, Selected(files[r], todo[r]))
    /\ UNCHANGED <<dir, types, dbVars, op, files, todo, applied, skipped, snap,
                   runs, spent>>

(* Mutant of Finish: no code generation when some files were skipped. *)
FinishUnlessSkipped(r) ==
    /\ pc[r] = "loop" /\ todo[r] = {}
    /\ IF op[r] = "up" /\ skipped[r] = {} /\ applied[r] # {} /\ CodegenOnUp
       THEN Goto(r, "columns")
       ELSE End(r, "ok", None)
    /\ UNCHANGED <<dir, types, dbVars, batchVars, op, files, todo, call,
                   applied, skipped, snap, runs, spent>>

(* Nothing is left: answer, after code generation when up applied files. *)
Finish(r) ==
    /\ pc[r] = "loop" /\ todo[r] = {}
    /\ IF op[r] = "up" /\ applied[r] # {} /\ CodegenOnUp
       THEN Goto(r, "columns")
       ELSE End(r, "ok", None)
    /\ UNCHANGED <<dir, types, dbVars, batchVars, op, files, todo, call,
                   applied, skipped, snap, runs, spent>>

(***************************************************************************)
(* The database worker (external)                                          *)
(***************************************************************************)

(* Mutant of LockFree: the batch does not take the lock. *)
NoLock(b) == TRUE

(* Batches exclude one another: every batch starts by taking the advisory  *)
(* lock (Postgres) or runs as BEGIN IMMEDIATE (SQLite).                    *)
LockFree(b) == \A o \in Batch : phase[o] # "running"

BeginBatch(b) ==
    /\ phase[b] = "queued"
    /\ LockFree(b)
    /\ phase' = [phase EXCEPT ![b] = "running"]
    /\ UNCHANGED <<dir, types, dbVars, sql, rows, runVars, runs, spent>>

(* Mutant of Duplicate: idempotent statements and an upsert of the row. *)
Upsert(b) == FALSE

(* A row of the batch is there already: its statements meet a migrated     *)
(* schema, or its INSERT meets the primary key.                            *)
Duplicate(b) == \E n \in Listed(rows[b]) : ledger[n] # None

(* Another transaction is applying the same file and has not committed. *)
Contended(b) ==
    \E o \in Batch \ {b} : /\ phase[o] = "running"
                           /\ Listed(rows[o]) \cap Listed(rows[b]) # {}

(* The SQL itself is refused; baseline executes none. *)
Refused(b) == sql[b] \in Broken

(* Mutant of CommitBatch: the rows are left to another transaction. *)
CommitWithoutRows(b) ==
    /\ phase[b] = "running"
    /\ ~Duplicate(b)
    /\ ~Refused(b)
    /\ phase' = [phase EXCEPT ![b] = "committed"]
    /\ IF sql[b] = None
       THEN UNCHANGED execLog
       ELSE LET n == Lowest(Listed(rows[b]))
            IN  execLog' = Append(execLog, [name |-> n, content |-> sql[b]])
    /\ UNCHANGED <<dir, types, tableExists, ledger, sql, rows, runVars, runs,
                   spent>>

(* The batch's statements and its tracking rows commit together. *)
CommitBatch(b) ==
    /\ phase[b] = "running"
    /\ ~Duplicate(b)
    /\ ~Refused(b)
    /\ phase' = [phase EXCEPT ![b] = "committed"]
    /\ ledger' = Merge(ledger, rows[b])
    /\ IF sql[b] = None
       THEN UNCHANGED execLog
       ELSE LET n == Lowest(Listed(rows[b]))
            IN  execLog' = Append(execLog, [name |-> n, content |-> sql[b]])
    /\ UNCHANGED <<dir, types, tableExists, sql, rows, runVars, runs, spent>>

(* The batch fails and rolls back: one of its statements is refused, or    *)
(* the worker reports an error of its own (connection lost, disk full).    *)
RollBackBatch(b) ==
    /\ phase[b] = "running"
    /\ \/ (Duplicate(b) \/ Contended(b) \/ Refused(b)) /\ UNCHANGED spent
       \/ Spend("worker")
    /\ phase' = [phase EXCEPT ![b] = "failed"]
    /\ UNCHANGED <<dir, types, dbVars, sql, rows, runVars, runs>>

(* A batch nobody awaits: its request never arrived or its reply is lost. *)
DropBatch(b) ==
    /\ phase[b] \in {"queued", "committed", "failed"}
    /\ ~Awaited(b)
    /\ phase' = [phase EXCEPT ![b] = "free"]
    /\ sql' = [sql EXCEPT ![b] = None]
    /\ rows' = [rows EXCEPT ![b] = Empty]
    /\ UNCHANGED <<dir, types, dbVars, runVars, runs, spent>>

(***************************************************************************)
(* The reply                                                               *)
(***************************************************************************)

(* The reply to the batch `r` awaits, of the given phase, is consumed. *)
Receive(r, reply) ==
    /\ pc[r] = "await"
    /\ phase[call[r]] = reply
    /\ phase' = [phase EXCEPT ![call[r]] = "free"]
    /\ sql' = [sql EXCEPT ![call[r]] = None]
    /\ rows' = [rows EXCEPT ![call[r]] = Empty]
    /\ call' = [call EXCEPT ![r] = None]

(* The files the batch of `r` carries: one for up, all for baseline. *)
InBatch(r) == IF op[r] = "up" THEN {Lowest(todo[r])} ELSE todo[r]

BatchSucceeded(r) ==
    /\ Receive(r, "committed")
    /\ applied' = [applied EXCEPT ![r] = @ \cup InBatch(r)]
    /\ todo' = [todo EXCEPT ![r] = @ \ InBatch(r)]
    /\ Goto(r, "loop")
    /\ UNCHANGED <<dir, types, dbVars, op, files, skipped, snap, runs, spent>>

BatchFailed(r) ==
    /\ Receive(r, "failed")
    /\ Goto(r, "classify")
    /\ UNCHANGED <<dir, types, dbVars, op, files, todo, applied, skipped, snap,
                   runs, spent>>

(* What the classification of a lost race can get wrong: the replica takes *)
(* its files for recorded when `recorded`, and books them as `a` and `s`.  *)
Settle(r, recorded, a, s, left) ==
    /\ pc[r] = "classify"
    /\ recorded
    /\ applied' = [applied EXCEPT ![r] = @ \cup a]
    /\ skipped' = [skipped EXCEPT ![r] = @ \cup s]
    /\ todo' = [todo EXCEPT ![r] = left]
    /\ Goto(r, "loop")
    /\ UNCHANGED <<dir, types, dbVars, batchVars, op, files, call, snap, runs,
                   spent>>

AllOurs(r) == \A n \in InBatch(r) : ledger[n] = files[r][n]

(* Mutant of AlreadyRecorded: any row will do, whatever its checksum. *)
AnyRowSettles(r) ==
    Settle(r, InBatch(r) \subseteq Listed(ledger), {}, InBatch(r), todo[r] \ InBatch(r))

(* Mutant of AlreadyRecorded: the files are reported as applied. *)
ReportedAsApplied(r) == Settle(r, AllOurs(r), InBatch(r), {}, todo[r] \ InBatch(r))

(* Mutant of AlreadyRecorded: the skip is not counted. *)
SkipUncounted(r) == Settle(r, AllOurs(r), {}, {}, todo[r] \ InBatch(r))

(* Mutant of AlreadyRecorded: the file is tried again instead of skipped. *)
TriedAgain(r) == Settle(r, AllOurs(r), {}, {}, todo[r])

(* classify_failure re-reads the tracking table.  All the batch's rows are *)
(* there with our checksums: a concurrent migrator was first.              *)
AlreadyRecorded(r) ==
    /\ pc[r] = "classify"
    /\ \A n \in InBatch(r) : ledger[n] = files[r][n]
    /\ skipped' = [skipped EXCEPT ![r] = @ \cup InBatch(r)]
    /\ todo' = [todo EXCEPT ![r] = @ \ InBatch(r)]
    /\ Goto(r, "loop")
    /\ UNCHANGED <<dir, types, dbVars, batchVars, op, files, call, applied,
                   snap, runs, spent>>

(* The first file that is not recorded as ours; the code looks no further. *)
Unrecorded(r) == {n \in InBatch(r) : ledger[n] # files[r][n]}

(* Mutant of ReportFailure: the worker's own code reaches the caller. *)
ForwardWorkerCode(r) ==
    /\ pc[r] = "classify"
    /\ Unrecorded(r) # {}
    /\ End(r, "DRIVER_ERROR", None)
    /\ UNCHANGED <<dir, types, dbVars, batchVars, op, files, todo, call,
                   applied, skipped, snap, runs, spent>>

(* It has no row, so the batch itself is at fault; or a row with another   *)
(* checksum, a mismatch found in the middle of the run.                    *)
ReportFailure(r) ==
    /\ pc[r] = "classify"
    /\ Unrecorded(r) # {}
    /\ LET n == Lowest(Unrecorded(r))
       IN  CASE ledger[n] # None -> End(r, "CHECKSUM_MISMATCH", n)
             [] ledger[n] = None /\ op[r] = "up" -> End(r, "MIGRATION_FAILED", n)
             [] OTHER -> End(r, "DATABASE_WORKER_UNAVAILABLE", None)
    /\ UNCHANGED <<dir, types, dbVars, batchVars, op, files, todo, call,
                   applied, skipped, snap, runs, spent>>

(***************************************************************************)
(* Code generation: two reads of the catalogue, then one write             *)
(***************************************************************************)

ReadColumns(r) ==
    /\ pc[r] = "columns"
    /\ snap' = [snap EXCEPT ![r].columns = Len(execLog)]
    /\ Goto(r, "enums")
    /\ UNCHANGED <<dir, types, dbVars, batchVars, op, files, todo, call,
                   applied, skipped, runs, spent>>

ReadEnums(r) ==
    /\ pc[r] = "enums"
    /\ snap' = [snap EXCEPT ![r].enums = Len(execLog)]
    /\ Goto(r, "write")
    /\ UNCHANGED <<dir, types, dbVars, batchVars, op, files, todo, call,
                   applied, skipped, runs, spent>>

WriteTypes(r) ==
    /\ pc[r] = "write"
    /\ types' = [types EXCEPT ![Home[r]] = snap[r]]
    /\ End(r, "ok", None)
    /\ UNCHANGED <<dir, dbVars, batchVars, op, files, todo, call, applied,
                   skipped, snap, runs, spent>>

(* A read or the write fails: up only logs it, migrate::codegen reports it. *)
CodegenFails(r) ==
    /\ pc[r] \in {"columns", "enums", "write"}
    /\ Spend("unavailable")
    /\ IF op[r] = "up" THEN End(r, "ok", None)
       ELSE \/ End(r, "DATABASE_WORKER_UNAVAILABLE", None)
            \/ pc[r] = "write" /\ End(r, "CONFIG_ERROR", None)
    /\ UNCHANGED <<dir, types, dbVars, batchVars, op, files, todo, call,
                   applied, skipped, snap, runs>>

(***************************************************************************)
(* Faults                                                                  *)
(***************************************************************************)

(* A short call fails (the dialect lookup, a read, or a batch that never   *)
(* leaves: engine not connected, function not registered).                 *)
CallFails(r) ==
    /\ \/ pc[r] \in {"ensure", "probe", "fetch", "classify"}
       \/ pc[r] = "loop" /\ todo[r] # {}
    /\ Spend("unavailable")
    /\ End(r, "DATABASE_WORKER_UNAVAILABLE", None)
    /\ UNCHANGED <<dir, types, dbVars, batchVars, op, files, todo, call,
                   applied, skipped, snap, runs>>

(* The transaction call times out; its batch lives on in the worker. *)
Timeout(r) ==
    /\ pc[r] = "await"
    /\ Spend("timeout")
    /\ call' = [call EXCEPT ![r] = None]
    /\ End(r, "DATABASE_WORKER_UNAVAILABLE", None)
    /\ UNCHANGED <<dir, types, dbVars, batchVars, op, files, todo, applied,
                   skipped, snap, runs>>

(* The worker process dies, in a run or between runs, and restarts with    *)
(* nothing in memory; one that has run nothing yet has nothing to lose.    *)
Crash(r) ==
    /\ pc[r] = "idle" => outcome[r].code # "none"
    /\ Spend("crash")
    /\ End(r, "none", None)
    /\ files' = [files EXCEPT ![r] = Empty]
    /\ todo' = [todo EXCEPT ![r] = {}]
    /\ call' = [call EXCEPT ![r] = None]
    /\ applied' = [applied EXCEPT ![r] = {}]
    /\ skipped' = [skipped EXCEPT ![r] = {}]
    /\ snap' = [snap EXCEPT ![r] = NoVersion]
    /\ UNCHANGED <<dir, types, dbVars, batchVars, op, runs>>

(* Somebody saves, adds or deletes a migration file. *)
Edit(k) ==
    /\ Spend("edit")
    /\ \E n \in Name, c \in Row :
           /\ dir[k][n] # c
           /\ dir' = [dir EXCEPT ![k][n] = c]
    /\ UNCHANGED <<types, dbVars, batchVars, runVars, runs>>

(***************************************************************************)
(* The specification                                                       *)
(***************************************************************************)

Request(r) ==
    \/ Up(r)
    \/ \E T \in BaselineNames : Baseline(r, T)
    \/ Codegen(r)

Progress(r) ==
    \/ EnsureTable(r) \/ EnsureTableFails(r) \/ ProbeTable(r) \/ FetchApplied(r)
    \/ ApplyNext(r) \/ RecordAll(r) \/ Finish(r)
    \/ BatchSucceeded(r) \/ BatchFailed(r)
    \/ AlreadyRecorded(r) \/ ReportFailure(r)
    \/ ReadColumns(r) \/ ReadEnums(r) \/ WriteTypes(r) \/ CodegenFails(r)
    \/ CallFails(r) \/ Timeout(r)

DatabaseStep(b) ==
    BeginBatch(b) \/ CommitBatch(b) \/ RollBackBatch(b) \/ DropBatch(b)

(* Nothing runs and nothing is in flight: the workers wait for requests.   *)
Quiescent ==
    /\ \A r \in Replica : pc[r] = "idle"
    /\ \A b \in Batch : phase[b] = "free"
    /\ UNCHANGED vars

Next ==
    \/ \E r \in Replica : Request(r) \/ Progress(r) \/ Crash(r)
    \/ \E b \in Batch : DatabaseStep(b)
    \/ \E k \in Checkout : Edit(k)
    \/ Quiescent

Spec == Init /\ [][Next]_vars

(***************************************************************************)
(* Properties                                                              *)
(***************************************************************************)

(* Every variable stays in its range (one type invariant for the module).  *)
TypeOK ==
    /\ dir \in [Checkout -> Table]
    /\ types \in [Checkout -> Version]
    /\ tableExists \in BOOLEAN
    /\ ledger \in Table
    /\ execLog \in Seq(Entry)
    /\ phase \in [Batch -> Phase]
    /\ sql \in [Batch -> Row]
    /\ rows \in [Batch -> Table]
    /\ pc \in [Replica -> PC]
    /\ op \in [Replica -> {"up", "baseline", "codegen"}]
    /\ files \in [Replica -> Table]
    /\ todo \in [Replica -> SUBSET Name]
    /\ call \in [Replica -> Batch \cup {None}]
    /\ applied \in [Replica -> SUBSET Name]
    /\ skipped \in [Replica -> SUBSET Name]
    /\ snap \in [Replica -> Version]
    /\ outcome \in [Replica -> Outcome]
    /\ runs \in [Replica -> Nat]
    /\ spent \in [FaultKind -> Nat]

Ended(r, code) == pc[r] = "idle" /\ outcome[r].code = code

(* The SQL of a file is executed at most once, whatever the interleaving   *)
(* of replicas, timed-out batches that commit late, retries and restarts   *)
(* (the tracking INSERT shares the transaction of the file's statements).  *)
ExecutedOnce ==
    \A i, j \in DOMAIN execLog : execLog[i].name = execLog[j].name => i = j

(* The checksum on record is that of the bytes that were executed, even    *)
(* when the file is edited between the listing and its turn in the loop    *)
(* (up.rs re-reads the file and recomputes the checksum).                  *)
LedgerMatchesExecution ==
    \A i \in DOMAIN execLog :
        ledger[execLog[i].name] = execLog[i].content

(* As long as every replica sees the same file names, files execute in     *)
(* name order across all replicas, runs and late commits.                  *)
ExecutedInOrder ==
    (spent["edit"] = 0 /\ \A k, l \in Checkout : Listed(dir[k]) = Listed(dir[l]))
    => \A i, j \in DOMAIN execLog : i < j => execLog[i].name < execLog[j].name

(* An up or baseline that returns a response leaves every file it listed   *)
(* on record with the content it read, whether it applied the file, found  *)
(* it applied or lost the race for it.                                     *)
SuccessMeansRecorded ==
    \A r \in Replica :
        Ended(r, "ok") => \A n \in Listed(files[r]) : ledger[n] = files[r][n]

(* Two runs never both report the same file as applied by them: the loser  *)
(* of a race reports a skip (playground/run-postgres.sh, concurrent up).   *)
AppliedByOneRun ==
    \A r, s \in Replica : r # s => applied[r] \cap applied[s] = {}

(* A response accounts for each listed file exactly once, as applied or as *)
(* skipped, concurrent skips included.                                     *)
EveryFileAccounted ==
    \A r \in Replica :
        Ended(r, "ok") => /\ Listed(files[r]) \subseteq applied[r] \cup skipped[r]
                          /\ applied[r] \cap skipped[r] = {}

(* MIGRATION_FAILED blames a file only when its own SQL is at fault or the *)
(* database worker reported an error of its own: losing a race is never    *)
(* reported as a failed migration.                                         *)
FailureIsTheFiles ==
    \A r \in Replica :
        (Ended(r, "MIGRATION_FAILED") /\ spent["worker"] = 0)
        => files[r][outcome[r].name] \in Broken \cup Unsplittable

(* Replicas with identical, unedited directories never report drift,       *)
(* whatever their races, retries and late commits.                         *)
NoFalseMismatch ==
    (spent["edit"] = 0 /\ \A k, l \in Checkout : dir[k] = dir[l])
    => \A r \in Replica : ~Ended(r, "CHECKSUM_MISMATCH")

(* A mismatch names a file that does differ from its row, unless the file  *)
(* was saved after the run had read it (up.rs lists the directory before   *)
(* it reads the table, and re-reads a file before it applies it).          *)
MismatchIsReal ==
    \A r \in Replica :
        LET n == outcome[r].name
            now == dir[Home[r]][n]
        IN  Ended(r, "CHECKSUM_MISMATCH") =>
                now # files[r][n] \/ (ledger[n] # None /\ ledger[n] # now)

(* An up reports DATABASE_WORKER_UNAVAILABLE only when a call did fail or  *)
(* time out; racing on CREATE TABLE IF NOT EXISTS is not a failure.        *)
UpUnavailableIsReal ==
    (spent["timeout"] = 0 /\ spent["unavailable"] = 0)
    => \A r \in Replica :
          op[r] = "up" => ~Ended(r, "DATABASE_WORKER_UNAVAILABLE")

(* The types file of an up that applied files and returned types shows     *)
(* every one of them, when no other replica writes that file.              *)
TypesCoverApplied ==
    (CodegenOnUp /\ spent["unavailable"] = 0)
    => \A r \in Replica :
          (Ended(r, "ok") /\ op[r] = "up" /\ \A s \in Replica \ {r} : Home[s] # Home[r])
          => \A i \in DOMAIN execLog :
                execLog[i].name \in applied[r] =>
                    i <= types[Home[r]].columns /\ i <= types[Home[r]].enums

(* A tracking row, once committed, is never changed or removed.            *)
LedgerAppendOnly ==
    [][\A n \in Name : ledger[n] # None => ledger'[n] = ledger[n]]_vars

(* The tracking table and the execution history behave as MigrationLog.    *)
Log == INSTANCE MigrationLog WITH ledger <- ledger, execLog <- execLog
ImplementsLog == Log!Spec

(***************************************************************************)
(* Claims of the documentation that the code does not keep                 *)
(***************************************************************************)

(* docs/errors.md:9, CHECKSUM_MISMATCH: "Nothing was applied."             *)
NothingAppliedOnMismatch ==
    \A r \in Replica :
        (op[r] = "up" /\ Ended(r, "CHECKSUM_MISMATCH")) => applied[r] = {}

(* docs/errors.md:14, DATABASE_WORKER_UNAVAILABLE: "The `database` worker  *)
(* is not registered on the engine, or the invocation timed out."          *)
UnavailableMeansUnavailable ==
    (spent["timeout"] = 0 /\ spent["unavailable"] = 0 /\ spent["worker"] = 0)
    => \A r \in Replica : ~Ended(r, "DATABASE_WORKER_UNAVAILABLE")

(* up.rs:182: refresh the generated types "so they can never silently      *)
(* drift from the database".                                               *)
TypesNeverDrift ==
    (CodegenOnUp /\ spent["unavailable"] = 0)
    => \A r \in Replica :
          (op[r] = "up" /\ Ended(r, "ok") /\ \A s \in Replica : pc[s] = "idle")
          => types[Home[r]].columns = Len(execLog)
=============================================================================
