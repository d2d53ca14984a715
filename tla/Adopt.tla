-------------------------------- MODULE Adopt -------------------------------
(***************************************************************************)
(* `migrate::adopt`: the history of drizzle-kit is converted into the      *)
(* migrations directory, one file per journal entry, and what drizzle has  *)
(* already applied is recorded in the tracking table.  Adopters are calls  *)
(* of the handler, on one worker or several; meanwhile drizzle-kit may     *)
(* generate further entries and `migrate::up`, here one file per step,     *)
(* applies whatever the directory holds.                                   *)
(*                                                                         *)
(* A file name is its timestamp in seconds: the converted slugs differ     *)
(* only where the timestamps do.  The transaction of the baseline and the  *)
(* classification of its failure, one step here, are taken apart in        *)
(* Migrator.tla.                                                           *)
(***************************************************************************)
EXTENDS MigrationRows, Integers, Sequences, FiniteSets

CONSTANTS
    Adopter,       \* calls of migrate::adopt in progress at once
    Mark,          \* the values of mark_applied that callers pass
    When,          \* the creation times, in milliseconds, drizzle-kit writes
    Milli,         \* milliseconds in a second
    Source,        \* contents of the drizzle files
    Torn,          \* content of a file whose writing was interrupted
    Rerunnable,    \* contents whose SQL the database accepts a second time
    DbDialect,     \* the dialect of the target database
    InitJournals,  \* the drizzle journal at the start
    InitDirs,      \* the migrations directory at the start
    DrizzleTables, \* drizzle's tracking table: the `when`s it holds, or None
    MaxEntries,    \* bound: entries of the journal
    MaxRuns,       \* bound: calls per adopter
    MaxCrashes,    \* bound: adopters that die
    MaxFailures    \* bound: database calls that fail

(* An entry of _journal.json, and the drizzle file it names; drizzle-kit    *)
(* numbers the entries from 0 on.                                          *)
JournalEntry == [idx : Nat, when : When, file : Source \cup {None}]

ASSUME NameIsSecond == Name = 1 .. Cardinality(Name)
ASSUME SourceAssumption == Source \subseteq Content /\ Torn \in Content \ Source
ASSUME TimeAssumption == When \subseteq Int /\ Milli \in Nat \ {0}
(* Nothing has been adopted at the start. *)
ASSUME InitAssumption ==
    /\ InitDirs \subseteq Table
    /\ \A d \in InitDirs : \A n \in Name : d[n] \notin Source \cup {Torn}
ASSUME JournalAssumption ==
    /\ InitJournals \subseteq [dialect : STRING, entries : Seq(JournalEntry)]
    /\ \A j \in InitJournals :
          /\ {j.entries[k].idx : k \in DOMAIN j.entries} = 0 .. Len(j.entries) - 1
          /\ \A k, l \in DOMAIN j.entries : j.entries[k].idx = j.entries[l].idx => k = l
ASSUME MarkAssumption == Mark \subseteq {"auto", "all", "none"}
ASSUME BoundsAssumption == {MaxEntries, MaxRuns, MaxCrashes, MaxFailures} \subseteq Nat

VARIABLES
    journal,   \* the drizzle folder: dialect and entries, as in _journal.json
    drizzle,   \* drizzle's tracking table
    dir,       \* the migrations directory
    ledger,    \* the `_iii_migrations` table
    execLog,   \* files executed by up, in commit order
    pc, mark, items, at, targets, outcome, runs,   \* the adopters
    crashes, failures                              \* what has gone wrong so far

world == <<journal, drizzle, dir, ledger, execLog>>
call == <<mark, items, at, targets>>
budget == <<crashes, failures>>
vars == <<world, pc, call, outcome, runs, budget>>

(***************************************************************************)
(* plan_conversion                                                         *)
(***************************************************************************)

(* Mutant of Sorted: the order of the journal file. *)
AsWritten(entries) == entries

TheOne(S) == CHOOSE e \in S : TRUE

(* read_journal sorts the entries by idx. *)
Sorted(entries) ==
    LET all == {entries[k] : k \in DOMAIN entries}
        below(e) == {k \in DOMAIN entries : entries[k].idx < e.idx}
    IN  [i \in DOMAIN entries |-> TheOne({e \in all : Cardinality(below(e)) = i - 1})]

(* The last of the times `w`, each put off until after the one before. *)
Bumped(w) ==
    LET second[k \in 0 .. Len(w)] ==
            IF k = 0 THEN 0
            ELSE LET last == second[k - 1]
                 IN  IF w[k] > last THEN w[k] ELSE last + 1
    IN  second[Len(w)]

(* The timestamp of the i-th entry: that of its creation, but always later *)
(* than the entry before.                                                  *)
Second(s, i) == Bumped([k \in 1 .. i |-> s[k].when \div Milli])

Plan(entries) ==
    LET s == Sorted(entries)
    IN  [i \in DOMAIN s |->
            [name |-> Second(s, i), when |-> s[i].when, content |-> s[i].file]]

(* Mutant of Unusable: the range is not checked. *)
OnlyMissing(item) == item.content \notin Content

(* A file that is missing, or a timestamp out of range. *)
Unusable(item) == item.content \notin Content \/ item.name \notin Name

(***************************************************************************)
(* Initial states                                                          *)
(***************************************************************************)

Init ==
    /\ journal \in InitJournals
    /\ drizzle \in DrizzleTables
    /\ dir \in InitDirs
    /\ ledger = Empty
    /\ execLog = <<>>
    /\ pc = [a \in Adopter |-> "idle"]
    /\ mark = [a \in Adopter |-> "auto"]
    /\ items = [a \in Adopter |-> <<>>]
    /\ at = [a \in Adopter |-> 1]
    /\ targets = [a \in Adopter |-> {}]
    /\ outcome = [a \in Adopter |-> "none"]
    /\ runs = [a \in Adopter |-> 0]
    /\ crashes = 0
    /\ failures = 0

Goto(a, where) ==
    /\ pc' = [pc EXCEPT ![a] = where]
    /\ UNCHANGED outcome

End(a, code) ==
    /\ pc' = [pc EXCEPT ![a] = "idle"]
    /\ outcome' = [outcome EXCEPT ![a] = code]

(***************************************************************************)
(* The handler                                                             *)
(***************************************************************************)

(* The journal is read, its dialect compared with the database's, and the  *)
(* conversion planned before anything is written.                          *)
Adopt(a, m) ==
    LET plan == Plan(journal.entries)
    IN  /\ pc[a] = "idle"
        /\ runs[a] < MaxRuns
        /\ runs' = [runs EXCEPT ![a] = @ + 1]
        /\ mark' = [mark EXCEPT ![a] = m]
        /\ items' = [items EXCEPT ![a] = plan]
        /\ at' = [at EXCEPT ![a] = 1]
        /\ targets' = [targets EXCEPT ![a] = {}]
        /\ CASE journal.dialect \notin {"postgres", "sqlite"} ->
                    End(a, "UNSUPPORTED_DIALECT")
             [] journal.dialect \in {"postgres", "sqlite"} /\
                (\/ plan = <<>>
                 \/ journal.dialect # DbDialect
                 \/ \E i \in DOMAIN plan : Unusable(plan[i])) ->
                    End(a, "ADOPT_SOURCE_INVALID")
             [] OTHER -> Goto(a, "convert")
        /\ UNCHANGED <<world, budget>>

Item(a) == items[a][at[a]]

Converting(a) == pc[a] = "convert" /\ at[a] <= Len(items[a])

(* Mutant of TargetExists: a different target is written over. *)
TargetReplaced(a) ==
    /\ Converting(a)
    /\ dir[Item(a).name] # None
    /\ IF dir[Item(a).name] = Item(a).content
       THEN at' = [at EXCEPT ![a] = @ + 1] /\ Goto(a, "convert")
       ELSE UNCHANGED at /\ Goto(a, "write")
    /\ UNCHANGED <<world, mark, items, targets, runs, budget>>

(* write_converted, the target exists: skipped when it is the same file,   *)
(* a conflict otherwise.                                                   *)
TargetExists(a) ==
    /\ Converting(a)
    /\ dir[Item(a).name] # None
    /\ IF dir[Item(a).name] = Item(a).content
       THEN at' = [at EXCEPT ![a] = @ + 1] /\ Goto(a, "convert")
       ELSE UNCHANGED at /\ End(a, "ADOPT_CONFLICT")
    /\ UNCHANGED <<world, mark, items, targets, runs, budget>>

(* write_converted, no such target: it is written, in another system call. *)
TargetMissing(a) ==
    /\ Converting(a)
    /\ dir[Item(a).name] = None
    /\ Goto(a, "write")
    /\ UNCHANGED <<world, call, runs, budget>>

WriteTarget(a) ==
    /\ pc[a] = "write"
    /\ dir' = [dir EXCEPT ![Item(a).name] = Item(a).content]
    /\ at' = [at EXCEPT ![a] = @ + 1]
    /\ Goto(a, "convert")
    /\ UNCHANGED <<journal, drizzle, ledger, execLog, mark, items, targets,
                   runs, budget>>

Names(a, S) == {items[a][i].name : i \in {k \in DOMAIN items[a] : items[a][k].when \in S}}

(* The files to baseline are known; without any the call is over. *)
Decide(a, names) ==
    /\ targets' = [targets EXCEPT ![a] = names]
    /\ IF names = {} THEN End(a, "ok") ELSE Goto(a, "baseline")

(* Everything is converted.  With mark_applied "all" or "none" the caller  *)
(* says what has been applied; "auto" asks drizzle's table.                *)
Converted(a) ==
    /\ pc[a] = "convert" /\ at[a] > Len(items[a])
    /\ CASE mark[a] = "all" -> Decide(a, Names(a, When))
         [] mark[a] = "none" -> Decide(a, {})
         [] OTHER -> Goto(a, "match") /\ UNCHANGED targets
    /\ UNCHANGED <<world, mark, items, at, runs, budget>>

(* Mutant of Matched: a missing table counts as everything applied. *)
AllMatched(a) ==
    /\ pc[a] = "match"
    /\ Decide(a, Names(a, When))
    /\ UNCHANGED <<world, mark, items, at, runs, budget>>

(* fetch_drizzle_rows and partition_applied: an entry counts as applied    *)
(* when the table has a row with its `when`.                               *)
Matched(a) ==
    /\ pc[a] = "match"
    /\ Decide(a, IF drizzle = None THEN {} ELSE Names(a, drizzle))
    /\ UNCHANGED <<world, mark, items, at, runs, budget>>

(***************************************************************************)
(* baseline_files on the matched entries                                   *)
(***************************************************************************)

Planned(a) ==
    [n \in Name |->
        IF n \in targets[a]
        THEN (CHOOSE item \in {items[a][i] : i \in DOMAIN items[a]} : item.name = n).content
        ELSE None]

(* fetch_applied and the gate; rows that are there already are skipped. *)
Gate(a) ==
    LET file == Planned(a)
    IN  /\ pc[a] = "baseline"
        /\ IF \E n \in targets[a] : ledger[n] \notin {None, file[n]}
           THEN End(a, "CHECKSUM_MISMATCH") /\ UNCHANGED targets
           ELSE /\ targets' = [targets EXCEPT ![a] = @ \ Listed(ledger)]
                /\ IF targets[a] \subseteq Listed(ledger) THEN End(a, "ok")
                   ELSE Goto(a, "record")
        /\ UNCHANGED <<world, mark, items, at, runs, budget>>

(* Mutant of RecordTargets: rows of others in the way always mean a skip. *)
SkipUnread(a) ==
    /\ pc[a] = "record"
    /\ ledger' = IF targets[a] \cap Listed(ledger) = {} THEN Merge(ledger, Planned(a))
                 ELSE ledger
    /\ End(a, "ok")
    /\ UNCHANGED <<journal, drizzle, dir, execLog, call, runs, budget>>

(* Mutant of RecordTargets: INSERT OR REPLACE. *)
RecordOver(a) ==
    /\ pc[a] = "record"
    /\ ledger' = Merge(ledger, Planned(a))
    /\ End(a, "ok")
    /\ UNCHANGED <<journal, drizzle, dir, execLog, call, runs, budget>>

(* The batch inserts all its rows or none.  When it meets rows of others   *)
(* it fails, which is a skip if they are all there with our checksums; the *)
(* first that is not decides the error.                                    *)
RecordTargets(a) ==
    LET file == Planned(a)
    IN  /\ pc[a] = "record"
        /\ \/ /\ targets[a] \cap Listed(ledger) = {}
              /\ ledger' = Merge(ledger, file)
              /\ End(a, "ok")
           \/ /\ targets[a] \cap Listed(ledger) # {}
              /\ UNCHANGED ledger
              /\ IF \A n \in targets[a] : ledger[n] = file[n] THEN End(a, "ok")
                 ELSE \E n \in targets[a] :
                         /\ ledger[n] # file[n]
                         /\ \A m \in targets[a] : m < n => ledger[m] = file[m]
                         /\ End(a, IF ledger[n] = None
                                   THEN "DATABASE_WORKER_UNAVAILABLE"
                                   ELSE "CHECKSUM_MISMATCH")
        /\ UNCHANGED <<journal, drizzle, dir, execLog, call, runs, budget>>

(***************************************************************************)
(* Failures                                                                *)
(***************************************************************************)

(* A database call fails; a batch that timed out may commit all the same.  *)
CallFails(a) ==
    /\ pc[a] \in {"match", "baseline", "record"}
    /\ failures < MaxFailures
    /\ failures' = failures + 1
    /\ \/ UNCHANGED ledger
       \/ /\ pc[a] = "record" /\ targets[a] \cap Listed(ledger) = {}
          /\ ledger' = Merge(ledger, Planned(a))
    /\ End(a, "DATABASE_WORKER_UNAVAILABLE")
    /\ UNCHANGED <<journal, drizzle, dir, execLog, call, runs, crashes>>

(* The process dies, perhaps while a file is half written. *)
Crash(a) ==
    /\ pc[a] # "idle"
    /\ crashes < MaxCrashes
    /\ crashes' = crashes + 1
    /\ \/ UNCHANGED dir
       \/ pc[a] = "write" /\ dir' = [dir EXCEPT ![Item(a).name] = Torn]
    /\ End(a, "none")
    /\ UNCHANGED <<journal, drizzle, ledger, execLog, call, runs, failures>>

(***************************************************************************)
(* The environment                                                         *)
(***************************************************************************)

(* drizzle-kit generate appends an entry; the clock it takes `when` from   *)
(* need not be later than the last entry's.                                *)
Generate ==
    LET n == Len(journal.entries)
    IN  /\ n < MaxEntries
        /\ \E w \in When, c \in Source :
              journal' = [journal EXCEPT !.entries =
                             Append(@, [idx |-> n, when |-> w, file |-> c])]
        /\ UNCHANGED <<drizzle, dir, ledger, execLog, pc, call, outcome, runs, budget>>

(* The files of the entries drizzle has executed. *)
Deployed ==
    LET plan == Plan(journal.entries)
    IN  IF drizzle = None THEN {}
        ELSE {plan[i].name : i \in {k \in DOMAIN plan : plan[k].when \in drizzle}}

(* migrate::up applies the next file: the gate, the execution (refused if  *)
(* the schema has it already), the row.                                    *)
UpFile ==
    /\ \A n \in Name : dir[n] # None /\ ledger[n] # None => ledger[n] = dir[n]
    /\ \E n \in Listed(dir) \ Listed(ledger) :
          /\ \A m \in Listed(dir) \ Listed(ledger) : n <= m
          /\ n \in Deployed => dir[n] \in Rerunnable
          /\ ledger' = [ledger EXCEPT ![n] = dir[n]]
          /\ execLog' = Append(execLog, [name |-> n, content |-> dir[n]])
    /\ UNCHANGED <<journal, drizzle, dir, pc, call, outcome, runs, budget>>

Idle ==
    /\ \A a \in Adopter : pc[a] = "idle"
    /\ UNCHANGED vars

Step(a) ==
    \/ \E m \in Mark : Adopt(a, m)
    \/ TargetExists(a) \/ TargetMissing(a) \/ WriteTarget(a)
    \/ Converted(a) \/ Matched(a) \/ Gate(a) \/ RecordTargets(a)
    \/ CallFails(a) \/ Crash(a)

Next == (\E a \in Adopter : Step(a)) \/ Generate \/ UpFile \/ Idle

Spec == Init /\ [][Next]_vars

(***************************************************************************)
(* Properties                                                              *)
(***************************************************************************)

TypeOK ==
    /\ dir \in Table /\ ledger \in Table
    /\ execLog \in Seq(Entry)
    /\ pc \in [Adopter -> {"idle", "convert", "write", "match", "baseline", "record"}]
    /\ \A a \in Adopter : at[a] \in 1 .. Len(items[a]) + 1 /\ targets[a] \subseteq Name
    /\ \A a \in Adopter : pc[a] # "idle" =>
          \A i \in DOMAIN items[a] : items[a][i].name \in Name

(* What a file may hold instead of its content: only another call that     *)
(* writes the same file at the same time, and dies, can tear it.           *)
TornByOthers(a) == {Torn : b \in Adopter \ {a}}

(* An adopt that answers has every entry of the journal it read in the     *)
(* directory with its content, and every entry drizzle had applied on      *)
(* record, whatever earlier calls left undone and up did meanwhile.        *)
AdoptionComplete ==
    \A a \in Adopter :
        pc[a] = "idle" /\ outcome[a] = "ok" =>
            \A i \in DOMAIN items[a] :
                LET item == items[a][i]
                IN  /\ dir[item.name] \in {item.content} \cup TornByOthers(a)
                    /\ (drizzle # None /\ item.when \in drizzle /\ mark[a] # "none")
                           => ledger[item.name] = item.content

(* Adopters and up keep one log between them (MigrationLog): whichever of   *)
(* them reaches the table first, a row is never replaced, a file is never  *)
(* executed once it is on record, and nothing is executed without its row. *)
Log == INSTANCE MigrationLog WITH ledger <- ledger, execLog <- execLog

AdoptImplementsLog == Log!Spec

(* A call with mark_applied "auto" puts only those files on record that    *)
(* drizzle has executed: a pending migration is never marked as applied,   *)
(* even when another call's conversion or drizzle-kit was faster.          *)
RecordedWasExecuted ==
    [][\A a \in Adopter :
          (pc[a] = "record" /\ pc'[a] = "idle" /\ mark[a] = "auto")
          => Listed(ledger') \subseteq Listed(ledger) \cup Deployed]_vars

(* The files that calls have written. *)
Adopted == {n \in Name : dir[n] \in Source \cup {Torn}}

(* Whatever the order of the journal file, the creation times in it and    *)
(* the calls already made, the adopted files are, in name order, the first *)
(* entries of the journal in idx order: none is out of order, and none has *)
(* a second file.                                                          *)
FilesFollowJournal ==
    \A n \in Adopted :
        \E e \in {journal.entries[k] : k \in DOMAIN journal.entries} :
            /\ e.idx = Cardinality({m \in Adopted : m < n})
            /\ dir[n] \in {e.file, Torn}

(* adopt never changes a whole file that is in the directory, whoever      *)
(* wrote it.                                                               *)
NeverOverwritten ==
    [][\A n \in Name : dir[n] \notin {None, Torn} =>
          dir'[n] \in {dir[n]} \cup UNION {TornByOthers(a) : a \in Adopter}]_vars
=============================================================================
