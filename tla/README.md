# Verification of miiigrate

miiigrate is a worker of the iii engine that applies forward-only SQL
migrations to a Postgres or SQLite database.  It opens no connection of its
own: every statement goes through invocations of the `database` worker.
Several miiigrate workers may serve one database ("every replica migrates at
startup", `docs/configuration.md`), so the interesting behaviour is not in one
run of `migrate::up` but between runs.

This directory holds TLA+ models of that behaviour, TLC configurations that
check them on small instances, and theorems that TLAPS proves for all
instances.

## Inventory

The sources are `src/src/*.rs` and `src/src/handlers/*.rs`; paths below leave the
first `src/` out.

| component | state | operations | interacts with | what is hard | what makes it correct |
|---|---|---|---|---|---|
| `migrate::up` (`handlers/up.rs`) | one run: listing, snapshot of the table, applied and skipped files | gate, re-read, build batch, transaction, classify a failure, codegen | database worker, directory | other runs, batches that time out and commit later, edits | SQL once and in order, rows that tell what was executed, truthful answers |
| `migrate::baseline` (`handlers/baseline.rs`) | one run: target files | record files without executing them | as up | overlap with an up | executed or recorded, never both |
| tracking table (`handlers/tracking.rs`) | rows name -> checksum | ensure, probe, fetch, insert | all of the handlers | DDL race | append-only |
| database client (`db.rs`) | none | query, execute, transaction, error mapping | engine, database worker | calls that time out and take effect | the error says whether the worker answered |
| `migrate::codegen` (`handlers/codegen.rs`) | types file | introspect, write | up, database worker | several reads of a moving catalogue | the file covers what the run applied |
| migration files (`migrations.rs`) | directory | list, validate, checksum | everything | edits between listing and use | name order, checksum independent of CRLF |
| `migrate::create` (`handlers/create.rs`) | directory | choose a timestamp, write | authors | clock set back, overlapping calls | names sort after what is there |
| `migrate::adopt` (`handlers/adopt.rs`, `drizzle.rs`) | directory, tracking table | plan, convert, match, baseline | drizzle's folder and table, up | partial failure and the call after it | the whole history, in order, once |
| `migrate::status`, `migrate::check` | none | report | directory, tracking table | three reads at three moments | the report holds when it arrives |
| startup (`main.rs`, `configuration.rs`) | retry clock, configuration entry | seed, fetch, auto run | configuration worker, up | budgets and late workers | ends, retries long enough, serves without a database |
| statement splitter (`splitter.rs`) | scanner state, current chunk | one branch of the loop per kind of character | up, check | nesting, quotes, escapes and dollar tags that touch each other or the end | statements end where SQL elements do; nothing lost, nothing empty |
| `migrate::schema` (`schema.rs`, `handlers/schema.rs`) | none | the catalogue queries of a dialect, assembly of their rows | database worker | each query sees another state of the catalogue | shows what was there during the call, once, in place |
| TypeScript emitter (`codegen.rs`) | none | rows to tables and enums, types of columns, text | codegen | as above | enum columns get their type |
| configuration, errors (`config.rs`, `error.rs`) | none | parse, serialise | everything | | |

How they interact: the handlers share no memory but the configuration and the
cached dialect.  They meet in the database (the tracking table, a lock per
transaction) and in the file system (the migrations directory, the types file),
and so do the replicas of a deployment.  Every statement is an invocation of the
external `database` worker through the engine, which may be absent, fail, or
answer after the caller has given up.

Besides the data flow there are three compositions in which a fault of one part
becomes a question about another: the auto run retries `up` after a timeout whose
batch is still in the database worker (`Deployment`); `up` generates types from
reads that other replicas' migrations fall between (`Migrator`, `Introspection`);
and `adopt` leaves files behind that `up` picks up (`Adopt`).

## The modules

### MigrationRows, MigrationLog: the promise

`MigrationRows` holds what the other modules share: directory, listing, rows of a
batch and tracking table are functions from names to contents, `None` where there
is no entry.  A name is a number because only the order of names matters; a
content stands for its checksum.

`MigrationLog` is the abstract specification: rows are added and never change; a
file enters the table by `Execute` (its SQL runs in the same step) or by `Record`
(a set of files, none executed).  `Migrator` implements it
(`Log == INSTANCE MigrationLog WITH ledger <- ledger, execLog <- execLog`):
checked by `up_edits`, proved by `MigratorImplementsLog`.

### Migrator: up, baseline and codegen on several replicas

One action per stretch of code between two awaits.

| action | code |
|---|---|
| `Up`, `Baseline`, `Codegen` | start of the handler: listing (`list_migrations`), names asked for |
| `EnsureTable`, `EnsureTableFails`, `ProbeTable` | `tracking::ensure_table` and the probe after a failed DDL |
| `FetchApplied` | `fetch_applied` and the checksum gate |
| `ApplyNext` | one turn of up's loop: re-read, checksum, split, send the batch |
| `RecordAll` | baseline's one batch |
| `Finish` | end of the loop, whether to generate code |
| `BeginBatch`, `CommitBatch`, `RollBackBatch`, `DropBatch` | the transaction in the database worker (external) |
| `BatchSucceeded`, `BatchFailed`, `AlreadyRecorded`, `ReportFailure` | the reply; `classify_failure` re-reads the table |
| `ReadColumns`, `ReadEnums`, `WriteTypes`, `CodegenFails` | `introspect` and the write |
| `CallFails`, `Timeout`, `Crash`, `Edit` | faults: a call that does not arrive, a batch that outlives its caller, a process that dies, an author |

A batch in flight is a process of its own: after `Timeout` or `Crash` it goes on,
which is what `transactionTimeoutMs` and the engine's own timeout permit.
`Home` maps replicas to checkouts, so that one host and a rolling deployment are
instances of the same module.

### Deployment: Migrator at startup

`Boot`, `Retry`, `Serve` and `Restart` put the last loop of `main.rs` around
Migrator's `up`: a replica starts, runs `up`, retries it while the database worker
is unavailable, serves, and may crash and start again.  A retry races with the
batch of its own timed-out attempt, which `Startup`, where a call is an interval of
time, cannot show; the budget, a duration in `Startup`, is `MaxAttempts` here.

### Adopt

The journal with its dialect, drizzle's table, the directory and the tracking
table; several adopters, drizzle-kit generating entries, up applying files.
`Second` is the bump of `plan_conversion`.  Existence test and write of a
converted file are two steps, and a crash may leave a torn file: with two adopters
it may even tear a file that the other has just written, which the properties
allow (`TornByOthers`) and no more.  The baseline at
the end is `Gate` and `RecordTargets`: fetch and gate, then the transaction with
the classification of its failure as one step, since `Migrator` takes that apart.

Adopters and up together implement `MigrationLog` as well (`AdoptImplementsLog`):
the table keeps one promise, whichever of the two writes it.

### Create

Reading the clock, the scan for the latest file, the probe of the name and the
write are separate steps of overlapping calls; authors write files by hand, with
prefixes ahead of the clock or, 14 digits being enough for `validate_name`, with
prefixes that are no date; the clock may be set back.  Dates end with `LastSecond`,
99991231235959: behind a file of that second `create` goes on in the year 10000, which
chrono writes with a sign, and the name is neither valid nor last.  `TypeOK` and
`SortsAfterKnown` are stated up to there, and the run goes beyond.

### Startup

The three retry loops of `configuration.rs` and the one of `main.rs` as one
sequential process with a clock: an attempt begins at `now`, takes up to
`CallMax`, and is followed by the doubled delay if the budget allows.
`ReadyTimes` is when the other workers appear; `flukes` are passing failures
afterwards.  The configuration worker is external: it installs `initial_value`
only when nothing is stored, as `docs/configuration.md` describes.

### Reports

`status` and `check` read the directory (`Scan`), the rows (`Fetch`,
`FetchFails`), and for `check` the pending files once more (`Contents`), with up,
baseline and authors in between.

`future_dated` apart, a report is computed as in the handlers, by the operators
`StatusReport` and `CheckReport`.

### Introspection

`migrate::schema` and the introspection of codegen.  A catalogue is a set of facts,
one per row a query can return; `history` is the sequence of catalogues that
migrations make; `reads` keeps which of them each query of the call has seen, so the
answers are a function of it.  `PgQueries` and `SqliteQueries` are the queries of
the two dialects in the order of the code (six or two for Postgres; for Sqlite the
tables and then the parts of each), `ByName`, `PgTables`, `SqliteTables` and the
others assemble their rows as `pg_schema_from_rows`, `sqlite_schema_from_rows` and
the `_ir_` functions do: a row joins the last group if both have the same name, so a
group is a longest stretch of rows with a name in common (`Stretch`).  `MCCatalogues`
makes the histories: all sequences of migrations (create and drop a table with two
foreign keys, triggers on several events that share their name across tables, an
enum, a label, a column of the enum) from every catalogue they can make, the
tracking table standing between the others in the order of names.

### Splitter, Statements, SqlText

`Splitter` is the scanner of `split_statements`, one action per branch of its loop
on a sequence of characters.  `Statements` is the abstract specification: it reads
one SQL element (string, quoted identifier, dollar quote, comment, separator, code)
per step, and where an element ends is defined by the text as a whole - a quote
closes at the last mark of an odd run, a character is escaped by an odd number of
backslashes, a comment by its grammar.  `Reader` maps the scanner to it: while it is
inside an element, the element is still to be read.  The branches on E-strings,
nesting and tags of the code have no counterpart in `Statements`, so an agreement of
the two is one of two different definitions.  Characters are those the scanner tells
apart; white space comes in two classes, since `is_ascii_whitespace` starts a chunk
and `trim` cuts by `char::is_whitespace`.

### Mutants

A comment "Mutant of X" marks an operator that is X with a plausible bug.  It is
not used by the specification; putting it in the place of X makes TLC report the
property it belongs to, which shows that the property depends on that code.

## The runs

| run | instance | question |
|---|---|---|
| `up_faults` | 2 replicas with equal directories and a types file each, up and codegen, 2 files (good, broken or no SQL), 2 runs each, one timeout, lost call, worker error, crash | once, in order, truthful answers, types that cover the run |
| `up_edits` | 2 replicas on one directory mixing up and baseline, 2 names and an ill-formed one, an edit and a timeout | rows tell what was executed or recorded; ok means recorded; reported mismatches are real; `MigrationLog` |
| `deployment` | 2 replicas one file apart, 2 attempts per auto run, a timeout, a lost call and a crash | retries against their own batches; every start ends |
| `adopt` | 2 adopters called twice, 5 journals of up to 3 entries, no drizzle table or one with the first two entries, one crash, one failed call | completion after failure; races on one target |
| `create` | 2 calls, 2 hand-written files, the clock set back once, the last second in reach | order and form of names |
| `startup` | budgets 4 and 8, delays 1 and 2, calls up to 2, 3 arrival times per worker, one fluke, one operator edit | the start |
| `reports` | 1 reporter called twice, 2 files, 2 edits, 4 contents; or one schema or codegen call in either dialect, 2 migrations in between | reports made in motion |
| `splitter` | all files of up to 4 of 15 pieces, and up to 6 characters inside each kind of opened element | the scanner agrees with SQL's elements |
| `doc_*` | the smallest of the above that shows it | see Findings |

Why these bounds are enough to be of use.  Races over the table are between two
runs at a time, because the lock admits one batch; three batches let both replicas
wait while a third, abandoned batch is queued or running.  Two files are the least
with a "before" and an "after" (a failure with earlier files applied, baseline of
one of two files).  Two runs per replica give every failure a retry.  One fault of
a kind at a time, together with faults of other kinds, is what a handler that
keeps no state between calls can tell apart.  Adopt needs two calls for failure and
repair, and three entries for a bump that pushes the next entry.  Two migrations
during one report are enough for a row that appears and one that disappears between
two queries.  Four pieces hold an opener, a closer and what may stand
between or after them, and the longer files hold runs of marks and backslashes of both
parities.  The theorems cover all other sizes for the properties they state.

The Migrator runs are symmetric in `Batch`, and in `Replica` together with its
`Checkout` where every directory starts alike; `adopt` is symmetric in `Adopter`.
The members of these sets are only ever compared and the initial states treat them
alike.  `deployment`, `startup` and `splitter` check liveness and use no symmetry.

`reports` holds two machines that share nothing, the one over the directory and the
table and the one over the catalogue.  `MCReports` extends both modules, starts one of
the two and leaves the other at its end: no state of either is missed, and their
product is not explored.

Deadlock is checked wherever the system keeps waiting for requests: `Quiescent`
(Migrator, Deployment) and `Idle` (Adopt) are its waiting, and a state with work left
and no step is an error.  `create`, `reports`, `startup` and `splitter` end when the
calls, the start or the file is over, so they switch the check off.

Bounds in guards: `MaxRuns`, `FaultBudget`, `MaxAttempts`, `MaxEntries`, `MaxCrashes`,
`MaxFailures`, `MaxClock`, `MaxSetBacks`, `MaxHand`, `MaxFlukes`, `MaxEdits`; outside
guards `MaxChanges`, `MixedLength` and `SpecialLength` bound the inputs.
The names of Adopt are bounded by the instance.

### Fairness

`EveryReplicaServes` (Deployment) assumes weak fairness of a replica's `Progress` and
of `Retry \/ Serve` (handlers and the start are async tasks that the runtime keeps
polling, and every await ends, with an answer or with the timeout of the call) and of
`DatabaseStep` per batch (the database finishes and releases its lock).  Requests,
crashes, restarts and edits are never promised.  `StartEnds` assumes weak fairness of
the one process of `Startup`: timers fire and calls return or time out.
`EveryScanEnds` assumes that a synchronous function runs on.  No other property
assumes fairness.

## What is proved

For all values of the constants, under the named assumptions in the modules: any
number of replicas, files, contents, directories, batches, calls and faults.

- `DeploymentProofs`, about `Migrator`: `TypeCorrect`.  `TypeOK` is not inductive, because `ApplyNext`
  indexes `files` with a name from `todo` and the failure handlers read the batch
  and the head of `todo`; `WorkInv` says that they are there.  `RowsNeverChange`,
  `MigratorImplementsLog`, `FilesExecuteOnce`, `RowsMatchExecution`: the
  strengthening is `BatchInv`, by which a batch that executes SQL inserts exactly one
  row, for the file whose SQL it is, under the checksum of that SQL.  With it every
  commit is an `Execute` or a `Record` of `MigrationLog`, and every other step a
  stutter.
  `SuccessIsOnRecord`: `OutcomeInv` follows a run: its
  listed files are on record, or still to do, or in the batch it waits for; two
  replicas never wait for one batch; a committed batch is on record.  Rows never
  change, so what was true of the table when a handler looked stays true.
  About one run among others: `FilesAccounted` (`Accounted`: at every moment a listed
  file is applied, skipped or still to do, and in one of them only), `MismatchesAreReal`
  (`MismatchSeen`: the differing row was there, and rows stay), `MismatchNeedsAnEdit`
  (`FromDirs`: as long as nobody edits a file, listings, batches and rows hold what
  some directory holds), `UnavailableIsReal` (`UpReaches`: a first file without a row,
  in a failed batch, means that the call or the database failed).
- `DeploymentProofs`, further on, about runs against each other: `OneRunApplies` (`RaceInv`: the
  batch a run waits for `Carries` the head of its list, and what it reports as applied
  is `Claimed` by the one commit that recorded it), `FailuresAreTheFiles` (`BlameInv`:
  a batch rolls back because its SQL is refused or its row exists, and a row that
  exists is found by the read that follows), `OrderOfNames` (`OrderInv`: whatever lies
  before the file in a batch is on record), `TypesCover` (`ReadsCover`: what was read
  after a commit contains it).
  At the end `DeploymentIsMigrator` (a start and a retry are runs of up, so all
  theorems about `Spec` hold of `DeploySpec`) and `AutoRunsSettle`: `AutoInv` counts the
  attempts and says that a replica in its auto run runs up or has its answer;
  `UpOnDir` says that the run has listed what the directory holds, so no file vanishes
  and no name is refused; `FromDirs` and `FailureIsTheFiles` exclude a mismatch and a
  failed migration, and `SuccessMeansRecorded` says what "ok" is worth.
- `StartupProofs`: `StartupTyped`, `StartupInBudget`, `StartupGivesUpLate`,
  `StartupServes`, `StartupKeepsStored`.  `LateInv` adds to the budget that no loop
  has been given up while the start goes on; `SeedInv` and `ConfigInv` relate the entry
  to what was stored at first and to what the operator has done.
- `ReportsProofs`: `ReportsTyped`, `CheckIsRight`, `StatusIsRight`,
  `StatusHidesNothing`.  The key is `Alike`: while the directory stays, up and baseline
  add rows only for files and with their contents, so the rows read and the rows now
  show the same drift and the same missing files, and no file becomes pending.  A
  report computed from the older rows is therefore right about the newer ones.
- `AdoptProofs`: `AdoptTyped`, `AdoptersImplementLog`.  A plan is refused unless every
  entry has a content and a name (`PlanInv`), so a batch holds rows, and only for the
  files its call is to record (`TargetInv`); it commits only where none of them is.
  `OnlyExecutedIsRecorded`, `AdoptersComplete`, `WholeFilesStay` and
  `FilesAreFirstEntries` rest on what a plan is when the journal has grown since: the
  plan of a shorter journal is a prefix of that of a longer one (`PlanPrefix`), and its
  names increase (`NamesIncrease`), so calls that have read different journals agree on
  the file of a name (`SameFile`).  `CallInv` says of each call that what it has
  converted is in the directory, that only the same file can have appeared where it is
  about to write, and that what it must record is in its batch or on record; `OrderInv`
  says that the files are those of the first entries.  The journal is assumed to
  number its entries from 0 on, as drizzle-kit does (`JournalAssumption`), and the
  directory to hold no adopted file at the start (`InitAssumption`).  The recursion of
  the bump is dealt with by least counterexamples (`RunExists`, `BumpedIsRun`), since
  the induction theorems cannot be instantiated.
- `CreateProofs`: `CreateTyped` (every file create leaves has a name up accepts, the
  `debug_assert!` of `create.rs:71`, and files are never removed) and
  `CreatedSortsAfter`, both as long as no file is of the last second.  Files are only
  added, so the scan sees what the call knew; `LaterThanKnown` says that from the scan on
  the time kept lies in a later second than all of it, and dividing by the length of a
  second keeps that order.  `InTime` says that a time after the last second is kept only
  where a file of that second is: a scan goes on one second behind a file, and a bump
  leaves a second only if the name in it is taken.  The clock is assumed not to reach the
  year 10000 (`BoundsAssumption`).
- `SplitterProofs`, for files of any length over any characters: `SplitterTyped`;
  `SplittingLosesNothing`, whose `ChunkInv` adds to the statements the chunk being
  read (it begins with SQL, the statements lie before it, and everything the scanner
  took for SQL is in one of them); and `ScannerReadsAsSql`, the refinement of
  `Statements`.  The scanner knows only a state and a position, so `ElementInv` says
  what they mean for the text from the opening of the element on: inside a quote the
  marks read so far pair up or are escaped, and `escapes` is what the two characters
  before it say; inside a comment of depth d the end is that of d nested bodies, read
  from here on (`Commented`); inside a dollar quote the tag is that of its opening and
  has not occurred since.  With it every step of the scanner is the step of `Reader`
  for that element, or a stutter inside it.  The grammar of nested comments is a
  recursive function over a finite range; that such a function exists and what it
  returns are proved by least counterexamples (`Solvable`, `BodyIs`).
- `StatementProofs`: `StatementsAreWhole`.  A statement is a part of the file that is
  cut where the file goes on with a blank or a semicolon, or ends (`Part`).  An element
  of the file that lies in the part is the same element when the part is read alone
  (`PartElement`): each definition of `Statements` is carried over from the file to the
  part, and only a line comment can notice the cut, which then ends with the part.
  `CutInv` follows the reader of the file through the refinement: from the beginning of
  a chunk to the position read, its elements form a chain (`Unbroken`) without a
  separator, and every statement pushed is such a chain.
  It assumes that the empty string is no character (`NoCharacterAssumption`).

- `IntrospectionProofs`: `ReportsAreOfTheirTime` and `EnumColumnsAreTyped`, for any
  catalogues, any sequence of migrations and any tables asked for.  `Inv` says that the
  queries of a call have seen versions in force since it began, in order; `AnswerIs`,
  that what a query was answered is what one such version says of its kind.  The rest is
  about data.  Rows in the order of the query are the facts, each once
  (`RowsAreSorted`: how many come before it is a bijection from the facts to the
  places); in such rows a stretch with one name is all there is with it
  (`StretchIsAll`), so the groups are the facts by name (`GroupsAreByValue`), although
  the code compares with the last group only; and numbering a group anew gives every
  member the place it has in the catalogue (`PlacesAreKept`).  From these, each table of
  a report is `Faithful` part by part, each part to a version of its own, and the report
  `Complete`.  Codegen reads columns before enums, so a column without a type is of an
  enum that was there at the first query and not at the second.
  The theorems assume `WellFormed`, what a database's catalogue is like: one fact per
  place, places of a constraint, an index, a trigger or an enum counted from 1 on, what
  belongs to a table gone with it, the enum of a column there, and columns in every
  table; TLC checks it of all histories of the run.

Only model-checked: liveness (`EveryReplicaServes`, `StartEnds`, `EveryScanEnds`), which
is out of the prover's reach.

## Findings

Each is a run whose one property is a sentence of the repository; TLC's trace
shows the code doing otherwise.

- `doc_mismatch`: a checksum mismatch may come from `classify_failure`, after
  earlier files of the run were applied; `docs/errors.md` says "Nothing was
  applied".
- `doc_unavailable`: a baseline that meets some but not all of its rows reports an
  unreachable database worker although every call was answered.
- `doc_types`: a run that fails after applying a file does not refresh the types,
  and the next successful run has nothing to apply and does not either;
  `up.rs:182` says "never".
- `doc_create_unique`: two creates of one slug in one second choose one name, and
  the second write replaces the first file.

Five more disagreements have no run.  The
files adopt writes are pending until it records them, so an up of another replica,
or one after adopt failed in between, executes what drizzle had applied
(`docs/workflows.md:55`: "their SQL is NOT re-executed").  And create sorts after
dated files only, while `main.rs:161` says "monotonic with existing files":
`SortsAfterKnown` therefore excepts the others.  Behind a file of the last second of
9999 the assertion of `create.rs:71` fails; `TypeOK` excepts that.  `splitter.rs:13` discards chunks
of white space and comments, but white space that is not ASCII (a vertical tab, a
no-break space) before a comment starts a chunk, and the comment becomes a statement;
`NothingLost` allows it.  And `docs/functions.md:36` calls the splitter
dialect-aware, while `split_statements` takes no dialect: backslash escapes and dollar
quotes are recognised for Sqlite as well.

## Abstractions

- A directory listing is atomic, and so is one read or write of a file (except
  for the torn write of Adopt's crash).
- An unreadable directory (`DIR_NOT_FOUND`) and an unknown database
  (`UNKNOWN_DB`) end a handler like the other errors of the same call; they have
  no code of their own in `Migrator`.
- The tracking table is never dropped and nobody else writes it.
- The schema is the sequence of executed files; what the SQL does beyond being
  accepted, refused or contended is left out.
- The dialect lookup, made once per process and cached, is part of the first call.
- Adopt: names are seconds, since converted slugs differ only where the journal's
  entries do.
- Create: `create_dir_all` and the header of the file are left out.
- Reports: `future_dated` and the messages are left out.
- Introspection: the columns, uniqueness and definition of an index are read with the
  list of indexes; defaults, referential actions and definitions are left out.  A table
  without columns, which Postgres allows, is excluded: its reports begin with the
  columns, and would not show it.  So are columns of composite types, ranges and other
  types that are neither among those `pg_udt_to_ts` lists nor an enum: they get the type
  `unknown` whatever happens.
- Splitter: a character for the bytes of its encoding, since the scanner looks for
  ASCII bytes only, and those occur in no other character.

Not modelled: the text of the TypeScript module (`codegen.rs`: casing, quoting,
layout), the string scanning of `index_columns_from_def` and `parse_sqlite_trigger`,
the parsing of configuration and of the worker's error bodies, serialisation, command
line, logging and function registration.  They are pure conversions of text without
state, and their fixtures in `tests/` say more about them than a model could.  Not
modelled either: `future_dated` of `status`, and the CRLF normalisation of the checksum
(contents stand for checksums, so files that differ in line ends are one content).

## Plan

Done: everything in the module list above, with its runs and the proofs listed.

Left, in this order:

1. `future_dated` (`status.rs:48-80`) with the clock of Create.
2. The dialect cache of `db.rs` as a step of the first call of a process, with the
   unreachable worker it must not cache.
