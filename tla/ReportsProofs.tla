---------------------------- MODULE ReportsProofs ---------------------------
(***************************************************************************)
(* What a report says stays true until somebody changes the directory, for *)
(* any number of files, contents, reporters and concurrent workers.        *)
(*                                                                         *)
(* The argument: up and baseline only add rows that agree with the         *)
(* directory.  So while the directory stays the same, every earlier state  *)
(* of the table drifts from it, and lacks files of it, just as the table   *)
(* does now, and leaves pending whatever is pending now (`Alike`).  The    *)
(* invariant carries this from the read of the rows to the report.         *)
(***************************************************************************)
EXTENDS Reports, TLAPS

(* `table` tells what `ledger` does, but for what was applied since. *)
Alike(table) ==
    /\ table \in Table
    /\ Drifted(dir, table) = Drifted(dir, ledger)
    /\ Pending(dir, ledger) \subseteq Pending(dir, table)
    /\ Listed(table) \ Listed(dir) = Listed(ledger) \ Listed(dir)

ReadInv ==
    \A r \in Reporter : Unedited(r) =>
        /\ pc[r] \in {"fetch", "contents"} => scan[r] = dir /\ bad[r] = ill
        /\ pc[r] = "contents" /\ rows[r] # None => Alike(rows[r])

ReportInv == OkMeansUpRuns /\ StatusDriftExact /\ StatusMissesNoPending

ShapeInv ==
    /\ DOMAIN kind = Reporter /\ DOMAIN bad = Reporter
    /\ DOMAIN rows = Reporter /\ DOMAIN report = Reporter

Inv == TypeOK /\ ShapeInv /\ ReadInv /\ ReportInv

LEMMA InitInv ==
    ASSUME Init PROVE Inv
<1>1. TypeOK
  <2>1. dir \in Table /\ ledger \in Table BY InitAssumption DEF Init
  <2>2. Empty \in Table BY DEF Empty, Table, Row
  <2> QED BY <2>1, <2>2 DEF Init, TypeOK
<1>2. ReadInv BY DEF Init, ReadInv
<1>3. ReportInv BY DEF Init, ReportInv, OkMeansUpRuns, StatusDriftExact, StatusMissesNoPending, NoReport
<1>4. ShapeInv BY DEF Init, ShapeInv
<1> QED BY <1>1, <1>2, <1>3, <1>4 DEF Inv

(* A row that agrees with the file it is of changes no drift. *)
LEMMA RecordAlike ==
    ASSUME TypeOK, NEW n \in Pending(dir, ledger),
           ledger' = [ledger EXCEPT ![n] = dir[n]], UNCHANGED dir
    PROVE  /\ ledger' \in Table
           /\ Drifted(dir, ledger') = Drifted(dir, ledger)
           /\ Pending(dir, ledger') \subseteq Pending(dir, ledger)
           /\ Listed(ledger') \ Listed(dir) = Listed(ledger) \ Listed(dir)
<1>1. n \in Name /\ dir[n] # None /\ ledger[n] = None BY DEF Pending, Listed
<1>2. dir \in [Name -> Row] /\ ledger \in [Name -> Row] BY DEF TypeOK, Table
<1>3. ledger' \in Table BY <1>1, <1>2 DEF Table
<1>4. \A m \in Name : ledger'[m] = IF m = n THEN dir[n] ELSE ledger[m] BY <1>1, <1>2
<1>5. Drifted(dir, ledger') = Drifted(dir, ledger) BY <1>1, <1>4 DEF Drifted, Listed
<1>6. Pending(dir, ledger') \subseteq Pending(dir, ledger) BY <1>1, <1>4 DEF Pending, Listed
<1>7. Listed(ledger') \ Listed(dir) = Listed(ledger) \ Listed(dir) BY <1>1, <1>4 DEF Listed
<1> QED BY <1>3, <1>5, <1>6, <1>7

(* Recording a file changes nothing of what reports say. *)
LEMMA RecordInv ==
    ASSUME Inv, NEW n \in Pending(dir, ledger),
           ledger' = [ledger EXCEPT ![n] = dir[n]],
           UNCHANGED <<disk, pc, call, scan, bad, rows, report>>
    PROVE  Inv'
<1>1. /\ UNCHANGED <<dir, ill, edits, kind, since, runs>>
      /\ \A r \in Reporter : Unedited(r)' = Unedited(r)
  BY DEF disk, call, Unedited
<1>2. TypeOK BY DEF Inv
<1>3. /\ ledger' \in Table
      /\ Drifted(dir, ledger') = Drifted(dir, ledger)
      /\ Pending(dir, ledger') \subseteq Pending(dir, ledger)
      /\ Listed(ledger') \ Listed(dir) = Listed(ledger) \ Listed(dir)
  BY <1>1, <1>2, RecordAlike
<1>4. TypeOK' BY <1>1, <1>2, <1>3 DEF TypeOK
<1>5. ReadInv' BY <1>1, <1>3 DEF Inv, ReadInv, Alike
<1>6. UpBlocked' => UpBlocked BY <1>1, <1>3 DEF UpBlocked
<1>7. OkMeansUpRuns' BY <1>1, <1>6 DEF Inv, ReportInv, OkMeansUpRuns
<1>8. StatusDriftExact' BY <1>1, <1>3 DEF Inv, ReportInv, StatusDriftExact
<1>9. StatusMissesNoPending' BY <1>1, <1>3 DEF Inv, ReportInv, StatusMissesNoPending
<1>10. ShapeInv' BY <1>1 DEF Inv, ShapeInv
<1> QED BY <1>4, <1>5, <1>7, <1>8, <1>9, <1>10 DEF Inv, ReportInv

(* A change of the directory puts every call and report out of date. *)
LEMMA EditInv ==
    ASSUME Inv, Edit
    PROVE  Inv'
<1>1. TypeOK BY DEF Inv
<1>2. /\ edits' = edits + 1
      /\ UNCHANGED <<ledger, pc, kind, since, runs, scan, bad, rows, report>>
      /\ dir' \in Table /\ ill' \subseteq IllName
  BY <1>1 DEF Edit, call, TypeOK, Table
<1>3. \A r \in Reporter : ~Unedited(r)' BY <1>1, <1>2 DEF TypeOK, Unedited
<1>4. TypeOK' BY <1>1, <1>2 DEF TypeOK
<1>5. ShapeInv' BY <1>2 DEF Inv, ShapeInv
<1>6. ReadInv' BY <1>3 DEF ReadInv
<1>7. ReportInv'
  BY <1>3 DEF ReportInv, OkMeansUpRuns, StatusDriftExact, StatusMissesNoPending
<1> QED BY <1>4, <1>5, <1>6, <1>7 DEF Inv

(* What is true of the reports of a step of `r`: the world stays, and the  *)
(* other reporters do.                                                     *)
LEMMA StepInv ==
    ASSUME Inv, NEW r \in Reporter, UNCHANGED <<dir, ill, edits, ledger>>,
           TypeOK', ShapeInv',
           \A q \in Reporter \ {r} :
               /\ pc'[q] = pc[q] /\ since'[q] = since[q] /\ scan'[q] = scan[q]
               /\ bad'[q] = bad[q] /\ rows'[q] = rows[q] /\ report'[q] = report[q],
           Unedited(r)' =>
               /\ pc'[r] \in {"fetch", "contents"} => scan'[r] = dir /\ bad'[r] = ill
               /\ pc'[r] = "contents" /\ rows'[r] # None => Alike(rows'[r])
               /\ report'[r].of = "check" /\ report'[r].ok /\ report'[r].dbChecked => ~UpBlocked
               /\ report'[r].of = "status" =>
                      /\ report'[r].mismatched = Drifted(dir, ledger)
                      /\ report'[r].missing = Listed(ledger) \ Listed(dir)
                      /\ Pending(dir, ledger) \subseteq report'[r].pending
    PROVE  Inv'
<1>1. \A q \in Reporter \ {r} : Unedited(q)' = Unedited(q) BY DEF Unedited
<1>2. /\ \A t : Alike(t)' = Alike(t)
      /\ UpBlocked' = UpBlocked
  BY DEF Alike, UpBlocked
<1>3. ReadInv'
  <2> SUFFICES ASSUME NEW q \in Reporter, Unedited(q)'
               PROVE  /\ pc'[q] \in {"fetch", "contents"} => scan'[q] = dir /\ bad'[q] = ill
                      /\ pc'[q] = "contents" /\ rows'[q] # None => Alike(rows'[q])
    BY <1>2 DEF ReadInv, Alike
  <2>1. CASE q = r BY <2>1
  <2>2. CASE q # r BY <2>2, <1>1 DEF Inv, ReadInv
  <2> QED BY <2>1, <2>2
<1>4. OkMeansUpRuns' BY <1>1, <1>2 DEF Inv, ReportInv, OkMeansUpRuns
<1>5. StatusDriftExact' BY <1>1 DEF Inv, ReportInv, StatusDriftExact
<1>6. StatusMissesNoPending' BY <1>1 DEF Inv, ReportInv, StatusMissesNoPending
<1> QED BY <1>3, <1>4, <1>5, <1>6 DEF Inv, ReportInv

(* The table as it is now is alike. *)
LEMMA LedgerAlike == ASSUME TypeOK PROVE Alike(ledger)
BY DEF Alike, TypeOK

LEMMA InvokeInv ==
    ASSUME Inv, NEW r \in Reporter, NEW k \in Kind, Invoke(r, k)
    PROVE  Inv'
<1>1. /\ UNCHANGED <<dir, ill, edits, ledger, scan, bad, rows>>
      /\ kind' = [kind EXCEPT ![r] = k] /\ since' = [since EXCEPT ![r] = edits]
      /\ pc' = [pc EXCEPT ![r] = "scan"] /\ report' = [report EXCEPT ![r] = NoReport]
  BY DEF Invoke, disk
<1>2. TypeOK' BY <1>1 DEF Inv, TypeOK, ShapeInv
<1>3. ShapeInv' BY <1>1 DEF Inv, ShapeInv
<1>4. pc'[r] = "scan" /\ report'[r] = NoReport BY <1>1 DEF Inv, TypeOK, ShapeInv
<1>5. report'[r].of = "none" BY <1>4 DEF NoReport
<1> QED BY <1>1, <1>2, <1>3, <1>4, <1>5, StepInv DEF Inv, TypeOK, ShapeInv

(* What a report said before a step that changes no file and no row. *)
LEMMA ReportStands ==
    ASSUME Inv, NEW r \in Reporter, Unedited(r)
    PROVE  /\ report[r].of = "check" /\ report[r].ok /\ report[r].dbChecked => ~UpBlocked
           /\ report[r].of = "status" =>
                  /\ report[r].mismatched = Drifted(dir, ledger)
                  /\ report[r].missing = Listed(ledger) \ Listed(dir)
                  /\ Pending(dir, ledger) \subseteq report[r].pending
BY DEF Inv, ReportInv, OkMeansUpRuns, StatusDriftExact, StatusMissesNoPending

LEMMA ScanInv ==
    ASSUME Inv, NEW r \in Reporter, Scan(r)
    PROVE  Inv'
<1>1. /\ UNCHANGED <<dir, ill, edits, ledger, kind, since, rows>>
      /\ scan' = [scan EXCEPT ![r] = dir] /\ bad' = [bad EXCEPT ![r] = ill]
  BY DEF Scan, disk, call
<1>2. scan'[r] = dir /\ bad'[r] = ill BY <1>1 DEF Inv, TypeOK, ShapeInv
<1>3. CASE kind[r] = "status" /\ ill # {}
  <2>1. /\ pc' = [pc EXCEPT ![r] = "idle"]
        /\ report' = [report EXCEPT ![r] = [of |-> "INVALID_MIGRATION_NAME"]]
    BY <1>3 DEF Scan, Answer
  <2>2. pc'[r] = "idle" /\ report'[r].of = "INVALID_MIGRATION_NAME"
    BY <2>1 DEF Inv, TypeOK, ShapeInv
  <2>3. TypeOK' /\ ShapeInv' BY <1>1, <2>1 DEF Inv, TypeOK, ShapeInv
  <2> QED BY <1>1, <2>1, <2>2, <2>3, StepInv DEF Inv, TypeOK, ShapeInv
<1>4. CASE ~(kind[r] = "status" /\ ill # {})
  <2>1. pc' = [pc EXCEPT ![r] = "fetch"] /\ UNCHANGED report BY <1>4 DEF Scan
  <2>2. pc'[r] = "fetch" BY <2>1 DEF Inv, TypeOK
  <2>3. TypeOK' /\ ShapeInv'
    <3>1. ShapeInv' BY <1>1, <2>1 DEF Inv, ShapeInv
    <3>2. pc[r] = "scan" BY DEF Scan
    <3>3. \A q \in Reporter : pc'[q] # "idle" => pc[q] # "idle" /\ kind'[q] = kind[q]
      BY <1>1, <2>1, <3>2 DEF Inv, TypeOK
    <3>4. \A q \in Reporter : pc'[q] = "contents" => pc[q] = "contents"
      BY <2>1, <2>2 DEF Inv, TypeOK
    <3>5. pc' \in [Reporter -> {"idle", "scan", "fetch", "contents"}]
      BY <2>1 DEF Inv, TypeOK
    <3>6. scan' \in [Reporter -> Table] BY <1>1 DEF Inv, TypeOK
    <3> QED BY <1>1, <3>1, <3>3, <3>4, <3>5, <3>6 DEF Inv, TypeOK
  <2>4. Unedited(r)' => Unedited(r) BY <1>1 DEF Unedited
  <2> QED
    BY <1>1, <1>2, <2>1, <2>2, <2>3, <2>4, StepInv, ReportStands DEF Inv, TypeOK, ShapeInv
<1> QED BY <1>3, <1>4

LEMMA FetchInv ==
    ASSUME Inv, NEW r \in Reporter, Fetch(r)
    PROVE  Inv'
<1>1. /\ UNCHANGED <<dir, ill, edits, ledger, kind, since, scan, bad>>
      /\ pc[r] = "fetch" /\ rows' = [rows EXCEPT ![r] = ledger]
  BY DEF Fetch, disk, call
<1>2. rows'[r] = ledger BY <1>1 DEF Inv, ShapeInv
<1>3. Alike(rows'[r]) BY <1>2, LedgerAlike DEF Inv
<1>4. Unedited(r)' => scan[r] = dir /\ bad[r] = ill
  BY <1>1 DEF Inv, ReadInv, Unedited
<1>5. CASE kind[r] = "status"
  <2>1. /\ pc' = [pc EXCEPT ![r] = "idle"]
        /\ report' = [report EXCEPT ![r] = StatusReport(scan[r], ledger)]
    BY <1>5 DEF Fetch, Answer
  <2>2. pc'[r] = "idle" /\ report'[r] = StatusReport(scan[r], ledger)
    BY <2>1 DEF Inv, TypeOK, ShapeInv
  <2>3. TypeOK' /\ ShapeInv' BY <1>1, <2>1 DEF Inv, TypeOK, ShapeInv
  <2>4. /\ report'[r].of = "status"
        /\ report'[r].mismatched = Drifted(scan[r], ledger)
        /\ report'[r].missing = Listed(ledger) \ Listed(scan[r])
        /\ report'[r].pending = Pending(scan[r], ledger)
    BY <2>2 DEF StatusReport
  <2> QED BY <1>1, <1>4, <2>1, <2>2, <2>3, <2>4, StepInv DEF Inv, TypeOK, ShapeInv
<1>6. CASE kind[r] # "status"
  <2>1. pc' = [pc EXCEPT ![r] = "contents"] /\ UNCHANGED report BY <1>6 DEF Fetch
  <2>2. pc'[r] = "contents" BY <2>1 DEF Inv, TypeOK
  <2>3. kind[r] = "check" BY <1>1, <1>6, KindAssumption DEF Inv, TypeOK
  <2>4. TypeOK' /\ ShapeInv' BY <1>1, <2>1, <2>3 DEF Inv, TypeOK, ShapeInv
  <2>5. Unedited(r)' => Unedited(r) BY <1>1 DEF Unedited
  <2> QED
    BY <1>1, <1>2, <1>3, <1>4, <2>1, <2>2, <2>4, <2>5, StepInv, ReportStands
    DEF Inv, TypeOK, ShapeInv
<1> QED BY <1>5, <1>6

LEMMA FetchFailsInv ==
    ASSUME Inv, NEW r \in Reporter, FetchFails(r)
    PROVE  Inv'
<1>1. /\ UNCHANGED <<dir, ill, edits, ledger, kind, since, scan, bad>>
      /\ pc[r] = "fetch"
  BY DEF FetchFails, disk, call
<1>2. Unedited(r)' => Unedited(r) BY <1>1 DEF Unedited
<1>3. Unedited(r)' => scan[r] = dir /\ bad[r] = ill
  BY <1>1 DEF Inv, ReadInv, Unedited
<1>4. CASE kind[r] = "status"
  <2>1. /\ pc' = [pc EXCEPT ![r] = "idle"]
        /\ report' = [report EXCEPT ![r] = [of |-> "DATABASE_WORKER_UNAVAILABLE"]]
        /\ UNCHANGED rows
    BY <1>4 DEF FetchFails, Answer
  <2>2. pc'[r] = "idle" /\ report'[r].of = "DATABASE_WORKER_UNAVAILABLE"
    BY <2>1 DEF Inv, TypeOK, ShapeInv
  <2>3. TypeOK' /\ ShapeInv' BY <1>1, <2>1 DEF Inv, TypeOK, ShapeInv
  <2> QED BY <1>1, <2>1, <2>2, <2>3, StepInv DEF Inv, TypeOK, ShapeInv
<1>5. CASE kind[r] # "status"
  <2>1. /\ pc' = [pc EXCEPT ![r] = "contents"]
        /\ rows' = [rows EXCEPT ![r] = None]
        /\ UNCHANGED report
    BY <1>5 DEF FetchFails
  <2>2. pc'[r] = "contents" /\ rows'[r] = None BY <2>1 DEF Inv, TypeOK, ShapeInv
  <2>3. kind[r] = "check" BY <1>1, <1>5, KindAssumption DEF Inv, TypeOK
  <2>4. TypeOK' /\ ShapeInv' BY <1>1, <2>1, <2>3 DEF Inv, TypeOK, ShapeInv
  <2> QED
    BY <1>1, <1>2, <1>3, <2>1, <2>2, <2>4, StepInv, ReportStands DEF Inv, TypeOK, ShapeInv
<1> QED BY <1>4, <1>5

(* An ok check of the files as they are, with the rows read, is right: the *)
(* files without a row now are among those it tried.                       *)
LEMMA OkCheck ==
    ASSUME TypeOK, NEW table, Alike(table),
           CheckReport(dir, ill, table, dir, Pending(dir, table)).ok,
           table # None
    PROVE  ~UpBlocked
<1>1. /\ ill = {}
      /\ \A n \in Pending(dir, table) : Executable(dir[n])
      /\ Drifted(dir, table) = {}
  BY DEF CheckReport
<1>2. Drifted(dir, ledger) = {} /\ Pending(dir, ledger) \subseteq Pending(dir, table)
  BY <1>1 DEF Alike
<1> QED BY <1>1, <1>2 DEF UpBlocked, Executable

LEMMA ContentsInv ==
    ASSUME Inv, NEW r \in Reporter, Contents(r)
    PROVE  Inv'
<1> DEFINE table == rows[r]
           toCheck == IF table = None THEN Listed(scan[r]) ELSE Pending(scan[r], table)
           answer == IF toCheck \subseteq Listed(dir)
                     THEN CheckReport(scan[r], bad[r], table, dir, toCheck)
                     ELSE [of |-> "CONFIG_ERROR"]
<1>1. /\ UNCHANGED <<dir, ill, edits, ledger, kind, since, scan, bad, rows>>
      /\ pc[r] = "contents"
      /\ pc' = [pc EXCEPT ![r] = "idle"]
      /\ report' = [report EXCEPT ![r] = answer]
  BY DEF Contents, Answer, disk, call
<1>2. pc'[r] = "idle" /\ report'[r] = answer BY <1>1 DEF Inv, TypeOK, ShapeInv
<1>3. TypeOK' /\ ShapeInv' BY <1>1 DEF Inv, TypeOK, ShapeInv
<1>4. report'[r].of # "status" BY <1>2 DEF CheckReport
<1>5. ASSUME Unedited(r)', report'[r].of = "check", report'[r].ok, report'[r].dbChecked
      PROVE  ~UpBlocked
  <2>1. scan[r] = dir /\ bad[r] = ill /\ (table # None => Alike(table))
    BY <1>1, <1>5 DEF Inv, ReadInv, Unedited
  <2>2. answer = CheckReport(scan[r], bad[r], table, dir, toCheck)
    BY <1>2, <1>5
  <2>3. table # None
    <3>1. \A files, names, contents, S :
            CheckReport(files, names, table, contents, S).dbChecked <=> table # None
      BY DEF CheckReport
    <3> QED BY <1>2, <1>5, <2>2, <3>1
  <2>4. CheckReport(dir, ill, table, dir, Pending(dir, table)).ok
    BY <1>2, <1>5, <2>1, <2>2, <2>3
  <2> QED BY <2>1, <2>3, <2>4, OkCheck DEF Inv
<1> QED BY <1>1, <1>2, <1>3, <1>4, <1>5, StepInv DEF Inv, TypeOK, ShapeInv

LEMMA NextInv ==
    ASSUME Inv, [Next]_vars
    PROVE  Inv'
<1>1. ASSUME NEW r \in Reporter, Step(r) PROVE Inv'
  BY <1>1, InvokeInv, ScanInv, FetchInv, FetchFailsInv, ContentsInv DEF Step
<1>2. CASE UpFile
  <2>1. PICK n \in Pending(dir, ledger) : ledger' = [ledger EXCEPT ![n] = dir[n]]
    BY <1>2 DEF UpFile
  <2> QED BY <1>2, <2>1, RecordInv DEF UpFile
<1>3. CASE BaselineFile
  <2>1. PICK n \in Pending(dir, ledger) : ledger' = [ledger EXCEPT ![n] = dir[n]]
    BY <1>3 DEF BaselineFile
  <2> QED BY <1>3, <2>1, RecordInv DEF BaselineFile
<1>4. CASE Edit BY <1>4, EditInv
<1>5. CASE UNCHANGED vars
  BY <1>5 DEF vars, disk, call, Inv, TypeOK, ShapeInv, ReadInv, Alike, Unedited, ReportInv,
     OkMeansUpRuns, StatusDriftExact, StatusMissesNoPending, UpBlocked
<1> QED BY <1>1, <1>2, <1>3, <1>4, <1>5 DEF Next

(* A handler reads in the order of its code: the contents are read again   *)
(* by check alone, and no call begins after the last change it has seen.   *)
THEOREM ReportsTyped == Spec => []TypeOK
<1>1. Init => Inv BY InitInv
<1>2. Inv /\ [Next]_vars => Inv' BY NextInv
<1>3. Inv => TypeOK BY DEF Inv
<1> QED BY <1>1, <1>2, <1>3, PTL DEF Spec

(* From an ok check on, until the directory changes, up runs through. *)
THEOREM CheckIsRight == Spec => []OkMeansUpRuns
<1>1. Init => Inv BY InitInv
<1>2. Inv /\ [Next]_vars => Inv' BY NextInv
<1>3. Inv => OkMeansUpRuns BY DEF Inv, ReportInv
<1> QED BY <1>1, <1>2, <1>3, PTL DEF Spec

(* A status names exactly the files up refuses to run for. *)
THEOREM StatusIsRight == Spec => []StatusDriftExact
<1>1. Init => Inv BY InitInv
<1>2. Inv /\ [Next]_vars => Inv' BY NextInv
<1>3. Inv => StatusDriftExact BY DEF Inv, ReportInv
<1> QED BY <1>1, <1>2, <1>3, PTL DEF Spec

(* A status hides no file that up would apply, whatever up and baseline do *)
(* between its reads.                                                      *)
THEOREM StatusHidesNothing == Spec => []StatusMissesNoPending
<1>1. Init => Inv BY InitInv
<1>2. Inv /\ [Next]_vars => Inv' BY NextInv
<1>3. Inv => StatusMissesNoPending BY DEF Inv, ReportInv
<1> QED BY <1>1, <1>2, <1>3, PTL DEF Spec
=============================================================================
