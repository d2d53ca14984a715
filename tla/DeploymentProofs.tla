-------------------------- MODULE DeploymentProofs --------------------------
(***************************************************************************)
(* Theorems about the replicas of Migrator, for any number of replicas,    *)
(* checkouts, files and contents, and any budget of faults.  First types,  *)
(* and what every behaviour keeps about the tracking table and the         *)
(* executed files: they implement MigrationLog, rows are never changed, a  *)
(* file executes at most once and its row carries the executed checksum;   *)
(* what a run that ends with "ok" has on record, that it accounts for      *)
(* every file, and that a mismatch or an unavailable database it reports   *)
(* is real.                                                                *)
(*                                                                         *)
(* Then what races between replicas, late batches and failures cannot do:  *)
(* a file is reported as applied by one run, a migration is blamed only    *)
(* for its own SQL, files execute in name order, and generated types cover *)
(* what the run applied.  And how the run at startup ends: a deployment is *)
(* a behaviour of Migrator, so all of this is true of it.                  *)
(***************************************************************************)
EXTENDS Deployment, SequenceTheorems, WellFoundedInduction, TLAPS

(***************************************************************************)
(* Lemmas about the helpers                                                *)
(***************************************************************************)

(* The next file of a non-empty work list is on the list: names are        *)
(* numbers, so a least one exists.                                         *)
LEMMA LowestIsElement ==
    ASSUME NEW S, S \subseteq Name, S # {}
    PROVE  /\ Lowest(S) \in S
           /\ \A m \in S : Lowest(S) <= m
<1>1. S \subseteq Nat
  BY NameAssumption
<1>2. PICK n \in S : \A m \in S : ~ (<<m, n>> \in OpToRel(<, Nat))
  BY <1>1, NatLessThanWellFounded, WFMin, Zenon
<1>3. \A m \in S : ~ (m < n)
  BY <1>1, <1>2, Zenon DEF OpToRel
<1>4. \A m \in S : n <= m
  BY <1>1, <1>3
<1> QED
  BY <1>4 DEF Lowest

(* The table helpers yield tables. *)
LEMMA TableTypes ==
    /\ Empty \in Table
    /\ \A f \in Table : Listed(f) \subseteq Name
    /\ \A f \in Table : \A S : Selected(f, S) \in Table
    /\ \A f, g \in Table : Merge(f, g) \in Table
  BY DEF Empty, Table, Row, Listed, Selected, Merge

(* An entry that a table lists is a content. *)
LEMMA ListedContent ==
    ASSUME NEW f \in Table, NEW n \in Listed(f)
    PROVE  n \in Name /\ f[n] \in Content
  BY DEF Table, Row, Listed

(* The ends of a handler and its moves keep pc and outcome in range. *)
LEMMA EndType ==
    ASSUME TypeOK, NEW r \in Replica, NEW code \in ErrorCode \cup {"none", "ok"},
           NEW n \in Name \cup {None}, End(r, code, n)
    PROVE  pc' \in [Replica -> PC] /\ outcome' \in [Replica -> Outcome]
  BY DEF TypeOK, End, PC, Outcome

LEMMA GotoType ==
    ASSUME TypeOK, NEW r \in Replica, NEW where \in PC, Goto(r, where)
    PROVE  pc' \in [Replica -> PC] /\ outcome' \in [Replica -> Outcome]
  BY DEF TypeOK, Goto

LEMMA SpendType ==
    ASSUME TypeOK, NEW k \in FaultKind, Spend(k)
    PROVE  spent' \in [FaultKind -> Nat]
  BY DEF TypeOK, Spend

LEMMA InBatchType ==
    ASSUME TypeOK, NEW r \in Replica, todo[r] # {}
    PROVE  InBatch(r) \subseteq todo[r] /\ InBatch(r) \subseteq Name
<1>1. todo[r] \subseteq Name
  BY DEF TypeOK
<1>2. Lowest(todo[r]) \in todo[r]
  BY <1>1, LowestIsElement
<1> QED
  BY <1>1, <1>2 DEF InBatch

(***************************************************************************)
(* Type correctness.  TypeOK alone is not inductive: the file whose batch  *)
(* is in flight is the lowest of a work list, which must not be empty.     *)
(***************************************************************************)

WorkInv ==
    \A r \in Replica :
        /\ pc[r] \in {"await", "classify"} => todo[r] # {}
        /\ pc[r] = "await" <=> call[r] # None

TypeInv == TypeOK /\ WorkInv

(* A batch that executes SQL records exactly the file it executes, under   *)
(* the checksum of the SQL.                                                *)
BatchInv ==
    \A b \in Batch :
        sql[b] # None =>
            \E n \in Name : rows[b] = Selected([m \in Name |-> sql[b]], {n})

LEMMA TypeInvInit == Init => TypeInv
<1> SUFFICES ASSUME Init PROVE TypeInv
  OBVIOUS
<1>1. TypeOK
  <2>1. dir \in [Checkout -> Table]
    BY InitDirsAssumption DEF Init
  <2>2. types \in [Checkout -> Version] /\ snap \in [Replica -> Version]
    BY DEF Init, NoVersion, Version
  <2>3. /\ ledger \in Table
        /\ rows \in [Batch -> Table]
        /\ files \in [Replica -> Table]
    BY TableTypes DEF Init
  <2>4. tableExists \in BOOLEAN /\ execLog \in Seq(Entry)
    BY EmptySeq DEF Init
  <2>5. phase \in [Batch -> Phase] /\ sql \in [Batch -> Row]
    BY DEF Init, Phase, Row
  <2>6. /\ pc \in [Replica -> PC]
        /\ op \in [Replica -> {"up", "baseline", "codegen"}]
        /\ outcome \in [Replica -> Outcome]
    BY DEF Init, PC, Outcome
  <2>7. /\ todo \in [Replica -> SUBSET Name]
        /\ call \in [Replica -> Batch \cup {None}]
        /\ applied \in [Replica -> SUBSET Name]
        /\ skipped \in [Replica -> SUBSET Name]
    BY DEF Init
  <2>8. runs \in [Replica -> Nat] /\ spent \in [FaultKind -> Nat]
    BY DEF Init
  <2> QED
    BY <2>1, <2>2, <2>3, <2>4, <2>5, <2>6, <2>7, <2>8 DEF TypeOK
<1>2. WorkInv
  BY DEF Init, WorkInv
<1> QED
  BY <1>1, <1>2 DEF TypeInv

LEMMA InvokeType ==
    ASSUME TypeInv, NEW r \in Replica, NEW handler \in {"up", "baseline", "codegen"},
           NEW listing \in Table, Invoke(r, handler, listing),
           NEW where \in PC \ {"await", "classify"}, pc' = [pc EXCEPT ![r] = where],
           outcome' \in [Replica -> Outcome]
    PROVE  TypeInv'
<1>1. pc' \in [Replica -> PC]
  BY DEF TypeInv, TypeOK
<1>2. runs' \in [Replica -> Nat]
  BY DEF TypeInv, TypeOK, Invoke
<1>3. op' \in [Replica -> {"up", "baseline", "codegen"}]
  BY DEF TypeInv, TypeOK, Invoke
<1>4. files' \in [Replica -> Table]
  BY DEF TypeInv, TypeOK, Invoke
<1>5. snap' \in [Replica -> Version]
  BY DEF TypeInv, TypeOK, Invoke, NoVersion, Version
<1>6. /\ todo' \in [Replica -> SUBSET Name]
      /\ applied' \in [Replica -> SUBSET Name]
      /\ skipped' \in [Replica -> SUBSET Name]
  BY DEF TypeInv, TypeOK, Invoke
<1>7. UNCHANGED <<dir, types, dbVars, batchVars, call, spent>>
  BY DEF Invoke
<1>8. TypeOK'
  BY <1>1, <1>2, <1>3, <1>4, <1>5, <1>6, <1>7
  DEF TypeInv, TypeOK, dbVars, batchVars
<1>9. WorkInv'
  BY <1>1 DEF TypeInv, TypeOK, WorkInv, Invoke
<1> QED
  BY <1>8, <1>9 DEF TypeInv

(* Sending a batch keeps the batches typed and makes the caller wait.      *)
LEMMA SendType ==
    ASSUME TypeInv, NEW r \in Replica, NEW statements \in Row, NEW g \in Table,
           Send(r, statements, g), todo[r] # {}, UNCHANGED todo
    PROVE  /\ phase' \in [Batch -> Phase] /\ sql' \in [Batch -> Row]
           /\ rows' \in [Batch -> Table]
           /\ call' \in [Replica -> Batch \cup {None}]
           /\ pc' \in [Replica -> PC] /\ outcome' \in [Replica -> Outcome]
           /\ WorkInv'
<1> USE DEF TypeInv
<1>1. PICK b \in Batch :
          /\ phase' = [phase EXCEPT ![b] = "queued"]
          /\ sql' = [sql EXCEPT ![b] = statements]
          /\ rows' = [rows EXCEPT ![b] = g]
          /\ call' = [call EXCEPT ![r] = b]
          /\ Goto(r, "await")
  BY DEF Send
<1>2. pc' \in [Replica -> PC] /\ outcome' \in [Replica -> Outcome]
  BY <1>1, GotoType DEF PC
<1>3. phase' \in [Batch -> Phase]
  BY <1>1 DEF TypeOK, Phase
<1>4. sql' \in [Batch -> Row] /\ rows' \in [Batch -> Table]
  BY <1>1 DEF TypeOK
<1>5. call' \in [Replica -> Batch \cup {None}]
  BY <1>1 DEF TypeOK
<1>6. WorkInv'
  BY <1>1, BatchAssumption DEF TypeOK, WorkInv, Goto
<1> QED
  BY <1>2, <1>3, <1>4, <1>5, <1>6

(* So does consuming a reply, after which the caller waits no longer.      *)
LEMMA ReceiveType ==
    ASSUME TypeInv, NEW r \in Replica, NEW reply, Receive(r, reply)
    PROVE  /\ phase' \in [Batch -> Phase] /\ sql' \in [Batch -> Row]
           /\ rows' \in [Batch -> Table]
           /\ call' \in [Replica -> Batch \cup {None}]
           /\ call' = [call EXCEPT ![r] = None]
           /\ todo[r] # {}
<1> USE DEF TypeInv
<1>1. call[r] \in Batch /\ todo[r] # {}
  BY DEF Receive, TypeOK, WorkInv
<1>2. phase' \in [Batch -> Phase] /\ sql' \in [Batch -> Row]
  BY <1>1 DEF Receive, TypeOK, Phase, Row
<1>3. rows' \in [Batch -> Table]
  BY <1>1, TableTypes DEF Receive, TypeOK
<1>4. /\ call' \in [Replica -> Batch \cup {None}]
      /\ call' = [call EXCEPT ![r] = None]
  BY DEF Receive, TypeOK
<1> QED
  BY <1>1, <1>2, <1>3, <1>4

(* What a commit appends to the history, and what it does to the table.    *)
LEMMA CommitEffect ==
    ASSUME TypeOK, BatchInv, NEW b \in Batch, CommitBatch(b)
    PROVE  \/ /\ sql[b] = None
              /\ UNCHANGED execLog
              /\ ledger' = Merge(ledger, rows[b])
              /\ \A n \in Listed(rows[b]) : ledger[n] = None
           \/ /\ sql[b] \in Content
              /\ \E n \in Name :
                    /\ Listed(rows[b]) = {n}
                    /\ rows[b][n] = sql[b]
                    /\ ledger[n] = None
                    /\ ledger' = [ledger EXCEPT ![n] = sql[b]]
                    /\ execLog' = Append(execLog, [name |-> n, content |-> sql[b]])
<1>1. /\ ledger' = Merge(ledger, rows[b])
      /\ \A n \in Listed(rows[b]) : ledger[n] = None
  BY DEF CommitBatch, Duplicate
<1>2. CASE sql[b] = None
  BY <1>1, <1>2 DEF CommitBatch
<1>3. CASE sql[b] # None
  <2>1. sql[b] \in Content
    BY <1>3 DEF TypeOK, Row
  <2>2. PICK n \in Name : rows[b] = Selected([m \in Name |-> sql[b]], {n})
    BY <1>3 DEF BatchInv
  <2>3. Listed(rows[b]) = {n} /\ rows[b][n] = sql[b]
    BY <1>3, <2>2 DEF Selected, Listed
  <2>4. Lowest({n}) = n
    BY LowestIsElement
  <2>5. execLog' = Append(execLog, [name |-> n, content |-> sql[b]])
    BY <1>3, <2>3, <2>4 DEF CommitBatch
  <2>6. ledger' = [ledger EXCEPT ![n] = sql[b]]
    BY <1>1, <1>3, <2>2 DEF Merge, Selected, TypeOK, Table
  <2>7. ledger[n] = None
    BY <1>1, <2>3
  <2> QED
    BY <2>1, <2>3, <2>5, <2>6, <2>7
<1> QED
  BY <1>2, <1>3

LEMMA TypeInvStep == TypeInv /\ BatchInv /\ [Next]_vars => TypeInv'
<1> SUFFICES ASSUME TypeInv, BatchInv, [Next]_vars PROVE TypeInv'
  OBVIOUS
<1> USE DEF TypeInv
<1>1. ASSUME NEW r \in Replica, Up(r) PROVE TypeInv'
  <2>1. dir[Home[r]] \in Table
    BY HomeAssumption DEF TypeOK
  <2>2. CASE IllNamed(r)
    <3>1. End(r, "INVALID_MIGRATION_NAME", None)
      BY <1>1, <2>2 DEF Up
    <3>2. outcome' \in [Replica -> Outcome]
      BY <3>1, EndType DEF ErrorCode
    <3> QED
      BY <1>1, <2>1, <3>1, <3>2, InvokeType DEF Up, End, PC
  <2>3. CASE ~IllNamed(r)
    BY <1>1, <2>1, <2>3, InvokeType, ZenonT(60) DEF Up, Goto, PC, TypeOK
  <2> QED
    BY <2>2, <2>3
<1>2. ASSUME NEW r \in Replica, NEW T \in BaselineNames, Baseline(r, T)
      PROVE  TypeInv'
  <2> DEFINE listing == Selected(dir[Home[r]], IF T = None THEN Listed(dir[Home[r]]) ELSE T)
  <2>1. listing \in Table /\ Invoke(r, "baseline", listing)
    BY <1>2, HomeAssumption, TableTypes DEF TypeOK, Baseline
  <2>2. \/ End(r, "INVALID_MIGRATION_NAME", None)
        \/ End(r, "CONFIG_ERROR", None)
        \/ Goto(r, "ensure")
    BY <1>2 DEF Baseline
  <2>3. outcome' \in [Replica -> Outcome]
    BY <2>2, EndType, GotoType DEF ErrorCode, PC
  <2> HIDE DEF listing
  <2> QED
    BY <2>1, <2>2, <2>3, InvokeType DEF End, Goto, PC
<1>3. ASSUME NEW r \in Replica, Codegen(r) PROVE TypeInv'
  BY <1>3, TableTypes, InvokeType DEF Codegen, Goto, PC, TypeOK
<1>4. ASSUME NEW r \in Replica, EnsureTable(r) PROVE TypeInv'
  <2>1. pc' \in [Replica -> PC] /\ outcome' \in [Replica -> Outcome]
    BY <1>4, EndType, GotoType DEF EnsureTable, ErrorCode, PC
  <2> QED
    BY <1>4, <2>1 DEF EnsureTable, TypeOK, WorkInv, End, Goto, batchVars
<1>5. ASSUME NEW r \in Replica, EnsureTableFails(r) PROVE TypeInv'
  <2>1. pc' \in [Replica -> PC] /\ outcome' \in [Replica -> Outcome]
    BY <1>5, EndType, GotoType DEF EnsureTableFails, ErrorCode, PC
  <2> QED
    BY <1>5, <2>1, SpendType DEF EnsureTableFails, TypeOK, WorkInv, End, Goto, dbVars, batchVars, FaultKind
<1>6. ASSUME NEW r \in Replica, ProbeTable(r) PROVE TypeInv'
  <2>1. pc' \in [Replica -> PC] /\ outcome' \in [Replica -> Outcome]
    BY <1>6, EndType, GotoType DEF ProbeTable, ErrorCode, PC
  <2> QED
    BY <1>6, <2>1 DEF ProbeTable, TypeOK, WorkInv, End, Goto, dbVars, batchVars
<1>7. ASSUME NEW r \in Replica, FetchApplied(r) PROVE TypeInv'
  <2>1. CASE Drifted(files[r]) # {}
    <3>1. Lowest(Drifted(files[r])) \in Name
      BY <2>1, LowestIsElement DEF Drifted, Listed
    <3>2. pc' \in [Replica -> PC] /\ outcome' \in [Replica -> Outcome]
      BY <1>7, <2>1, <3>1, EndType DEF FetchApplied, ErrorCode
    <3> QED
      BY <1>7, <2>1, <3>2
      DEF FetchApplied, TypeOK, WorkInv, End, dbVars, batchVars
  <2>2. CASE Drifted(files[r]) = {}
    <3>1. pc' \in [Replica -> PC] /\ outcome' \in [Replica -> Outcome]
      BY <1>7, <2>2, GotoType DEF FetchApplied, PC
    <3>2. Listed(ledger) \subseteq Name /\ Listed(files[r]) \subseteq Name
      BY DEF Listed
    <3>3. todo' \in [Replica -> SUBSET Name]
      <4>1. Listed(files[r]) \ Listed(ledger) \in SUBSET Name
        BY <3>2
      <4>2. todo' = [todo EXCEPT ![r] = Listed(files[r]) \ Listed(ledger)]
        BY <1>7, <2>2 DEF FetchApplied
      <4> QED
        BY <4>1, <4>2 DEF TypeOK
    <3>4. skipped' \in [Replica -> SUBSET Name]
      <4>1. (IF op[r] = "up" THEN Listed(ledger)
             ELSE Listed(files[r]) \cap Listed(ledger)) \in SUBSET Name
        BY <3>2
      <4> QED
        BY <1>7, <2>2, <4>1 DEF FetchApplied, TypeOK
    <3>5. TypeOK'
      BY <1>7, <2>2, <3>1, <3>3, <3>4 DEF FetchApplied, TypeOK, dbVars, batchVars
    <3>6. WorkInv'
      BY <1>7, <2>2 DEF FetchApplied, TypeOK, WorkInv, Goto
    <3> QED
      BY <3>5, <3>6
  <2> QED
    BY <2>1, <2>2
<1>8. ASSUME NEW r \in Replica, ApplyNext(r) PROVE TypeInv'
  <2> DEFINE n == Lowest(todo[r])
             c == dir[Home[r]][n]
  <2>1. n \in Name
    BY <1>8, LowestIsElement DEF ApplyNext, TypeOK
  <2>2. c \in Row
    BY <2>1, HomeAssumption DEF TypeOK, Table
  <2>3. files' \in [Replica -> Table]
    <3>1. files' = files \/ files' = [files EXCEPT ![r][n] = c]
      BY <1>8 DEF ApplyNext
    <3>2. [files[r] EXCEPT ![n] = c] \in Table
      BY <2>1, <2>2 DEF TypeOK, Table
    <3> HIDE DEF n, c
    <3> QED
      BY <3>1, <3>2 DEF TypeOK
  <2>4. UNCHANGED <<dir, types, dbVars, op, todo, applied, skipped, snap, runs, spent>>
    BY <1>8 DEF ApplyNext
  <2>5. CASE c = None \/ c \in Unsplittable
    <3>1. \/ End(r, "CONFIG_ERROR", n)
          \/ End(r, "MIGRATION_FAILED", n)
      BY <1>8, <2>5 DEF ApplyNext
    <3>2. pc' \in [Replica -> PC] /\ outcome' \in [Replica -> Outcome]
      BY <2>1, <3>1, EndType DEF ErrorCode
    <3>3. UNCHANGED <<batchVars, call>>
      BY <1>8, <2>5 DEF ApplyNext
    <3>4. WorkInv'
      BY <1>8, <2>4, <3>1, <3>3 DEF ApplyNext, TypeOK, WorkInv, End
    <3> QED
      BY <2>3, <2>4, <3>2, <3>3, <3>4 DEF TypeOK, dbVars, batchVars
  <2>6. CASE ~(c = None \/ c \in Unsplittable)
    <3>1. Send(r, c, Selected(files'[r], {n}))
      BY <1>8, <2>6 DEF ApplyNext
    <3>2. Selected(files'[r], {n}) \in Table
      BY <2>3, TableTypes
    <3>3. /\ phase' \in [Batch -> Phase] /\ sql' \in [Batch -> Row]
          /\ rows' \in [Batch -> Table]
          /\ call' \in [Replica -> Batch \cup {None}]
          /\ pc' \in [Replica -> PC] /\ outcome' \in [Replica -> Outcome]
          /\ WorkInv'
      <4>1. todo[r] # {} /\ UNCHANGED todo
        BY <1>8, <2>4 DEF ApplyNext
      <4> HIDE DEF n, c
      <4> QED
        BY <2>2, <3>1, <3>2, <4>1, SendType
    <3> QED
      BY <2>3, <2>4, <3>3 DEF TypeOK, dbVars
  <2> QED
    BY <2>5, <2>6
<1>9. ASSUME NEW r \in Replica, RecordAll(r) PROVE TypeInv'
  <2>1. Selected(files[r], todo[r]) \in Table /\ None \in Row
    BY TableTypes DEF TypeOK, Row
  <2>2. UNCHANGED <<dir, types, dbVars, op, files, todo, applied, skipped, snap, runs, spent>>
    BY <1>9 DEF RecordAll
  <2>3. /\ phase' \in [Batch -> Phase] /\ sql' \in [Batch -> Row]
        /\ rows' \in [Batch -> Table]
        /\ call' \in [Replica -> Batch \cup {None}]
        /\ pc' \in [Replica -> PC] /\ outcome' \in [Replica -> Outcome]
        /\ WorkInv'
    BY <1>9, <2>1, SendType DEF RecordAll
  <2> QED
    BY <2>2, <2>3 DEF TypeOK, dbVars
<1>10. ASSUME NEW r \in Replica, Finish(r) PROVE TypeInv'
  <2>1. pc' \in [Replica -> PC] /\ outcome' \in [Replica -> Outcome]
    BY <1>10, EndType, GotoType DEF Finish, ErrorCode, PC
  <2> QED
    BY <1>10, <2>1 DEF Finish, TypeOK, WorkInv, End, Goto, dbVars, batchVars
<1>11. ASSUME NEW r \in Replica, BatchSucceeded(r) PROVE TypeInv'
  <2>1. /\ phase' \in [Batch -> Phase] /\ sql' \in [Batch -> Row]
        /\ rows' \in [Batch -> Table]
        /\ call' \in [Replica -> Batch \cup {None}]
        /\ call' = [call EXCEPT ![r] = None]
        /\ todo[r] # {}
    BY <1>11, ReceiveType DEF BatchSucceeded
  <2>2. InBatch(r) \subseteq Name
    BY <2>1, InBatchType
  <2>3. pc' \in [Replica -> PC] /\ outcome' \in [Replica -> Outcome]
    BY <1>11, GotoType DEF BatchSucceeded, PC
  <2>4. todo' \in [Replica -> SUBSET Name] /\ applied' \in [Replica -> SUBSET Name]
    BY <1>11, <2>2 DEF BatchSucceeded, TypeOK
  <2>5. TypeOK'
    BY <1>11, <2>1, <2>3, <2>4 DEF BatchSucceeded, TypeOK, dbVars
  <2>6. WorkInv'
    BY <1>11, <2>1 DEF BatchSucceeded, TypeOK, WorkInv, Goto
  <2> QED
    BY <2>5, <2>6
<1>12. ASSUME NEW r \in Replica, BatchFailed(r) PROVE TypeInv'
  <2>1. /\ phase' \in [Batch -> Phase] /\ sql' \in [Batch -> Row]
        /\ rows' \in [Batch -> Table]
        /\ call' \in [Replica -> Batch \cup {None}]
        /\ call' = [call EXCEPT ![r] = None]
        /\ todo[r] # {}
    BY <1>12, ReceiveType DEF BatchFailed
  <2>2. pc' \in [Replica -> PC] /\ outcome' \in [Replica -> Outcome]
    BY <1>12, GotoType DEF BatchFailed, PC
  <2>3. TypeOK'
    BY <1>12, <2>1, <2>2 DEF BatchFailed, TypeOK, dbVars
  <2>4. WorkInv'
    BY <1>12, <2>1 DEF BatchFailed, TypeOK, WorkInv, Goto
  <2> QED
    BY <2>3, <2>4
<1>13. ASSUME NEW r \in Replica, AlreadyRecorded(r) PROVE TypeInv'
  <2>1. InBatch(r) \subseteq Name
    BY <1>13, InBatchType DEF AlreadyRecorded, WorkInv
  <2>2. pc' \in [Replica -> PC] /\ outcome' \in [Replica -> Outcome]
    BY <1>13, GotoType DEF AlreadyRecorded, PC
  <2>3. todo' \in [Replica -> SUBSET Name] /\ skipped' \in [Replica -> SUBSET Name]
    BY <1>13, <2>1 DEF AlreadyRecorded, TypeOK
  <2>4. TypeOK'
    BY <1>13, <2>2, <2>3 DEF AlreadyRecorded, TypeOK, dbVars, batchVars
  <2>5. WorkInv'
    BY <1>13 DEF AlreadyRecorded, TypeOK, WorkInv, Goto
  <2> QED
    BY <2>4, <2>5
<1>14. ASSUME NEW r \in Replica, ReportFailure(r) PROVE TypeInv'
  <2>1. InBatch(r) \subseteq Name
    BY <1>14, InBatchType DEF ReportFailure, WorkInv
  <2>2. Lowest(Unrecorded(r)) \in Name
    BY <1>14, <2>1, LowestIsElement DEF ReportFailure, Unrecorded
  <2>3. \E code \in ErrorCode, n \in Name \cup {None} : End(r, code, n)
    BY <1>14, <2>2 DEF ReportFailure, ErrorCode
  <2>4. pc' \in [Replica -> PC] /\ outcome' \in [Replica -> Outcome]
    BY <2>3, EndType
  <2>5. TypeOK'
    BY <1>14, <2>4 DEF ReportFailure, TypeOK, dbVars, batchVars
  <2>6. WorkInv'
    BY <1>14, <2>3 DEF ReportFailure, TypeOK, WorkInv, End
  <2> QED
    BY <2>5, <2>6
<1>15. ASSUME NEW r \in Replica, ReadColumns(r) PROVE TypeInv'
  <2>1. pc' \in [Replica -> PC] /\ outcome' \in [Replica -> Outcome]
    BY <1>15, GotoType DEF ReadColumns, PC
  <2>2. Len(execLog) \in Nat
    BY LenProperties DEF TypeOK
  <2>3. snap' \in [Replica -> Version]
    BY <1>15, <2>2 DEF ReadColumns, TypeOK, Version
  <2> QED
    BY <1>15, <2>1, <2>3 DEF ReadColumns, TypeOK, WorkInv, Goto, dbVars, batchVars
<1>16. ASSUME NEW r \in Replica, ReadEnums(r) PROVE TypeInv'
  <2>1. pc' \in [Replica -> PC] /\ outcome' \in [Replica -> Outcome]
    BY <1>16, GotoType DEF ReadEnums, PC
  <2>2. Len(execLog) \in Nat
    BY LenProperties DEF TypeOK
  <2>3. snap' \in [Replica -> Version]
    BY <1>16, <2>2 DEF ReadEnums, TypeOK, Version
  <2> QED
    BY <1>16, <2>1, <2>3 DEF ReadEnums, TypeOK, WorkInv, Goto, dbVars, batchVars
<1>17. ASSUME NEW r \in Replica, WriteTypes(r) PROVE TypeInv'
  <2>1. pc' \in [Replica -> PC] /\ outcome' \in [Replica -> Outcome]
    BY <1>17, EndType DEF WriteTypes, ErrorCode
  <2>2. types' \in [Checkout -> Version]
    BY <1>17 DEF WriteTypes, TypeOK
  <2> QED
    BY <1>17, <2>1, <2>2 DEF WriteTypes, TypeOK, WorkInv, End, dbVars, batchVars
<1>18. ASSUME NEW r \in Replica, CodegenFails(r) PROVE TypeInv'
  <2>1. pc' \in [Replica -> PC] /\ outcome' \in [Replica -> Outcome]
    BY <1>18, EndType, GotoType DEF CodegenFails, ErrorCode, PC
  <2> QED
    BY <1>18, <2>1, SpendType DEF CodegenFails, TypeOK, WorkInv, End, Goto, dbVars, batchVars, FaultKind
<1>19. ASSUME NEW r \in Replica, CallFails(r) PROVE TypeInv'
  <2>1. pc' \in [Replica -> PC] /\ outcome' \in [Replica -> Outcome]
    BY <1>19, EndType, GotoType DEF CallFails, ErrorCode, PC
  <2> QED
    BY <1>19, <2>1, SpendType DEF CallFails, TypeOK, WorkInv, End, Goto, dbVars, batchVars, FaultKind
<1>20. ASSUME NEW r \in Replica, Timeout(r) PROVE TypeInv'
  <2>1. pc' \in [Replica -> PC] /\ outcome' \in [Replica -> Outcome]
    BY <1>20, EndType, GotoType DEF Timeout, ErrorCode, PC
  <2> QED
    BY <1>20, <2>1, SpendType DEF Timeout, TypeOK, WorkInv, End, Goto, dbVars, batchVars, FaultKind
<1>21. ASSUME NEW r \in Replica, Crash(r) PROVE TypeInv'
  <2>1. pc' \in [Replica -> PC] /\ outcome' \in [Replica -> Outcome]
    BY <1>21, EndType DEF Crash
  <2>2. files' \in [Replica -> Table] /\ snap' \in [Replica -> Version]
    BY <1>21, TableTypes DEF Crash, TypeOK, NoVersion, Version
  <2>3. spent' \in [FaultKind -> Nat]
    BY <1>21, SpendType DEF Crash, FaultKind
  <2>4. TypeOK'
    BY <1>21, <2>1, <2>2, <2>3 DEF Crash, TypeOK, dbVars, batchVars
  <2>5. WorkInv'
    BY <1>21 DEF Crash, TypeOK, WorkInv, End
  <2> QED
    BY <2>4, <2>5
<1>22. ASSUME NEW b \in Batch, BeginBatch(b) PROVE TypeInv'
  BY <1>22 DEF BeginBatch, TypeOK, WorkInv, Phase, dbVars, runVars
<1>23. ASSUME NEW b \in Batch, CommitBatch(b) PROVE TypeInv'
  <2>1. ledger' \in Table
    BY <1>23, TableTypes DEF CommitBatch, TypeOK
  <2>2. phase' \in [Batch -> Phase]
    BY <1>23 DEF CommitBatch, TypeOK, Phase
  <2>3. execLog' \in Seq(Entry)
    <3>1. CASE UNCHANGED execLog
      BY <3>1 DEF TypeOK
    <3>2. ASSUME NEW n \in Name, NEW c \in Content,
                 execLog' = Append(execLog, [name |-> n, content |-> c])
          PROVE  execLog' \in Seq(Entry)
      BY <3>2, AppendProperties DEF TypeOK, Entry
    <3> QED
      BY <1>23, <3>1, <3>2, CommitEffect
  <2> QED
    BY <1>23, <2>1, <2>2, <2>3 DEF CommitBatch, TypeOK, WorkInv, runVars
<1>24. ASSUME NEW b \in Batch, RollBackBatch(b) PROVE TypeInv'
  BY <1>24, SpendType DEF RollBackBatch, TypeOK, WorkInv, Phase, FaultKind, dbVars, runVars
<1>25. ASSUME NEW b \in Batch, DropBatch(b) PROVE TypeInv'
  BY <1>25, TableTypes DEF DropBatch, TypeOK, WorkInv, Phase, Row, dbVars, runVars
<1>26. ASSUME NEW k \in Checkout, Edit(k) PROVE TypeInv'
  <2>1. dir' \in [Checkout -> Table] /\ spent' \in [FaultKind -> Nat]
    BY <1>26, SpendType DEF Edit, TypeOK, FaultKind, Table
  <2> QED
    BY <1>26, <2>1 DEF Edit, TypeOK, WorkInv, dbVars, batchVars, runVars
<1>27. CASE Quiescent \/ UNCHANGED vars
  BY <1>27 DEF Quiescent, vars, TypeOK, WorkInv, dbVars, batchVars, runVars
<1> QED
  BY <1>1, <1>2, <1>3, <1>4, <1>5, <1>6, <1>7, <1>8, <1>9, <1>10, <1>11, <1>12,
     <1>13, <1>14, <1>15, <1>16, <1>17, <1>18, <1>19, <1>20, <1>21, <1>22,
     <1>23, <1>24, <1>25, <1>26, <1>27
  DEF Next, Request, Progress, DatabaseStep

(* Only sending, receiving and dropping change what a batch carries.       *)
LEMMA BatchInvStep == TypeInv /\ BatchInv /\ [Next]_vars => BatchInv'
<1> SUFFICES ASSUME TypeInv, BatchInv, [Next]_vars PROVE BatchInv'
  OBVIOUS
<1> USE DEF TypeInv
<1>1. CASE UNCHANGED <<sql, rows>>
  BY <1>1 DEF BatchInv
<1>2. ASSUME NEW r \in Replica, ApplyNext(r) PROVE BatchInv'
  <2> DEFINE n == Lowest(todo[r])
             c == dir[Home[r]][n]
  <2>1. n \in Name
    BY <1>2, LowestIsElement DEF ApplyNext, TypeOK
  <2>2. CASE c = None \/ c \in Unsplittable
    BY <1>1, <1>2, <2>2 DEF ApplyNext, batchVars
  <2>3. CASE ~(c = None \/ c \in Unsplittable)
    <3>1. files' = [files EXCEPT ![r][n] = c] /\ Send(r, c, Selected(files'[r], {n}))
      BY <1>2, <2>3 DEF ApplyNext
    <3>2. Selected(files'[r], {n}) = Selected([m \in Name |-> c], {n})
      <4> HIDE DEF n, c
      <4> QED
        BY <2>1, <3>1 DEF Selected, TypeOK, Table
    <3>3. PICK b \in Batch :
              /\ sql' = [sql EXCEPT ![b] = c]
              /\ rows' = [rows EXCEPT ![b] = Selected([m \in Name |-> c], {n})]
      BY <3>1, <3>2 DEF Send
    <3> HIDE DEF n, c
    <3> QED
      BY <2>1, <3>3, ZenonT(60) DEF BatchInv, TypeOK
  <2> QED
    BY <2>2, <2>3
<1>3. ASSUME NEW r \in Replica, RecordAll(r) PROVE BatchInv'
  <2>1. PICK b \in Batch :
            /\ sql' = [sql EXCEPT ![b] = None]
            /\ rows' = [rows EXCEPT ![b] = Selected(files[r], todo[r])]
    BY <1>3 DEF RecordAll, Send
  <2> QED
    BY <2>1, ZenonT(60) DEF BatchInv, TypeOK
<1>4. ASSUME NEW b \in Batch, sql' = [sql EXCEPT ![b] = None],
             rows' = [rows EXCEPT ![b] = Empty]
      PROVE  BatchInv'
  BY <1>4, ZenonT(60) DEF BatchInv, TypeOK
<1>5. ASSUME NEW r \in Replica, NEW reply, Receive(r, reply) PROVE BatchInv'
  <2>1. call[r] \in Batch
    BY <1>5 DEF Receive, TypeOK, WorkInv
  <2> QED
    BY <1>4, <1>5, <2>1 DEF Receive
<1>6. ASSUME NEW r \in Replica, BatchSucceeded(r) \/ BatchFailed(r) PROVE BatchInv'
  BY <1>5, <1>6 DEF BatchSucceeded, BatchFailed
<1>7. ASSUME NEW b \in Batch, DropBatch(b) PROVE BatchInv'
  BY <1>4, <1>7 DEF DropBatch
<1>8. ASSUME NEW b \in Batch, DatabaseStep(b) PROVE BatchInv'
  BY <1>1, <1>7, <1>8 DEF DatabaseStep, BeginBatch, CommitBatch, RollBackBatch
<1>9. ASSUME NEW r \in Replica, Request(r) PROVE BatchInv'
  BY <1>1, <1>9 DEF Request, Up, Baseline, Codegen, Invoke, batchVars
<1>10. ASSUME NEW r \in Replica, Progress(r) PROVE BatchInv'
  <2>1. CASE \/ EnsureTable(r) \/ EnsureTableFails(r) \/ ProbeTable(r)
             \/ FetchApplied(r) \/ Finish(r) \/ AlreadyRecorded(r)
    BY <1>1, <2>1 DEF EnsureTable, EnsureTableFails, ProbeTable, FetchApplied,
       Finish, AlreadyRecorded, batchVars
  <2>2. CASE \/ ReportFailure(r) \/ ReadColumns(r) \/ ReadEnums(r)
             \/ WriteTypes(r) \/ CodegenFails(r) \/ CallFails(r) \/ Timeout(r)
    BY <1>1, <2>2 DEF ReportFailure, ReadColumns, ReadEnums, WriteTypes,
       CodegenFails, CallFails, Timeout, batchVars
  <2> QED
    BY <1>2, <1>3, <1>6, <1>10, <2>1, <2>2 DEF Progress
<1>11. CASE \/ \E r \in Replica : Crash(r)
            \/ \E k \in Checkout : Edit(k)
            \/ Quiescent
            \/ UNCHANGED vars
  BY <1>1, <1>11 DEF Crash, Edit, Quiescent, vars, batchVars
<1> QED
  BY <1>8, <1>9, <1>10, <1>11 DEF Next

(* The state of every reachable state is in range (run up_faults), and a   *)
(* batch in flight records exactly what it executes.                       *)
THEOREM TypeCorrect == Spec => [](TypeOK /\ BatchInv)
<1>1. Init => BatchInv
  BY DEF Init, BatchInv
<1> QED
  BY <1>1, TypeInvInit, TypeInvStep, BatchInvStep, PTL DEF Spec, TypeInv


(***************************************************************************)
(* Only a commit touches the table and the history                         *)
(***************************************************************************)

LEMMA LedgerFrame ==
    ASSUME [Next]_vars
    PROVE  UNCHANGED <<ledger, execLog>> \/ \E b \in Batch : CommitBatch(b)
<1>1. ASSUME NEW r \in Replica, Request(r) \/ Crash(r)
      PROVE  UNCHANGED <<ledger, execLog>>
  BY <1>1 DEF Request, Up, Baseline, Codegen, Invoke, Crash, dbVars
<1>2. ASSUME NEW r \in Replica, Progress(r)
      PROVE  UNCHANGED <<ledger, execLog>>
  <2>1. CASE \/ EnsureTable(r) \/ EnsureTableFails(r) \/ ProbeTable(r)
             \/ FetchApplied(r) \/ ApplyNext(r) \/ RecordAll(r) \/ Finish(r)
    BY <2>1 DEF EnsureTable, EnsureTableFails, ProbeTable, FetchApplied,
       ApplyNext, RecordAll, Finish, dbVars
  <2>2. CASE \/ BatchSucceeded(r) \/ BatchFailed(r) \/ AlreadyRecorded(r)
             \/ ReportFailure(r) \/ CallFails(r) \/ Timeout(r)
    BY <2>2 DEF BatchSucceeded, BatchFailed, AlreadyRecorded, ReportFailure,
       CallFails, Timeout, dbVars
  <2>3. CASE ReadColumns(r) \/ ReadEnums(r) \/ WriteTypes(r) \/ CodegenFails(r)
    BY <2>3 DEF ReadColumns, ReadEnums, WriteTypes, CodegenFails, dbVars
  <2> QED
    BY <1>2, <2>1, <2>2, <2>3 DEF Progress
<1>3. ASSUME NEW b \in Batch, DatabaseStep(b), ~CommitBatch(b)
      PROVE  UNCHANGED <<ledger, execLog>>
  BY <1>3 DEF DatabaseStep, BeginBatch, RollBackBatch, DropBatch, dbVars
<1>4. CASE (\E k \in Checkout : Edit(k)) \/ Quiescent \/ UNCHANGED vars
  BY <1>4 DEF Edit, Quiescent, vars, dbVars
<1> QED
  BY <1>1, <1>2, <1>3, <1>4 DEF Next

(***************************************************************************)
(* The tracking table is append-only                                       *)
(***************************************************************************)

LEMMA RowsStay ==
    ASSUME TypeOK, BatchInv, [Next]_vars
    PROVE  \A n \in Name : ledger[n] # None => ledger'[n] = ledger[n]
<1>1. ASSUME NEW b \in Batch, CommitBatch(b), NEW n \in Name, ledger[n] # None
      PROVE  ledger'[n] = ledger[n]
  <2>1. CASE /\ ledger' = Merge(ledger, rows[b])
             /\ \A m \in Listed(rows[b]) : ledger[m] = None
    BY <1>1, <2>1 DEF Merge, Listed
  <2>2. ASSUME NEW m \in Name, NEW c, ledger[m] = None,
               ledger' = [ledger EXCEPT ![m] = c]
        PROVE  ledger'[n] = ledger[n]
    BY <1>1, <2>2 DEF TypeOK, Table
  <2> QED
    BY <1>1, <2>1, <2>2, CommitEffect
<1> QED
  BY <1>1, LedgerFrame

(* No step of any replica, and no late commit, changes or removes a        *)
(* tracking row.                                                           *)
THEOREM RowsNeverChange == Spec => LedgerAppendOnly
<1>1. TypeOK /\ BatchInv /\ [Next]_vars
      => [\A n \in Name : ledger[n] # None => ledger'[n] = ledger[n]]_vars
  BY RowsStay
<1> QED
  BY <1>1, TypeCorrect, PTL DEF Spec, LedgerAppendOnly

(***************************************************************************)
(* Migrator implements MigrationLog                                        *)
(***************************************************************************)

(* The code's transactions are the abstract log's two operations, and      *)
(* nothing else touches the table (runs up_edits and deployment).          *)
THEOREM MigratorImplementsLog == Spec => ImplementsLog
<1>1. Init => Log!Init
  BY DEF Init, Log!Init, Empty, Log!Empty
<1>2. TypeOK /\ BatchInv /\ [Next]_vars => [Log!Next]_<<ledger, execLog>>
  <2> SUFFICES ASSUME TypeOK, BatchInv, [Next]_vars
               PROVE  Log!Next \/ UNCHANGED <<ledger, execLog>>
    OBVIOUS
  <2>1. ASSUME NEW b \in Batch, CommitBatch(b)
        PROVE  Log!Next
    <3>1. CASE /\ UNCHANGED execLog
               /\ ledger' = Merge(ledger, rows[b])
               /\ \A n \in Listed(rows[b]) : ledger[n] = None
      <4>1. ledger' \in Log!Table
        BY <3>1 DEF TypeOK, Table, Row, Merge, Log!Table, Log!Row
      <4>2. Log!Record
        BY <3>1, <4>1, RowsStay DEF Log!Record
      <4> QED
        BY <4>2 DEF Log!Next
    <3>2. ASSUME NEW n \in Name, sql[b] \in Content, ledger[n] = None,
                 ledger' = [ledger EXCEPT ![n] = sql[b]],
                 execLog' = Append(execLog, [name |-> n, content |-> sql[b]])
          PROVE  Log!Next
      BY <3>2 DEF Log!Next, Log!Execute
    <3> QED
      BY <2>1, <3>1, <3>2, CommitEffect
  <2> QED
    BY <2>1, LedgerFrame
<1> QED
  BY <1>1, <1>2, TypeCorrect, PTL DEF Spec, ImplementsLog, Log!Spec, Log!logVars

(***************************************************************************)
(* A file executes at most once, and its row is what was executed          *)
(***************************************************************************)

LEMMA LogEntries ==
    ASSUME TypeOK
    PROVE  \A i \in DOMAIN execLog :
               execLog[i].name \in Name /\ execLog[i].content \in Content
<1>1. execLog \in [1 .. Len(execLog) -> Entry] /\ DOMAIN execLog = 1 .. Len(execLog)
  BY LenProperties DEF TypeOK
<1>2. \A i \in DOMAIN execLog : execLog[i] \in Entry
  BY <1>1
<1> QED
  BY <1>2 DEF Entry

ExecutionInv == ExecutedOnce /\ LedgerMatchesExecution

LEMMA ExecutionInvStep ==
    ASSUME TypeOK, BatchInv, ExecutionInv, [Next]_vars
    PROVE  ExecutionInv'
<1> USE DEF ExecutionInv
<1>1. CASE UNCHANGED <<ledger, execLog>>
  BY <1>1 DEF ExecutedOnce, LedgerMatchesExecution
<1>2. ASSUME NEW b \in Batch, CommitBatch(b) PROVE ExecutionInv'
  <2>1. CASE UNCHANGED execLog
    <3>1. \A i \in DOMAIN execLog : execLog[i].name \in Name /\ execLog[i].content \in Content
      BY LogEntries
    <3>2. \A i \in DOMAIN execLog : ledger[execLog[i].name] # None
      BY <3>1, NoneAssumption DEF LedgerMatchesExecution
    <3> QED
      BY <2>1, <3>1, <3>2, RowsStay DEF ExecutedOnce, LedgerMatchesExecution
  <2>2. ASSUME NEW n \in Name, sql[b] \in Content, ledger[n] = None,
               ledger' = [ledger EXCEPT ![n] = sql[b]],
               execLog' = Append(execLog, [name |-> n, content |-> sql[b]])
        PROVE  ExecutionInv'
    <3> DEFINE e == [name |-> n, content |-> sql[b]]
    <3>1. /\ execLog \in Seq(Entry) /\ e \in Entry
          /\ execLog' = Append(execLog, e)
      BY <2>2 DEF TypeOK, Entry
    <3>2. /\ Len(execLog) \in Nat
          /\ Len(execLog') = Len(execLog) + 1
          /\ DOMAIN execLog = 1 .. Len(execLog)
          /\ DOMAIN execLog' = 1 .. Len(execLog) + 1
          /\ \A i \in DOMAIN execLog : execLog'[i] = execLog[i]
          /\ execLog'[Len(execLog) + 1] = e
      BY <3>1, LenProperties, AppendProperties
    <3>3. \A i \in DOMAIN execLog :
              /\ execLog[i].name \in Name
              /\ execLog[i].content \in Content
      BY LogEntries
    <3>4. \A i \in DOMAIN execLog : execLog[i].name # n
      BY <2>2, <3>3, NoneAssumption DEF LedgerMatchesExecution
    <3>5. e.name = n /\ e.content = sql[b]
      OBVIOUS
    <3> HIDE DEF e
    <3>6. \A i \in DOMAIN execLog' : i \in DOMAIN execLog \/ i = Len(execLog) + 1
      BY <3>2
    <3>7. ExecutedOnce'
      BY <3>2, <3>4, <3>5, <3>6 DEF ExecutedOnce
    <3>8. LedgerMatchesExecution'
      BY <2>2, <3>2, <3>3, <3>4, <3>5, <3>6 DEF LedgerMatchesExecution, TypeOK, Table
    <3> QED
      BY <3>7, <3>8
  <2> QED
    BY <1>2, <2>1, <2>2, CommitEffect
<1> QED
  BY <1>1, <1>2, LedgerFrame

(* The SQL of a file is executed at most once (run up_faults), whatever    *)
(* the interleaving, retries and late commits.                             *)
THEOREM FilesExecuteOnce == Spec => []ExecutedOnce
<1>1. Init => ExecutionInv
  BY DEF Init, ExecutionInv, ExecutedOnce, LedgerMatchesExecution
<1>2. TypeOK /\ BatchInv /\ ExecutionInv /\ [Next]_vars => ExecutionInv'
  BY ExecutionInvStep
<1>3. ExecutionInv => ExecutedOnce
  BY DEF ExecutionInv
<1> QED
  BY <1>1, <1>2, <1>3, TypeCorrect, PTL DEF Spec

(* The checksum on record is that of the executed bytes (run up_edits).    *)
THEOREM RowsMatchExecution == Spec => []LedgerMatchesExecution
<1>1. Init => ExecutionInv
  BY DEF Init, ExecutionInv, ExecutedOnce, LedgerMatchesExecution
<1>2. TypeOK /\ BatchInv /\ ExecutionInv /\ [Next]_vars => ExecutionInv'
  BY ExecutionInvStep
<1>3. ExecutionInv => LedgerMatchesExecution
  BY DEF ExecutionInv
<1> QED
  BY <1>1, <1>2, <1>3, TypeCorrect, PTL DEF Spec

(***************************************************************************)
(* What the answer of a run tells its caller: after "ok" every file the    *)
(* run listed is on record with the content it read.                       *)
(***************************************************************************)

(* The files of `f` named in `S` are on record as listed. *)
OnRecord(f, S) == \A n \in S : ledger[n] = f[n]

(* The inductive invariant, seen from one replica.  While it works through *)
(* its list, what it has handled is on record; afterwards everything is;   *)
(* while it waits, its batch is alive and carries the files as it read     *)
(* them.                                                                   *)
RunOK(r) ==
    /\ pc[r] \in {"loop", "await", "classify"} =>
           /\ todo[r] \subseteq Listed(files[r])
           /\ OnRecord(files[r], Listed(files[r]) \ todo[r])
    /\ pc[r] \in {"columns", "enums", "write"} \/ Ended(r, "ok") =>
           OnRecord(files[r], Listed(files[r]))
    /\ pc[r] = "await" =>
           /\ phase[call[r]] # "free"
           /\ \A n \in InBatch(r) : rows[call[r]][n] = files[r][n]

(* Two replicas never wait for the same batch. *)
CallersDiffer ==
    \A r, s \in Replica : call[r] # None /\ call[r] = call[s] => r = s

(* What a batch reports as committed is on record. *)
CommittedOnRecord ==
    \A b \in Batch : phase[b] = "committed" => OnRecord(rows[b], Listed(rows[b]))

OutcomeInv ==
    /\ \A r \in Replica : RunOK(r)
    /\ CallersDiffer
    /\ CommittedOnRecord

StepAssumption == TypeInv /\ BatchInv /\ OutcomeInv /\ [Next]_vars

(***************************************************************************)
(* Who waits for which batch                                               *)
(***************************************************************************)

LEMMA CallerOfBatch ==
    ASSUME TypeInv, OutcomeInv, NEW r \in Replica, call[r] # None
    PROVE  /\ call[r] \in Batch
           /\ pc[r] = "await"
           /\ phase[call[r]] # "free"
  BY DEF TypeInv, TypeOK, WorkInv, OutcomeInv, RunOK

(* A replica is undisturbed by a step that leaves its run and the batch it *)
(* waits for alone.                                                        *)
LEMMA RunFrame ==
    ASSUME StepAssumption, NEW r \in Replica,
           pc'[r] = pc[r], op'[r] = op[r], files'[r] = files[r],
           todo'[r] = todo[r], call'[r] = call[r], outcome'[r] = outcome[r],
           pc[r] = "await" => /\ phase'[call[r]] # "free"
                              /\ rows'[call[r]] = rows[call[r]]
    PROVE  RunOK(r)'
<1>1. RunOK(r)
  BY DEF StepAssumption, OutcomeInv
<1>2. \A n \in Listed(files[r]) : ledger[n] = files[r][n] => ledger'[n] = files[r][n]
  BY RowsStay DEF StepAssumption, TypeInv, Listed
<1>3. pc'[r] \in {"loop", "await", "classify"} =>
          /\ todo'[r] \subseteq Listed(files'[r])
          /\ \A n \in Listed(files'[r]) \ todo'[r] : ledger'[n] = files'[r][n]
  BY <1>1, <1>2 DEF RunOK, OnRecord
<1>4. pc'[r] \in {"columns", "enums", "write"} \/ Ended(r, "ok")' =>
          \A n \in Listed(files'[r]) : ledger'[n] = files'[r][n]
  BY <1>1, <1>2 DEF RunOK, OnRecord, Ended
<1>5. InBatch(r)' = InBatch(r)
  BY DEF InBatch
<1>6. pc'[r] = "await" =>
          /\ phase'[call'[r]] # "free"
          /\ \A n \in InBatch(r)' : rows'[call'[r]][n] = files'[r][n]
  BY <1>1, <1>5 DEF RunOK
<1> QED
  BY <1>3, <1>4, <1>6 DEF RunOK, OnRecord

(* A step of one replica that leaves every batch alone and waits for none. *)
LEMMA LocalStep ==
    ASSUME StepAssumption, NEW r \in Replica, RunOK(r)',
           UNCHANGED <<ledger, phase, rows>>,
           call' = call \/ call' = [call EXCEPT ![r] = None],
           \A s \in Replica \ {r} :
               /\ pc'[s] = pc[s] /\ op'[s] = op[s] /\ files'[s] = files[s]
               /\ todo'[s] = todo[s] /\ outcome'[s] = outcome[s]
    PROVE  OutcomeInv'
<1> USE DEF StepAssumption
<1>1. \A s \in Replica \ {r} : call'[s] = call[s]
  BY DEF TypeInv, TypeOK
<1>2. ASSUME NEW s \in Replica \ {r} PROVE RunOK(s)'
  <2>1. pc[s] = "await" => phase'[call[s]] # "free" /\ rows'[call[s]] = rows[call[s]]
    BY DEF OutcomeInv, RunOK
  <2> QED
    BY <1>1, <2>1, RunFrame
<1>3. CallersDiffer'
  <2>1. \A s \in Replica : call'[s] = call[s] \/ call'[s] = None
    BY DEF TypeInv, TypeOK
  <2> QED
    BY <2>1 DEF OutcomeInv, CallersDiffer
<1>4. CommittedOnRecord'
  <2>1. /\ CommittedOnRecord
        /\ phase' = phase /\ rows' = rows /\ ledger' = ledger
    BY DEF OutcomeInv
  <2> QED
    BY <2>1 DEF CommittedOnRecord, OnRecord, Listed
<1> QED
  BY <1>2, <1>3, <1>4 DEF OutcomeInv
(* A step of the database worker or of the environment: no run moves, and  *)
(* the batches that somebody waits for stay alive and keep their rows.     *)
LEMMA BatchStep ==
    ASSUME StepAssumption, UNCHANGED <<pc, op, files, todo, call, outcome>>,
           \A s \in Replica : call[s] # None =>
               phase'[call[s]] # "free" /\ rows'[call[s]] = rows[call[s]],
           CommittedOnRecord'
    PROVE  OutcomeInv'
<1> USE DEF StepAssumption
<1>1. ASSUME NEW s \in Replica PROVE RunOK(s)'
  <2>1. pc[s] = "await" => call[s] # None
    BY DEF TypeInv, WorkInv
  <2> QED
    BY <2>1, RunFrame
<1>2. CallersDiffer'
  BY DEF OutcomeInv, CallersDiffer
<1> QED
  BY <1>1, <1>2 DEF OutcomeInv

(* A replica takes a free batch and fills it with the files it read.       *)
LEMMA SendStep ==
    ASSUME StepAssumption, NEW r \in Replica, NEW statements, NEW g,
           Send(r, statements, g), UNCHANGED <<ledger, op, todo>>,
           \A s \in Replica \ {r} : files'[s] = files[s],
           call[r] = None, pc[r] = "loop",
           todo[r] \subseteq Listed(files[r]),
           Listed(files'[r]) = Listed(files[r]),
           \A n \in Listed(files[r]) \ todo[r] : files'[r][n] = files[r][n],
           \A n \in InBatch(r) : g[n] = files'[r][n]
    PROVE  OutcomeInv'
<1> USE DEF StepAssumption
<1>1. PICK b \in Batch :
          /\ phase[b] = "free"
          /\ phase' = [phase EXCEPT ![b] = "queued"]
          /\ rows' = [rows EXCEPT ![b] = g]
          /\ call' = [call EXCEPT ![r] = b]
          /\ Goto(r, "await")
  BY DEF Send
<1>2. \A s \in Replica : call[s] # b
  BY <1>1, CallerOfBatch, BatchAssumption
<1>3. /\ \A s \in Replica \ {r} : call'[s] = call[s] /\ pc'[s] = pc[s]
      /\ call'[r] = b /\ pc'[r] = "await" /\ outcome' = outcome
  BY <1>1 DEF Goto, TypeInv, TypeOK
<1>4. ASSUME NEW s \in Replica \ {r} PROVE RunOK(s)'
  <2>1. pc[s] = "await" => phase'[call[s]] # "free" /\ rows'[call[s]] = rows[call[s]]
    <3>1. pc[s] = "await" => call[s] \in Batch \ {b} /\ phase[call[s]] # "free"
      <4>1. pc[s] = "await" => call[s] # None
        BY DEF TypeInv, WorkInv
      <4> QED
        BY <1>2, <4>1, CallerOfBatch
    <3> QED
      BY <1>1, <3>1 DEF TypeInv, TypeOK
  <2> QED
    BY <1>3, <2>1, RunFrame
<1>5. RunOK(r)'
  <2>1. \A n \in Listed(files[r]) \ todo[r] : ledger[n] = files[r][n]
    BY DEF OutcomeInv, RunOK, OnRecord
  <2>2. \A n \in Listed(files'[r]) \ todo'[r] : ledger'[n] = files'[r][n]
    BY <2>1
  <2>3. InBatch(r)' = InBatch(r)
    BY DEF InBatch
  <2>4. phase'[b] # "free" /\ rows'[b] = g
    BY <1>1 DEF TypeInv, TypeOK
  <2> QED
    BY <1>3, <2>2, <2>3, <2>4 DEF RunOK, OnRecord, Ended
<1>6. CallersDiffer'
  BY <1>2, <1>3 DEF OutcomeInv, CallersDiffer
<1>7. CommittedOnRecord'
  <2>1. \A o \in Batch \ {b} : phase'[o] = phase[o] /\ rows'[o] = rows[o]
    BY <1>1 DEF TypeInv, TypeOK
  <2>2. phase'[b] # "committed"
    BY <1>1 DEF TypeInv, TypeOK
  <2>3. CommittedOnRecord /\ ledger' = ledger
    BY DEF OutcomeInv
  <2> QED
    BY <2>1, <2>2, <2>3 DEF CommittedOnRecord, OnRecord, Listed
<1> QED
  BY <1>4, <1>5, <1>6, <1>7 DEF OutcomeInv

(* A replica consumes the reply of its batch.                              *)
LEMMA ReceiveStep ==
    ASSUME StepAssumption, NEW r \in Replica, NEW reply, Receive(r, reply),
           UNCHANGED <<ledger, op, files, outcome>>,
           \A s \in Replica \ {r} : pc'[s] = pc[s] /\ todo'[s] = todo[s],
           RunOK(r)'
    PROVE  OutcomeInv'
<1> USE DEF StepAssumption
<1>1. call[r] \in Batch
  BY DEF Receive, TypeInv, TypeOK, WorkInv
<1>2. /\ phase' = [phase EXCEPT ![call[r]] = "free"]
      /\ rows' = [rows EXCEPT ![call[r]] = Empty]
      /\ call' = [call EXCEPT ![r] = None]
  BY DEF Receive
<1>3. \A s \in Replica \ {r} : call'[s] = call[s]
  BY <1>2 DEF TypeInv, TypeOK
<1>4. ASSUME NEW s \in Replica \ {r} PROVE RunOK(s)'
  <2>1. pc[s] = "await" => phase'[call[s]] # "free" /\ rows'[call[s]] = rows[call[s]]
    <3>1. pc[s] = "await" =>
              call[s] \in Batch /\ call[s] # call[r] /\ phase[call[s]] # "free"
      <4>1. pc[s] = "await" => call[s] # None
        BY DEF TypeInv, WorkInv
      <4>2. call[s] = call[r] => s = r
        BY <1>1, BatchAssumption DEF OutcomeInv, CallersDiffer
      <4> QED
        BY <4>1, <4>2, CallerOfBatch
    <3> QED
      BY <1>1, <1>2, <3>1 DEF TypeInv, TypeOK
  <2> QED
    BY <1>3, <2>1, RunFrame
<1>5. CallersDiffer'
  <2>1. \A s \in Replica : call'[s] = call[s] \/ call'[s] = None
    BY <1>2 DEF TypeInv, TypeOK
  <2> QED
    BY <2>1 DEF OutcomeInv, CallersDiffer
<1>6. CommittedOnRecord'
  <2>1. \A o \in Batch \ {call[r]} : phase'[o] = phase[o] /\ rows'[o] = rows[o]
    BY <1>1, <1>2 DEF TypeInv, TypeOK
  <2>2. phase'[call[r]] # "committed"
    BY <1>1, <1>2 DEF TypeInv, TypeOK
  <2>3. CommittedOnRecord /\ ledger' = ledger
    BY DEF OutcomeInv
  <2> QED
    BY <2>1, <2>2, <2>3 DEF CommittedOnRecord, OnRecord, Listed
<1> QED
  BY <1>4, <1>5, <1>6 DEF OutcomeInv
(***************************************************************************)
(* The invariant is inductive                                              *)
(***************************************************************************)

LEMMA OutcomeInvInit == Init => OutcomeInv
  BY DEF Init, OutcomeInv, RunOK, CallersDiffer, CommittedOnRecord, Ended

(* A run that ends with an error, or that has not reached its list, has    *)
(* nothing to show.                                                        *)
LEMMA NothingToShow ==
    ASSUME NEW r \in Replica, pc'[r] \in {"idle", "ensure", "probe", "fetch"},
           pc'[r] = "idle" => outcome'[r].code # "ok"
    PROVE  RunOK(r)'
  BY DEF RunOK, Ended

LEMMA RequestStep ==
    ASSUME StepAssumption, NEW r \in Replica, Request(r)
    PROVE  OutcomeInv'
<1> USE DEF StepAssumption
<1>1. PICK handler, listing : Invoke(r, handler, listing)
  BY DEF Request, Up, Baseline, Codegen
<1>2. /\ UNCHANGED <<ledger, phase, rows, call>>
      /\ files' = [files EXCEPT ![r] = listing]
      /\ \A s \in Replica \ {r} :
            op'[s] = op[s] /\ files'[s] = files[s] /\ todo'[s] = todo[s]
  BY <1>1 DEF Invoke, dbVars, batchVars, TypeInv, TypeOK
<1>3. \/ End(r, "INVALID_MIGRATION_NAME", None) \/ End(r, "CONFIG_ERROR", None)
      \/ Goto(r, "ensure")
      \/ Goto(r, "columns") /\ files' = [files EXCEPT ![r] = Empty]
  BY DEF Request, Up, Baseline, Codegen, Invoke
<1>4. \A s \in Replica \ {r} : pc'[s] = pc[s] /\ outcome'[s] = outcome[s]
  BY <1>3 DEF End, Goto, TypeInv, TypeOK
<1>5. RunOK(r)'
  <2>1. CASE Goto(r, "columns") /\ files' = [files EXCEPT ![r] = Empty]
    <3>1. pc'[r] = "columns" /\ files'[r] = Empty
      BY <2>1 DEF Goto, TypeInv, TypeOK
    <3>2. Listed(Empty) = {}
      BY DEF Listed, Empty
    <3> QED
      BY <3>1, <3>2 DEF RunOK, OnRecord, Ended
  <2>2. CASE ~(Goto(r, "columns") /\ files' = [files EXCEPT ![r] = Empty])
    BY <1>3, <2>2, NothingToShow DEF End, Goto, TypeInv, TypeOK
  <2> QED
    BY <2>1, <2>2
<1> QED
  BY <1>2, <1>4, <1>5, LocalStep

(* The steps before the work list exists.                                  *)
LEMMA PrepareStep ==
    ASSUME StepAssumption, NEW r \in Replica,
           EnsureTable(r) \/ EnsureTableFails(r) \/ ProbeTable(r) \/ FetchApplied(r)
    PROVE  OutcomeInv'
<1> USE DEF StepAssumption
<1>1. /\ UNCHANGED <<ledger, phase, rows, call, op, files>>
      /\ \A s \in Replica \ {r} :
            pc'[s] = pc[s] /\ todo'[s] = todo[s] /\ outcome'[s] = outcome[s]
  BY DEF EnsureTable, EnsureTableFails, ProbeTable, FetchApplied, End, Goto,
     dbVars, batchVars, TypeInv, TypeOK
<1>2. CASE FetchApplied(r) /\ Drifted(files[r]) = {}
  <2>1. pc'[r] = "loop" /\ todo'[r] = Listed(files[r]) \ Listed(ledger)
    BY <1>2 DEF FetchApplied, Goto, TypeInv, TypeOK
  <2>2. \A n \in Listed(files[r]) \cap Listed(ledger) : ledger[n] = files[r][n]
    BY <1>2 DEF Drifted, Listed
  <2>3. RunOK(r)'
    BY <1>1, <2>1, <2>2 DEF RunOK, OnRecord, Ended
  <2> QED
    BY <1>1, <2>3, LocalStep
<1>3. CASE ~(FetchApplied(r) /\ Drifted(files[r]) = {})
  <2>1. /\ pc'[r] \in {"idle", "fetch", "probe"}
        /\ pc'[r] = "idle" => outcome'[r].code # "ok"
    BY <1>3 DEF EnsureTable, EnsureTableFails, ProbeTable, FetchApplied, End,
       Goto, TypeInv, TypeOK
  <2> QED
    BY <1>1, <2>1, NothingToShow, LocalStep
<1> QED
  BY <1>2, <1>3

(* A run that fails, whatever it was doing.                                *)
LEMMA FailStep ==
    ASSUME StepAssumption, NEW r \in Replica,
           ReportFailure(r) \/ CallFails(r) \/ Timeout(r) \/ Crash(r)
    PROVE  OutcomeInv'
<1> USE DEF StepAssumption
<1>1. /\ UNCHANGED <<ledger, phase, rows, op>>
      /\ call' = call \/ call' = [call EXCEPT ![r] = None]
      /\ \A s \in Replica \ {r} :
            files'[s] = files[s] /\ todo'[s] = todo[s]
  BY DEF ReportFailure, CallFails, Timeout, Crash, dbVars, batchVars, TypeInv, TypeOK
<1>2. \E code \in ErrorCode \cup {"none"} : \E n : End(r, code, n)
  BY DEF ReportFailure, CallFails, Timeout, Crash, ErrorCode
<1>3. /\ \A s \in Replica \ {r} : pc'[s] = pc[s] /\ outcome'[s] = outcome[s]
      /\ pc'[r] = "idle" /\ outcome'[r].code # "ok"
  BY <1>2 DEF End, ErrorCode, TypeInv, TypeOK
<1> QED
  BY <1>1, <1>3, NothingToShow, LocalStep
(* The end of the work list and the code generation after it.              *)
LEMMA FinishStep ==
    ASSUME StepAssumption, NEW r \in Replica,
           Finish(r) \/ ReadColumns(r) \/ ReadEnums(r) \/ WriteTypes(r) \/ CodegenFails(r)
    PROVE  OutcomeInv'
<1> USE DEF StepAssumption
<1>1. UNCHANGED <<ledger, phase, rows, call, op, files, todo>>
  BY DEF Finish, ReadColumns, ReadEnums, WriteTypes, CodegenFails, dbVars, batchVars
<1>2. /\ pc[r] \in {"columns", "enums", "write"} \/ (pc[r] = "loop" /\ todo[r] = {})
      /\ pc'[r] \in {"columns", "enums", "write", "idle"}
      /\ \A s \in Replica \ {r} : pc'[s] = pc[s] /\ outcome'[s] = outcome[s]
  <2>1. pc[r] \in {"columns", "enums", "write"} \/ (pc[r] = "loop" /\ todo[r] = {})
    BY DEF Finish, ReadColumns, ReadEnums, WriteTypes, CodegenFails
  <2>2. \/ \E code \in {"ok", "CONFIG_ERROR", "DATABASE_WORKER_UNAVAILABLE"} :
              End(r, code, None)
        \/ \E where \in {"columns", "enums", "write"} : Goto(r, where)
    <3>1. CASE Finish(r)
      BY <3>1 DEF Finish
    <3>2. CASE ReadColumns(r) \/ ReadEnums(r)
      BY <3>2 DEF ReadColumns, ReadEnums
    <3>3. CASE WriteTypes(r)
      BY <3>3 DEF WriteTypes
    <3>4. CASE CodegenFails(r)
      BY <3>4 DEF CodegenFails
    <3> QED
      BY <3>1, <3>2, <3>3, <3>4
  <2>3. CASE \E code \in {"ok", "CONFIG_ERROR", "DATABASE_WORKER_UNAVAILABLE"} :
                End(r, code, None)
    BY <2>1, <2>3 DEF End, TypeInv, TypeOK
  <2>4. CASE \E where \in {"columns", "enums", "write"} : Goto(r, where)
    BY <2>1, <2>4 DEF Goto, TypeInv, TypeOK
  <2> QED
    BY <2>2, <2>3, <2>4
<1>3. \A n \in Listed(files[r]) : ledger[n] = files[r][n]
  BY <1>2 DEF OutcomeInv, RunOK, OnRecord
<1>4. RunOK(r)'
  BY <1>1, <1>2, <1>3 DEF RunOK, OnRecord
<1> QED
  BY <1>1, <1>2, <1>4, LocalStep

(* A lost race is a skip because the table shows our own checksums.        *)
LEMMA AlreadyRecordedStep ==
    ASSUME StepAssumption, NEW r \in Replica, AlreadyRecorded(r)
    PROVE  OutcomeInv'
<1> USE DEF StepAssumption
<1>1. /\ UNCHANGED <<ledger, phase, rows, call, op, files, outcome>>
      /\ pc'[r] = "loop" /\ todo'[r] = todo[r] \ InBatch(r)
      /\ \A s \in Replica \ {r} : pc'[s] = pc[s] /\ todo'[s] = todo[s]
  BY DEF AlreadyRecorded, Goto, dbVars, batchVars, TypeInv, TypeOK
<1>2. /\ todo[r] \subseteq Listed(files[r])
      /\ \A n \in Listed(files[r]) \ todo[r] : ledger[n] = files[r][n]
      /\ \A n \in InBatch(r) : ledger[n] = files[r][n]
  BY DEF AlreadyRecorded, OutcomeInv, RunOK, OnRecord
<1>3. RunOK(r)'
  BY <1>1, <1>2 DEF RunOK, OnRecord, Ended
<1> QED
  BY <1>1, <1>3, LocalStep

LEMMA ApplyNextStep ==
    ASSUME StepAssumption, NEW r \in Replica, ApplyNext(r)
    PROVE  OutcomeInv'
<1> USE DEF StepAssumption
<1> DEFINE n == Lowest(todo[r])
           c == dir[Home[r]][n]
<1>1. /\ pc[r] = "loop" /\ op[r] = "up" /\ todo[r] # {}
      /\ UNCHANGED <<ledger, op, todo>>
  BY DEF ApplyNext, dbVars
<1>2. n \in todo[r] /\ n \in Name
  BY <1>1, LowestIsElement DEF TypeInv, TypeOK
<1>3. /\ todo[r] \subseteq Listed(files[r])
      /\ call[r] = None
  BY <1>1 DEF OutcomeInv, RunOK, TypeInv, WorkInv
<1>4. files' = files \/ files' = [files EXCEPT ![r][n] = c]
  BY DEF ApplyNext
<1>5. \A s \in Replica \ {r} : files'[s] = files[s]
  BY <1>4 DEF TypeInv, TypeOK
<1>6. CASE c = None \/ c \in Unsplittable
  <2>1. End(r, "CONFIG_ERROR", n) \/ End(r, "MIGRATION_FAILED", n)
    BY <1>6 DEF ApplyNext
  <2>2. /\ pc'[r] = "idle" /\ outcome'[r].code # "ok"
        /\ \A s \in Replica \ {r} : pc'[s] = pc[s] /\ outcome'[s] = outcome[s]
    BY <2>1 DEF End, TypeInv, TypeOK
  <2>3. UNCHANGED <<phase, rows, call>>
    BY <1>6 DEF ApplyNext, batchVars
  <2> QED
    BY <1>1, <1>5, <2>2, <2>3, NothingToShow, LocalStep
<1>7. CASE ~(c = None \/ c \in Unsplittable)
  <2>1. /\ files' = [files EXCEPT ![r][n] = c]
        /\ Send(r, c, Selected(files'[r], {n}))
    BY <1>7 DEF ApplyNext
  <2> HIDE DEF c
  <2>2. /\ files'[r][n] = c
        /\ \A m \in Name \ {n} : files'[r][m] = files[r][m]
    BY <1>2, <2>1 DEF TypeInv, TypeOK, Table
  <2>3. Listed(files'[r]) = Listed(files[r])
    BY <1>2, <1>3, <1>7, <2>2 DEF Listed
  <2>4. \A m \in Listed(files[r]) \ todo[r] : files'[r][m] = files[r][m]
    BY <1>2, <2>2 DEF Listed
  <2>5. \A m \in InBatch(r) : Selected(files'[r], {n})[m] = files'[r][m]
    BY <1>1, <1>2 DEF InBatch, Selected
  <2>6. /\ call[r] = None /\ pc[r] = "loop" /\ todo[r] \subseteq Listed(files[r])
        /\ Send(r, c, Selected(files'[r], {n}))
        /\ UNCHANGED <<ledger, op, todo>>
    BY <1>1, <1>3, <2>1
  <2> HIDE DEF n
  <2> QED
    BY <1>5, <2>3, <2>4, <2>5, <2>6, SendStep
<1> QED
  BY <1>6, <1>7

LEMMA RecordAllStep ==
    ASSUME StepAssumption, NEW r \in Replica, RecordAll(r)
    PROVE  OutcomeInv'
<1> USE DEF StepAssumption
<1>1. /\ pc[r] = "loop" /\ op[r] = "baseline"
      /\ Send(r, None, Selected(files[r], todo[r]))
      /\ UNCHANGED <<ledger, op, todo, files>>
  BY DEF RecordAll, dbVars
<1>2. /\ todo[r] \subseteq Listed(files[r])
      /\ call[r] = None
  BY <1>1 DEF OutcomeInv, RunOK, TypeInv, WorkInv
<1>3. \A m \in InBatch(r) : Selected(files[r], todo[r])[m] = files'[r][m]
  BY <1>1, <1>2 DEF InBatch, Selected, Listed
<1> QED
  BY <1>1, <1>2, <1>3, SendStep

(* A committed batch put on record what its caller read; a failed one      *)
(* leaves the caller with the same work.                                   *)
LEMMA ReplyStep ==
    ASSUME StepAssumption, NEW r \in Replica, BatchSucceeded(r) \/ BatchFailed(r)
    PROVE  OutcomeInv'
<1> USE DEF StepAssumption
<1>1. /\ pc[r] = "await" /\ call[r] \in Batch
      /\ UNCHANGED <<ledger, op, files, outcome>>
      /\ \A s \in Replica \ {r} : pc'[s] = pc[s] /\ todo'[s] = todo[s]
  BY DEF BatchSucceeded, BatchFailed, Receive, Goto, dbVars, TypeInv, TypeOK, WorkInv
<1>2. /\ todo[r] \subseteq Listed(files[r]) /\ todo[r] # {}
      /\ \A n \in Listed(files[r]) \ todo[r] : ledger[n] = files[r][n]
      /\ \A n \in InBatch(r) : rows[call[r]][n] = files[r][n]
  BY <1>1 DEF OutcomeInv, RunOK, OnRecord, TypeInv, WorkInv
<1>3. CASE BatchSucceeded(r)
  <2>1. Receive(r, "committed") /\ phase[call[r]] = "committed"
    BY <1>3 DEF BatchSucceeded, Receive
  <2>2. pc'[r] = "loop" /\ todo'[r] = todo[r] \ InBatch(r)
    BY <1>3 DEF BatchSucceeded, Goto, TypeInv, TypeOK
  <2>3. \A n \in InBatch(r) : n \in Name /\ n \in Listed(files[r])
    BY <1>2, InBatchType DEF TypeInv
  <2>4. \A n \in InBatch(r) : ledger[n] = files[r][n]
    BY <1>1, <1>2, <2>1, <2>3 DEF OutcomeInv, CommittedOnRecord, OnRecord, Listed
  <2>5. RunOK(r)'
    BY <1>1, <1>2, <2>2, <2>4 DEF RunOK, OnRecord, Ended
  <2> QED
    BY <1>1, <2>1, <2>5, ReceiveStep
<1>4. CASE BatchFailed(r)
  <2>1. Receive(r, "failed")
    BY <1>4 DEF BatchFailed
  <2>2. pc'[r] = "classify" /\ todo'[r] = todo[r]
    BY <1>4 DEF BatchFailed, Goto, TypeInv, TypeOK
  <2>3. RunOK(r)'
    BY <1>1, <1>2, <2>2 DEF RunOK, OnRecord, Ended
  <2> QED
    BY <1>1, <2>1, <2>3, ReceiveStep
<1> QED
  BY <1>3, <1>4

LEMMA DatabaseStepKeeps ==
    ASSUME StepAssumption, NEW b \in Batch, DatabaseStep(b)
    PROVE  OutcomeInv'
<1> USE DEF StepAssumption
<1>1. UNCHANGED <<pc, op, files, todo, call, outcome>>
  BY DEF DatabaseStep, BeginBatch, CommitBatch, RollBackBatch, DropBatch, runVars
<1>2. /\ \A o \in Batch \ {b} : phase'[o] = phase[o] /\ rows'[o] = rows[o]
      /\ DropBatch(b) \/ (phase'[b] # "free" /\ rows'[b] = rows[b])
  BY DEF DatabaseStep, BeginBatch, CommitBatch, RollBackBatch, DropBatch,
     TypeInv, TypeOK
<1>3. \A s \in Replica : call[s] # None =>
          phase'[call[s]] # "free" /\ rows'[call[s]] = rows[call[s]]
  BY <1>2, CallerOfBatch DEF DropBatch, Awaited
<1>4. \A o \in Batch : phase'[o] = "committed" =>
          \A n \in Listed(rows'[o]) : ledger'[n] = rows'[o][n]
  <2>1. ASSUME NEW o \in Batch, phase[o] = "committed", NEW n \in Listed(rows[o])
        PROVE  ledger'[n] = rows[o][n]
    <3>1. n \in Name /\ ledger[n] = rows[o][n] /\ ledger[n] # None
      BY <2>1 DEF OutcomeInv, CommittedOnRecord, OnRecord, Listed
    <3> QED
      BY <3>1, RowsStay DEF TypeInv
  <2>2. ASSUME CommitBatch(b), NEW n \in Listed(rows[b])
        PROVE  ledger'[n] = rows[b][n]
    BY <2>2 DEF CommitBatch, Merge, Listed
  <2>3. phase'[b] = "committed" => CommitBatch(b) /\ rows'[b] = rows[b]
    BY DEF DatabaseStep, BeginBatch, CommitBatch, RollBackBatch, DropBatch,
       TypeInv, TypeOK
  <2> QED
    BY <1>2, <2>1, <2>2, <2>3
<1>5. CommittedOnRecord'
  BY <1>4 DEF CommittedOnRecord, OnRecord
<1> QED
  BY <1>1, <1>3, <1>5, BatchStep

LEMMA OutcomeInvStep == StepAssumption => OutcomeInv'
<1> SUFFICES ASSUME StepAssumption PROVE OutcomeInv'
  OBVIOUS
<1>1. ASSUME NEW r \in Replica, Progress(r) PROVE OutcomeInv'
  BY <1>1, PrepareStep, ApplyNextStep, RecordAllStep, FinishStep, ReplyStep,
     AlreadyRecordedStep, FailStep DEF Progress
<1>2. CASE (\E k \in Checkout : Edit(k)) \/ Quiescent \/ UNCHANGED vars
  <2>1. UNCHANGED <<pc, op, files, todo, call, outcome, ledger, phase, rows>>
    BY <1>2 DEF Edit, Quiescent, vars, dbVars, batchVars, runVars
  <2>2. \A s \in Replica : call[s] # None =>
            phase'[call[s]] # "free" /\ rows'[call[s]] = rows[call[s]]
    BY <2>1, CallerOfBatch DEF StepAssumption
  <2>3. CommittedOnRecord'
    BY <2>1 DEF StepAssumption, OutcomeInv, CommittedOnRecord, OnRecord, Listed
  <2> QED
    BY <2>1, <2>2, <2>3, BatchStep
<1> QED
  BY <1>1, <1>2, RequestStep, FailStep, DatabaseStepKeeps DEF StepAssumption, Next

(* A run that answers "ok" leaves every file it listed on record with the  *)
(* content it read (run up_edits).                                         *)
THEOREM SuccessIsOnRecord == Spec => []SuccessMeansRecorded
<1>1. Init => TypeInv /\ BatchInv /\ OutcomeInv
  BY TypeInvInit, OutcomeInvInit DEF Init, BatchInv
<1>2. (TypeInv /\ BatchInv /\ OutcomeInv) /\ [Next]_vars
      => (TypeInv /\ BatchInv /\ OutcomeInv)'
  BY TypeInvStep, BatchInvStep, OutcomeInvStep DEF StepAssumption
<1>3. OutcomeInv => SuccessMeansRecorded
  BY DEF OutcomeInv, RunOK, OnRecord, SuccessMeansRecorded
<1> QED
  BY <1>1, <1>2, <1>3, PTL DEF Spec

(***************************************************************************)
(* What a run tells its caller about files and failures: an answer "ok"    *)
(* accounts for every file once, a mismatch is real and never an artefact  *)
(* of racing replicas, and up reports an unavailable database worker only  *)
(* when a call did fail.                                                   *)
(***************************************************************************)

(* What has been shown so far.                                             *)
LEMMA Invariants == Spec => [](TypeInv /\ BatchInv /\ OutcomeInv)
<1>1. Init => TypeInv /\ BatchInv /\ OutcomeInv
  BY TypeInvInit, OutcomeInvInit DEF Init, BatchInv
<1>2. (TypeInv /\ BatchInv /\ OutcomeInv) /\ [Next]_vars
      => (TypeInv /\ BatchInv /\ OutcomeInv)'
  BY TypeInvStep, BatchInvStep, OutcomeInvStep DEF StepAssumption
<1> QED
  BY <1>1, <1>2, PTL DEF Spec

(***************************************************************************)
(* Whose step it is                                                        *)
(***************************************************************************)

(* The run of `s` is as it was. *)
Undisturbed(s) ==
    /\ pc'[s] = pc[s] /\ op'[s] = op[s] /\ files'[s] = files[s]
    /\ todo'[s] = todo[s] /\ call'[s] = call[s]
    /\ applied'[s] = applied[s] /\ skipped'[s] = skipped[s]
    /\ snap'[s] = snap[s] /\ outcome'[s] = outcome[s]

(* A replica changes its own run only. *)
LEMMA OthersStay ==
    ASSUME TypeInv, NEW r \in Replica, Request(r) \/ Progress(r) \/ Crash(r),
           NEW s \in Replica \ {r}
    PROVE  Undisturbed(s)
<1> USE DEF TypeInv, TypeOK, Undisturbed, End, Goto
<1>1. CASE Request(r)
  BY <1>1 DEF Request, Up, Baseline, Codegen, Invoke
<1>2. CASE Crash(r)
  BY <1>2 DEF Crash
<1>3. CASE EnsureTable(r) \/ EnsureTableFails(r) \/ ProbeTable(r) \/ FetchApplied(r)
  BY <1>3 DEF EnsureTable, EnsureTableFails, ProbeTable, FetchApplied
<1>4. CASE ApplyNext(r)
  BY <1>4 DEF ApplyNext, Send
<1>5. CASE RecordAll(r) \/ Finish(r)
  BY <1>5 DEF RecordAll, Send, Finish
<1>6. CASE BatchSucceeded(r) \/ BatchFailed(r)
  BY <1>6 DEF BatchSucceeded, BatchFailed, Receive
<1>7. CASE AlreadyRecorded(r) \/ ReportFailure(r) \/ CallFails(r) \/ Timeout(r)
  BY <1>7 DEF AlreadyRecorded, ReportFailure, CallFails, Timeout
<1>8. CASE ReadColumns(r) \/ ReadEnums(r) \/ WriteTypes(r) \/ CodegenFails(r)
  BY <1>8 DEF ReadColumns, ReadEnums, WriteTypes, CodegenFails
<1> QED
  BY <1>1, <1>2, <1>3, <1>4, <1>5, <1>6, <1>7, <1>8 DEF Progress

(* So a run changes by a step of its replica only. *)
LEMMA RunMoves ==
    ASSUME TypeInv, [Next]_vars, NEW r \in Replica
    PROVE  Undisturbed(r) \/ Request(r) \/ Progress(r) \/ Crash(r)
<1>1. ASSUME NEW b \in Batch, DatabaseStep(b) PROVE Undisturbed(r)
  BY <1>1 DEF DatabaseStep, BeginBatch, CommitBatch, RollBackBatch, DropBatch,
     runVars, Undisturbed
<1>2. CASE (\E k \in Checkout : Edit(k)) \/ Quiescent \/ UNCHANGED vars
  BY <1>2 DEF Edit, Quiescent, vars, runVars, Undisturbed
<1> QED
  BY <1>1, <1>2, OthersStay DEF Next

(* Every step spends one fault at most. *)
LEMMA SpendsOne ==
    ASSUME [Next]_vars
    PROVE  UNCHANGED spent \/ \E k \in FaultKind : Spend(k)
<1>1. ASSUME NEW r \in Replica, Progress(r)
      PROVE  UNCHANGED spent \/ \E k \in FaultKind : Spend(k)
  <2>1. CASE \/ EnsureTable(r) \/ EnsureTableFails(r) \/ ProbeTable(r)
             \/ FetchApplied(r) \/ ApplyNext(r) \/ RecordAll(r) \/ Finish(r)
    BY <2>1 DEF EnsureTable, EnsureTableFails, ProbeTable, FetchApplied,
       ApplyNext, RecordAll, Finish, FaultKind
  <2>2. CASE \/ BatchSucceeded(r) \/ BatchFailed(r) \/ AlreadyRecorded(r)
             \/ ReportFailure(r) \/ CallFails(r) \/ Timeout(r)
    BY <2>2 DEF BatchSucceeded, BatchFailed, AlreadyRecorded, ReportFailure,
       CallFails, Timeout, FaultKind
  <2>3. CASE ReadColumns(r) \/ ReadEnums(r) \/ WriteTypes(r) \/ CodegenFails(r)
    BY <2>3 DEF ReadColumns, ReadEnums, WriteTypes, CodegenFails, FaultKind
  <2> QED
    BY <1>1, <2>1, <2>2, <2>3 DEF Progress
<1>2. ASSUME NEW r \in Replica, Request(r) \/ Crash(r)
      PROVE  UNCHANGED spent \/ \E k \in FaultKind : Spend(k)
  BY <1>2 DEF Request, Up, Baseline, Codegen, Invoke, Crash, FaultKind
<1>3. ASSUME NEW b \in Batch, DatabaseStep(b)
      PROVE  UNCHANGED spent \/ \E k \in FaultKind : Spend(k)
  BY <1>3 DEF DatabaseStep, BeginBatch, CommitBatch, RollBackBatch, DropBatch,
     FaultKind
<1>4. CASE (\E k \in Checkout : Edit(k)) \/ Quiescent \/ UNCHANGED vars
  BY <1>4 DEF Edit, Quiescent, vars, FaultKind
<1> QED
  BY <1>1, <1>2, <1>3, <1>4 DEF Next

(* A fault that has not happened had not happened before. *)
LEMMA SpentGrows ==
    ASSUME TypeOK, [Next]_vars, NEW k \in FaultKind, spent'[k] = 0
    PROVE  spent[k] = 0 /\ ~Spend(k)
<1>1. /\ spent[k] \in Nat
      /\ \A j \in FaultKind : Spend(j) => spent' = [spent EXCEPT ![j] = spent[j] + 1]
  BY DEF TypeOK, Spend
<1>2. ~Spend(k)
  BY <1>1 DEF TypeOK
<1>3. ASSUME NEW j \in FaultKind \ {k}, Spend(j) PROVE spent[k] = 0
  BY <1>1, <1>3 DEF TypeOK
<1> QED
  BY <1>2, <1>3, SpendsOne

(* Nobody but an author changes a directory. *)
LEMMA DirStays ==
    ASSUME TypeOK, [Next]_vars, spent'["edit"] = 0
    PROVE  spent["edit"] = 0 /\ dir' = dir
<1>1. spent["edit"] = 0 /\ ~Spend("edit")
  BY SpentGrows DEF FaultKind
<1>2. ASSUME NEW r \in Replica, Progress(r) PROVE dir' = dir
  <2>1. CASE \/ EnsureTable(r) \/ EnsureTableFails(r) \/ ProbeTable(r)
             \/ FetchApplied(r) \/ ApplyNext(r) \/ RecordAll(r) \/ Finish(r)
    BY <2>1 DEF EnsureTable, EnsureTableFails, ProbeTable, FetchApplied,
       ApplyNext, RecordAll, Finish
  <2>2. CASE \/ BatchSucceeded(r) \/ BatchFailed(r) \/ AlreadyRecorded(r)
             \/ ReportFailure(r) \/ CallFails(r) \/ Timeout(r)
    BY <2>2 DEF BatchSucceeded, BatchFailed, AlreadyRecorded, ReportFailure,
       CallFails, Timeout
  <2>3. CASE ReadColumns(r) \/ ReadEnums(r) \/ WriteTypes(r) \/ CodegenFails(r)
    BY <2>3 DEF ReadColumns, ReadEnums, WriteTypes, CodegenFails
  <2> QED
    BY <1>2, <2>1, <2>2, <2>3 DEF Progress
<1>3. ASSUME NEW r \in Replica, Request(r) \/ Crash(r) PROVE dir' = dir
  BY <1>3 DEF Request, Up, Baseline, Codegen, Invoke, Crash
<1>4. ASSUME NEW b \in Batch, DatabaseStep(b) PROVE dir' = dir
  BY <1>4 DEF DatabaseStep, BeginBatch, CommitBatch, RollBackBatch, DropBatch
<1>5. CASE (\E k \in Checkout : Edit(k)) \/ Quiescent \/ UNCHANGED vars
  BY <1>1, <1>5 DEF Edit, Quiescent, vars
<1> QED
  BY <1>1, <1>2, <1>3, <1>4, <1>5 DEF Next

(* A turn of the loop of up fails, or re-reads the next file, which stays  *)
(* on the listing, and sends it.                                           *)
LEMMA ApplyNextEffect ==
    ASSUME TypeInv, OutcomeInv, NEW r \in Replica, ApplyNext(r),
           NEW n, n = Lowest(todo[r]), NEW c, c = dir[Home[r]][n]
    PROVE  /\ n \in todo[r] /\ n \in Name
           /\ \/ /\ c = None
                 /\ pc'[r] = "idle" /\ outcome'[r].code = "CONFIG_ERROR"
                 /\ UNCHANGED <<files, batchVars, call>>
              \/ /\ c \in Unsplittable
                 /\ pc'[r] = "idle" /\ outcome'[r] = [code |-> "MIGRATION_FAILED", name |-> n]
                 /\ files'[r][n] = c
                 /\ Listed(files'[r]) = Listed(files[r])
                 /\ UNCHANGED <<batchVars, call>>
              \/ /\ c \in Content
                 /\ pc'[r] = "await"
                 /\ files'[r][n] = c
                 /\ \A m \in Name \ {n} : files'[r][m] = files[r][m]
                 /\ Listed(files'[r]) = Listed(files[r])
                 /\ Send(r, c, Selected(files'[r], {n}))
<1> USE DEF TypeInv
<1>1. n \in todo[r] /\ n \in Name
  BY LowestIsElement DEF ApplyNext, TypeOK
<1>2. c \in Row
  BY <1>1, HomeAssumption DEF TypeOK, Table
<1>3. n \in Listed(files[r])
  BY <1>1 DEF ApplyNext, OutcomeInv, RunOK
<1>4. CASE c = None
  BY <1>1, <1>4 DEF ApplyNext, End, TypeOK
<1>5. c # None => files'[r][n] = c /\ \A m \in Name \ {n} : files'[r][m] = files[r][m]
  <2>1. c # None => files' = [files EXCEPT ![r][n] = c]
    BY DEF ApplyNext
  <2> QED
    BY <1>1, <2>1 DEF TypeOK, Table
<1>6. CASE c # None /\ c \in Unsplittable
  <2>1. Listed(files'[r]) = Listed(files[r])
    BY <1>3, <1>5, <1>6 DEF Listed
  <2> QED
    BY <1>1, <1>5, <1>6, <2>1 DEF ApplyNext, End, TypeOK
<1>7. CASE c # None /\ c \notin Unsplittable
  <2>1. Send(r, c, Selected(files'[r], {n}))
    BY <1>7 DEF ApplyNext
  <2>2. pc'[r] = "await"
    BY <2>1 DEF Send, Goto, TypeOK
  <2>3. Listed(files'[r]) = Listed(files[r])
    BY <1>3, <1>5, <1>7 DEF Listed
  <2>4. c \in Content
    BY <1>2, <1>7 DEF Row
  <2> QED
    BY <1>1, <1>5, <1>7, <2>1, <2>2, <2>3, <2>4
<1> QED
  BY <1>4, <1>6, <1>7

LEMMA ApplyNextOutcome ==
    ASSUME TypeInv, OutcomeInv, NEW r \in Replica, ApplyNext(r)
    PROVE  \/ pc'[r] = "idle" /\ outcome'[r].code \in {"CONFIG_ERROR", "MIGRATION_FAILED"}
           \/ pc'[r] = "await" /\ Listed(files'[r]) = Listed(files[r])
<1>1. PICK n : n = Lowest(todo[r])
  OBVIOUS
<1>2. PICK c : c = dir[Home[r]][n]
  OBVIOUS
<1>3. \/ pc'[r] = "idle" /\ outcome'[r].code = "CONFIG_ERROR"
      \/ pc'[r] = "idle" /\ outcome'[r] = [code |-> "MIGRATION_FAILED", name |-> n]
      \/ pc'[r] = "await" /\ Listed(files'[r]) = Listed(files[r])
  BY <1>1, <1>2, ApplyNextEffect, Zenon
<1> QED
  BY <1>3

LEMMA ApplyNextSends ==
    ASSUME TypeInv, OutcomeInv, NEW r \in Replica, ApplyNext(r), pc'[r] = "await",
           NEW n, n = Lowest(todo[r]), NEW c, c = dir[Home[r]][n]
    PROVE  /\ n \in todo[r] /\ n \in Name /\ c \in Content
           /\ files'[r][n] = c
           /\ Send(r, c, Selected(files'[r], {n}))
<1> USE DEF TypeInv
<1>1. n \in todo[r] /\ n \in Name
  BY LowestIsElement DEF ApplyNext, TypeOK
<1>2. c # None /\ c \notin Unsplittable
  BY DEF ApplyNext, End, TypeOK
<1>3. c \in Content
  BY <1>1, <1>2, HomeAssumption DEF TypeOK, Table, Row
<1>4. Send(r, c, Selected(files'[r], {n})) /\ files' = [files EXCEPT ![r][n] = c]
  BY <1>2 DEF ApplyNext
<1>5. files'[r][n] = c
  BY <1>1, <1>4 DEF TypeOK, Table
<1> QED
  BY <1>1, <1>3, <1>4, <1>5

(***************************************************************************)
(* Every file is accounted for                                             *)
(***************************************************************************)

(* Applied and skipped files are apart, and with the work list they make   *)
(* up the listing.                                                         *)
Accounted(r) ==
    /\ pc[r] \in {"ensure", "probe", "fetch"} => applied[r] = {}
    /\ pc[r] \in {"loop", "await", "classify"} =>
           /\ Listed(files[r]) \subseteq applied[r] \cup skipped[r] \cup todo[r]
           /\ applied[r] \cap skipped[r] = {}
           /\ todo[r] \cap (applied[r] \cup skipped[r]) = {}
    /\ pc[r] \in {"columns", "enums", "write"} \/ Ended(r, "ok") =>
           /\ Listed(files[r]) \subseteq applied[r] \cup skipped[r]
           /\ applied[r] \cap skipped[r] = {}

(* The request and the steps up to the work list.                          *)
LEMMA AccountedStart ==
    ASSUME TypeInv, NEW r \in Replica, Accounted(r),
           \/ Request(r) \/ EnsureTable(r) \/ EnsureTableFails(r)
           \/ ProbeTable(r) \/ FetchApplied(r)
    PROVE  Accounted(r)'
<1> USE DEF TypeInv, TypeOK
<1>1. CASE Up(r) \/ (\E T \in BaselineNames : Baseline(r, T))
  <2>1. applied'[r] = {}
    BY <1>1 DEF Up, Baseline, Invoke
  <2>2. \/ pc'[r] = "ensure"
        \/ pc'[r] = "idle" /\ outcome'[r].code # "ok"
    BY <1>1 DEF Up, Baseline, End, Goto
  <2> QED
    BY <2>1, <2>2 DEF Accounted, Ended
<1>2. CASE Codegen(r)
  <2>1. /\ applied'[r] = {} /\ skipped'[r] = {} /\ files'[r] = Empty
        /\ pc'[r] = "columns"
    BY <1>2 DEF Codegen, Invoke, Goto
  <2>2. Listed(Empty) = {}
    BY DEF Listed, Empty
  <2> QED
    BY <2>1, <2>2 DEF Accounted, Ended
<1>3. CASE EnsureTable(r) \/ EnsureTableFails(r) \/ ProbeTable(r)
  BY <1>3 DEF EnsureTable, EnsureTableFails, ProbeTable, Goto, End, Accounted, Ended
<1>4. CASE FetchApplied(r) /\ Drifted(files[r]) # {}
  BY <1>4 DEF FetchApplied, End, Accounted, Ended
<1>5. CASE FetchApplied(r) /\ Drifted(files[r]) = {}
  <2>1. /\ applied'[r] = {} /\ files'[r] = files[r] /\ pc'[r] = "loop"
        /\ todo'[r] = Listed(files[r]) \ Listed(ledger)
        /\ \/ skipped'[r] = Listed(ledger)
           \/ skipped'[r] = Listed(files[r]) \cap Listed(ledger)
    BY <1>5 DEF FetchApplied, Goto, Accounted
  <2> QED
    BY <2>1 DEF Accounted, Ended
<1> QED
  BY <1>1, <1>2, <1>3, <1>4, <1>5 DEF Request

(* The loop: a file leaves the work list for one of the two sets.          *)
LEMMA AccountedLoop ==
    ASSUME TypeInv, OutcomeInv, NEW r \in Replica, Accounted(r),
           \/ ApplyNext(r) \/ RecordAll(r) \/ Finish(r)
           \/ BatchSucceeded(r) \/ BatchFailed(r) \/ AlreadyRecorded(r)
    PROVE  Accounted(r)'
<1> USE DEF TypeInv, TypeOK
<1>1. CASE ApplyNext(r)
  <2>1. UNCHANGED <<todo, applied, skipped>> /\ pc[r] = "loop"
    BY <1>1 DEF ApplyNext
  <2>2. \/ pc'[r] = "idle" /\ outcome'[r].code # "ok"
        \/ pc'[r] = "await" /\ Listed(files'[r]) = Listed(files[r])
    BY <1>1, ApplyNextOutcome
  <2> QED
    BY <2>1, <2>2 DEF Accounted, Ended
<1>2. CASE RecordAll(r)
  BY <1>2, ZenonT(60) DEF RecordAll, Send, Goto, Accounted, Ended
<1>3. CASE Finish(r)
  BY <1>3 DEF Finish, Goto, End, Accounted, Ended
<1>4. CASE BatchSucceeded(r)
  <2>1. /\ pc[r] = "await" /\ pc'[r] = "loop" /\ todo[r] # {}
        /\ UNCHANGED <<files, skipped>>
        /\ applied'[r] = applied[r] \cup InBatch(r)
        /\ todo'[r] = todo[r] \ InBatch(r)
    BY <1>4 DEF BatchSucceeded, Receive, Goto, WorkInv
  <2>2. InBatch(r) \subseteq todo[r]
    BY <2>1, InBatchType
  <2> QED
    BY <2>1, <2>2 DEF Accounted, Ended
<1>5. CASE BatchFailed(r)
  BY <1>5 DEF BatchFailed, Receive, Goto, Accounted, Ended
<1>6. CASE AlreadyRecorded(r)
  <2>1. /\ pc[r] = "classify" /\ pc'[r] = "loop" /\ todo[r] # {}
        /\ UNCHANGED <<files, applied>>
        /\ skipped'[r] = skipped[r] \cup InBatch(r)
        /\ todo'[r] = todo[r] \ InBatch(r)
    BY <1>6 DEF AlreadyRecorded, Goto, WorkInv
  <2>2. InBatch(r) \subseteq todo[r]
    BY <2>1, InBatchType
  <2> QED
    BY <2>1, <2>2 DEF Accounted, Ended
<1> QED
  BY <1>1, <1>2, <1>3, <1>4, <1>5, <1>6

(* Code generation keeps the account, and failures have none.              *)
LEMMA AccountedEnd ==
    ASSUME TypeInv, NEW r \in Replica, Accounted(r),
           \/ ReadColumns(r) \/ ReadEnums(r) \/ WriteTypes(r) \/ CodegenFails(r)
           \/ ReportFailure(r) \/ CallFails(r) \/ Timeout(r) \/ Crash(r)
    PROVE  Accounted(r)'
<1> USE DEF TypeInv, TypeOK
<1>1. CASE ReadColumns(r) \/ ReadEnums(r) \/ WriteTypes(r) \/ CodegenFails(r)
  BY <1>1 DEF ReadColumns, ReadEnums, WriteTypes, CodegenFails, Goto, End,
     Accounted, Ended
<1>2. CASE ReportFailure(r) \/ CallFails(r) \/ Timeout(r) \/ Crash(r)
  <2>1. pc'[r] = "idle" /\ outcome'[r].code # "ok"
    BY <1>2 DEF ReportFailure, CallFails, Timeout, Crash, End
  <2> QED
    BY <2>1 DEF Accounted, Ended
<1> QED
  BY <1>1, <1>2

(* An answer "ok" accounts for every listed file exactly once (run         *)
(* up_edits).                                                              *)
THEOREM FilesAccounted == Spec => []EveryFileAccounted
<1> DEFINE Inv == \A r \in Replica : Accounted(r)
<1>1. Init => Inv
  BY DEF Init, Accounted, Ended
<1>2. TypeInv /\ OutcomeInv /\ Inv /\ [Next]_vars => Inv'
  <2> SUFFICES ASSUME TypeInv, OutcomeInv, Inv, [Next]_vars, NEW r \in Replica
               PROVE  Accounted(r)'
    OBVIOUS
  <2>1. CASE Undisturbed(r)
    BY <2>1 DEF Undisturbed, Accounted, Ended
  <2> QED
    BY <2>1, RunMoves, AccountedStart, AccountedLoop, AccountedEnd DEF Progress
<1>3. Inv => EveryFileAccounted
  BY DEF Accounted, EveryFileAccounted
<1> QED
  BY <1>1, <1>2, <1>3, Invariants, PTL DEF Spec

(***************************************************************************)
(* A mismatch is real                                                      *)
(***************************************************************************)

(* The file of a reported mismatch was listed and has a row, which is not  *)
(* what was read.                                                          *)
MismatchSeen(r) ==
    Ended(r, "CHECKSUM_MISMATCH") =>
        /\ outcome[r].name \in Listed(files[r])
        /\ ledger[outcome[r].name] # None
        /\ ledger[outcome[r].name] # files[r][outcome[r].name]

(* Who reports a mismatch, and of which file. *)
LEMMA MismatchReported ==
    ASSUME TypeInv, OutcomeInv, NEW r \in Replica,
           Request(r) \/ Progress(r) \/ Crash(r), Ended(r, "CHECKSUM_MISMATCH")'
    PROVE  /\ UNCHANGED <<ledger, files>>
           /\ outcome'[r].name \in Listed(files[r])
           /\ ledger[outcome'[r].name] # None
           /\ ledger[outcome'[r].name] # files[r][outcome'[r].name]
<1> USE DEF TypeInv, TypeOK
<1>1. ~Request(r) /\ ~Crash(r)
  BY DEF Request, Up, Baseline, Codegen, Crash, Invoke, End, Goto, Ended
<1>2. ~(EnsureTable(r) \/ EnsureTableFails(r) \/ ProbeTable(r))
  BY DEF EnsureTable, EnsureTableFails, ProbeTable, End, Goto, Ended
<1>3. ~ApplyNext(r)
  BY ApplyNextOutcome DEF Ended
<1>4. ~(RecordAll(r) \/ Finish(r) \/ BatchSucceeded(r) \/ BatchFailed(r))
  BY DEF RecordAll, Send, Finish, BatchSucceeded, BatchFailed, End, Goto, Ended
<1>5. ~(AlreadyRecorded(r) \/ ReadColumns(r) \/ ReadEnums(r) \/ WriteTypes(r))
  BY DEF AlreadyRecorded, ReadColumns, ReadEnums, WriteTypes, End, Goto, Ended
<1>6. ~(CodegenFails(r) \/ CallFails(r) \/ Timeout(r))
  BY DEF CodegenFails, CallFails, Timeout, End, Ended
<1>7. CASE FetchApplied(r)
  <2>1. /\ Drifted(files[r]) # {}
        /\ outcome'[r].name = Lowest(Drifted(files[r]))
        /\ UNCHANGED <<ledger, files>>
    BY <1>7 DEF FetchApplied, End, Goto, Ended, dbVars
  <2>2. Drifted(files[r]) \subseteq Name
    BY DEF Drifted, Listed
  <2>3. Lowest(Drifted(files[r])) \in Drifted(files[r])
    BY <2>1, <2>2, LowestIsElement, Zenon
  <2> QED
    BY <2>1, <2>3 DEF Drifted
<1>8. CASE ReportFailure(r)
  <2>1. /\ Unrecorded(r) # {} /\ pc[r] = "classify"
        /\ ledger[Lowest(Unrecorded(r))] # None
        /\ outcome'[r].name = Lowest(Unrecorded(r))
        /\ UNCHANGED <<ledger, files>>
    BY <1>8 DEF ReportFailure, End, Ended, dbVars
  <2>2. InBatch(r) \subseteq todo[r] /\ InBatch(r) \subseteq Name
    BY <2>1, InBatchType DEF WorkInv
  <2>3. Lowest(Unrecorded(r)) \in Unrecorded(r)
    <3>1. Unrecorded(r) \subseteq Name
      BY <2>2 DEF Unrecorded
    <3> QED
      BY <2>1, <3>1, LowestIsElement, Zenon
  <2>4. todo[r] \subseteq Listed(files[r])
    BY <2>1 DEF OutcomeInv, RunOK
  <2> QED
    BY <2>1, <2>2, <2>3, <2>4 DEF Unrecorded
<1> QED
  BY <1>1, <1>2, <1>3, <1>4, <1>5, <1>6, <1>7, <1>8 DEF Progress

LEMMA MismatchesSeen == Spec => [](\A r \in Replica : MismatchSeen(r))
<1> DEFINE Inv == \A r \in Replica : MismatchSeen(r)
<1>1. Init => Inv
  BY DEF Init, MismatchSeen, Ended
<1>2. TypeInv /\ BatchInv /\ OutcomeInv /\ Inv /\ [Next]_vars => Inv'
  <2> SUFFICES ASSUME TypeInv, BatchInv, OutcomeInv, Inv, [Next]_vars, NEW r \in Replica
               PROVE  MismatchSeen(r)'
    OBVIOUS
  <2>1. CASE Undisturbed(r)
    <3>1. \A n \in Name : ledger[n] # None => ledger'[n] = ledger[n]
      BY RowsStay DEF TypeInv
    <3> QED
      BY <2>1, <3>1 DEF Undisturbed, MismatchSeen, Ended, Listed
  <2>2. CASE Request(r) \/ Progress(r) \/ Crash(r)
    BY <2>2, MismatchReported DEF MismatchSeen, Listed
  <2> QED
    BY <2>1, <2>2, RunMoves
<1> QED
  BY <1>1, <1>2, Invariants, PTL DEF Spec

(* A reported mismatch names a file that differs from its row, unless it   *)
(* was saved after the run had read it (run up_edits).                     *)
THEOREM MismatchesAreReal == Spec => []MismatchIsReal
<1>1. (\A r \in Replica : MismatchSeen(r)) => MismatchIsReal
  BY DEF MismatchSeen, MismatchIsReal
<1> QED
  BY <1>1, MismatchesSeen, PTL

(***************************************************************************)
(* No mismatch without a cause                                             *)
(***************************************************************************)

(* Nobody has edited a file, and a file is the same wherever it is. *)
SameFiles ==
    /\ spent["edit"] = 0
    /\ \A k, l \in Checkout, n \in Name :
          (dir[k][n] # None /\ dir[l][n] # None) => dir[k][n] = dir[l][n]

FromSome(c, n) == c = None \/ \E k \in Checkout : c = dir[k][n]

(* What is on record, in flight or listed comes from the directories. *)
FromDirs ==
    \A n \in Name :
        /\ FromSome(ledger[n], n)
        /\ \A b \in Batch : FromSome(rows[b][n], n)
        /\ \A r \in Replica : FromSome(files[r][n], n)

LEMMA RowsFromDirs ==
    ASSUME TypeInv, OutcomeInv, FromDirs, NEW r \in Replica,
           Request(r) \/ Progress(r) \/ Crash(r), NEW n \in Name
    PROVE  FromSome(files'[r][n], n) /\ \A b \in Batch : FromSome(rows'[b][n], n)
<1> USE DEF TypeInv, TypeOK
<1>1. FromSome(None, n) /\ \A m \in Name : FromSome(dir[Home[r]][m], m)
  BY HomeAssumption DEF FromSome
<1>2. FromSome(files[r][n], n) /\ \A b \in Batch : FromSome(rows[b][n], n)
  BY DEF FromDirs
<1>3. Empty[n] = None /\ \A f, S : Selected(f, S)[n] \in {None, f[n]}
  BY DEF Empty, Selected
<1>4. CASE Request(r) \/ Crash(r)
  <2>1. rows' = rows
    BY <1>4 DEF Request, Up, Baseline, Codegen, Invoke, Crash, batchVars
  <2>2. \/ files'[r] = Empty \/ files'[r] = dir[Home[r]]
        \/ \E S : files'[r] = Selected(dir[Home[r]], S)
    BY <1>4 DEF Request, Up, Baseline, Codegen, Invoke, Crash
  <2>3. files'[r][n] \in {None, dir[Home[r]][n]}
    BY <1>3, <2>2
  <2>4. FromSome(files'[r][n], n)
    BY <1>1, <2>3
  <2> QED
    BY <1>2, <2>1, <2>4
<1>5. CASE ApplyNext(r)
  <2>1. PICK m : m = Lowest(todo[r])
    OBVIOUS
  <2>2. PICK c : c = dir[Home[r]][m]
    OBVIOUS
  <2>3. m \in Name
    BY <1>5, <2>1, <2>2, ApplyNextEffect
  <2>4. files' = files \/ files' = [files EXCEPT ![r][m] = c]
    BY <1>5, <2>1, <2>2 DEF ApplyNext
  <2>5. FromSome(files'[r][n], n)
    <3>1. files'[r][n] \in {files[r][n], dir[Home[r]][n]}
      BY <2>2, <2>3, <2>4 DEF Table
    <3> QED
      BY <1>1, <1>2, <3>1
  <2>6. rows' = rows \/ \E b \in Batch : rows' = [rows EXCEPT ![b] = Selected(files'[r], {m})]
    BY <1>5, <2>1, <2>2 DEF ApplyNext, Send, batchVars
  <2>7. FromSome(Selected(files'[r], {m})[n], n)
    <3>1. Selected(files'[r], {m})[n] \in {None, files'[r][n]}
      BY <1>3
    <3> QED
      BY <1>1, <2>5, <3>1
  <2>8. ASSUME NEW b \in Batch PROVE FromSome(rows'[b][n], n)
    <3>1. rows'[b] \in {rows[b], Selected(files'[r], {m})}
      BY <2>6
    <3> QED
      BY <1>2, <2>7, <3>1
  <2> QED
    BY <2>5, <2>8
<1>6. CASE RecordAll(r)
  <2>1. files' = files
    BY <1>6 DEF RecordAll
  <2>2. \E b \in Batch : rows' = [rows EXCEPT ![b] = Selected(files[r], todo[r])]
    BY <1>6 DEF RecordAll, Send
  <2>3. FromSome(Selected(files[r], todo[r])[n], n)
    <3>1. Selected(files[r], todo[r])[n] \in {None, files[r][n]}
      BY <1>3
    <3> QED
      BY <1>1, <1>2, <3>1
  <2>4. ASSUME NEW b \in Batch PROVE FromSome(rows'[b][n], n)
    <3>1. rows'[b] \in {rows[b], Selected(files[r], todo[r])}
      BY <2>2
    <3> QED
      BY <1>2, <2>3, <3>1
  <2> QED
    BY <1>2, <2>1, <2>4
<1>7. CASE BatchSucceeded(r) \/ BatchFailed(r)
  <2>1. files' = files /\ rows' = [rows EXCEPT ![call[r]] = Empty]
    BY <1>7 DEF BatchSucceeded, BatchFailed, Receive
  <2> QED
    BY <1>1, <1>2, <1>3, <2>1
<1>8. CASE \/ EnsureTable(r) \/ EnsureTableFails(r) \/ ProbeTable(r)
           \/ FetchApplied(r) \/ Finish(r) \/ AlreadyRecorded(r)
  BY <1>2, <1>8 DEF EnsureTable, EnsureTableFails, ProbeTable, FetchApplied,
     Finish, AlreadyRecorded, batchVars
<1>9. CASE \/ ReportFailure(r) \/ ReadColumns(r) \/ ReadEnums(r)
           \/ WriteTypes(r) \/ CodegenFails(r) \/ CallFails(r) \/ Timeout(r)
  BY <1>2, <1>9 DEF ReportFailure, ReadColumns, ReadEnums, WriteTypes,
     CodegenFails, CallFails, Timeout, batchVars
<1> QED
  BY <1>4, <1>5, <1>6, <1>7, <1>8, <1>9 DEF Progress

LEMMA FromDirsStep ==
    ASSUME TypeInv, BatchInv, OutcomeInv, [Next]_vars, FromDirs, dir' = dir
    PROVE  FromDirs'
<1> USE DEF TypeInv, TypeOK
<1>1. FromDirs' <=> \A n \in Name :
                        /\ FromSome(ledger'[n], n)
                        /\ \A b \in Batch : FromSome(rows'[b][n], n)
                        /\ \A r \in Replica : FromSome(files'[r][n], n)
  BY DEF FromDirs, FromSome
<1>2. ASSUME NEW n \in Name PROVE FromSome(ledger'[n], n)
  <2>1. ASSUME NEW b \in Batch, CommitBatch(b) PROVE FromSome(ledger'[n], n)
    <3>1. ledger'[n] \in {ledger[n], rows[b][n]}
      BY <2>1 DEF CommitBatch, Merge
    <3> QED
      BY <3>1 DEF FromDirs
  <2> QED
    BY <2>1, LedgerFrame DEF FromDirs
<1>3. ASSUME NEW r \in Replica, Request(r) \/ Progress(r) \/ Crash(r),
             NEW n \in Name
      PROVE  /\ \A b \in Batch : FromSome(rows'[b][n], n)
             /\ \A s \in Replica : FromSome(files'[s][n], n)
  <2>1. \A s \in Replica \ {r} : files'[s] = files[s]
    BY <1>3, OthersStay DEF Undisturbed
  <2>2. FromSome(files'[r][n], n) /\ \A b \in Batch : FromSome(rows'[b][n], n)
    BY <1>3, RowsFromDirs
  <2>3. \A s \in Replica : FromSome(files[s][n], n)
    BY DEF FromDirs
  <2> QED
    BY <2>1, <2>2, <2>3
<1>4. ASSUME NEW b \in Batch, DatabaseStep(b), NEW n \in Name
      PROVE  /\ \A o \in Batch : FromSome(rows'[o][n], n)
             /\ \A r \in Replica : FromSome(files'[r][n], n)
  <2>1. files' = files /\ (rows' = rows \/ rows' = [rows EXCEPT ![b] = Empty])
    BY <1>4 DEF DatabaseStep, BeginBatch, CommitBatch, RollBackBatch, DropBatch, runVars
  <2>2. FromSome(Empty[n], n)
    BY DEF FromSome, Empty
  <2> QED
    BY <2>1, <2>2 DEF FromDirs
<1>5. CASE (\E k \in Checkout : Edit(k)) \/ Quiescent \/ UNCHANGED vars
  <2>1. UNCHANGED <<files, rows>>
    BY <1>5 DEF Edit, Quiescent, vars, runVars, batchVars
  <2> QED
    BY <1>1, <1>2, <2>1 DEF FromDirs
<1> QED
  BY <1>1, <1>2, <1>3, <1>4, <1>5 DEF Next

LEMMA AllFromDirs == Spec => [](spent["edit"] = 0 => FromDirs)
<1> DEFINE Inv == spent["edit"] = 0 => FromDirs
<1>1. Init => Inv
  <2> SUFFICES ASSUME Init PROVE FromDirs
    OBVIOUS
  <2>1. \A n \in Name : Empty[n] = None /\ FromSome(None, n)
    BY DEF Empty, FromSome
  <2>2. /\ ledger = Empty
        /\ \A b \in Batch : rows[b] = Empty
        /\ \A r \in Replica : files[r] = Empty
    BY DEF Init
  <2> QED
    BY <2>1, <2>2 DEF FromDirs
<1>2. TypeInv /\ BatchInv /\ OutcomeInv /\ Inv /\ [Next]_vars => Inv'
  BY DirStays, FromDirsStep DEF TypeInv
<1> QED
  BY <1>1, <1>2, Invariants, PTL DEF Spec

(* Files that are the same wherever they are do not drift. *)
LEMMA SameFilesMatch ==
    ASSUME TypeInv, FromDirs, SameFiles, NEW r \in Replica, MismatchSeen(r)
    PROVE  ~Ended(r, "CHECKSUM_MISMATCH")
<1> SUFFICES ASSUME Ended(r, "CHECKSUM_MISMATCH") PROVE FALSE
  OBVIOUS
<1>1. PICK n \in Name : /\ files[r][n] # None /\ ledger[n] # None
                         /\ ledger[n] # files[r][n]
  BY DEF MismatchSeen, Listed
<1>2. PICK k \in Checkout : ledger[n] = dir[k][n]
  BY <1>1 DEF FromDirs, FromSome
<1>3. PICK l \in Checkout : files[r][n] = dir[l][n]
  BY <1>1 DEF FromDirs, FromSome
<1> QED
  BY <1>1, <1>2, <1>3 DEF SameFiles

(* Replicas with identical, unedited directories never report drift (run   *)
(* up_faults).                                                             *)
THEOREM MismatchNeedsAnEdit == Spec => []NoFalseMismatch
<1>1. /\ TypeInv /\ (spent["edit"] = 0 => FromDirs)
      /\ \A r \in Replica : MismatchSeen(r)
      => NoFalseMismatch
  <2> SUFFICES ASSUME TypeInv, FromDirs, \A r \in Replica : MismatchSeen(r),
                      spent["edit"] = 0, \A k, l \in Checkout : dir[k] = dir[l]
               PROVE  \A r \in Replica : ~Ended(r, "CHECKSUM_MISMATCH")
    BY DEF NoFalseMismatch
  <2>1. SameFiles
    BY DEF SameFiles
  <2> QED
    BY <2>1, SameFilesMatch
<1> QED
  BY <1>1, AllFromDirs, MismatchesSeen, Invariants, PTL

(***************************************************************************)
(* An unavailable database worker                                          *)
(***************************************************************************)

NoCallFails == spent["timeout"] = 0 /\ spent["unavailable"] = 0

(* A replica looks for the table only after it lost the race to create it. *)
UpReaches(r) ==
    /\ pc[r] = "probe" => tableExists
    /\ op[r] = "up" => ~Ended(r, "DATABASE_WORKER_UNAVAILABLE")

LEMMA TableStays ==
    ASSUME TypeOK, [Next]_vars
    PROVE  tableExists => tableExists'
<1>1. ASSUME NEW r \in Replica, Progress(r) PROVE tableExists => tableExists'
  <2>1. CASE \/ EnsureTable(r) \/ EnsureTableFails(r) \/ ProbeTable(r)
             \/ FetchApplied(r) \/ ApplyNext(r) \/ RecordAll(r) \/ Finish(r)
    BY <2>1 DEF EnsureTable, EnsureTableFails, ProbeTable, FetchApplied,
       ApplyNext, RecordAll, Finish, dbVars
  <2>2. CASE \/ BatchSucceeded(r) \/ BatchFailed(r) \/ AlreadyRecorded(r)
             \/ ReportFailure(r) \/ CallFails(r) \/ Timeout(r)
    BY <2>2 DEF BatchSucceeded, BatchFailed, AlreadyRecorded, ReportFailure,
       CallFails, Timeout, dbVars
  <2>3. CASE ReadColumns(r) \/ ReadEnums(r) \/ WriteTypes(r) \/ CodegenFails(r)
    BY <2>3 DEF ReadColumns, ReadEnums, WriteTypes, CodegenFails, dbVars
  <2> QED
    BY <1>1, <2>1, <2>2, <2>3 DEF Progress
<1>2. ASSUME NEW r \in Replica, Request(r) \/ Crash(r) PROVE tableExists => tableExists'
  BY <1>2 DEF Request, Up, Baseline, Codegen, Invoke, Crash, dbVars
<1>3. ASSUME NEW b \in Batch, DatabaseStep(b) PROVE tableExists => tableExists'
  BY <1>3 DEF DatabaseStep, BeginBatch, CommitBatch, RollBackBatch, DropBatch, dbVars
<1>4. CASE (\E k \in Checkout : Edit(k)) \/ Quiescent \/ UNCHANGED vars
  BY <1>4 DEF Edit, Quiescent, vars, dbVars
<1> QED
  BY <1>1, <1>2, <1>3, <1>4 DEF Next

LEMMA UpReachesStep ==
    ASSUME TypeInv, OutcomeInv, NEW r \in Replica, UpReaches(r),
           ~Spend("timeout"), ~Spend("unavailable"),
           Request(r) \/ Progress(r) \/ Crash(r)
    PROVE  UpReaches(r)'
<1> USE DEF TypeInv, TypeOK
<1>1. CASE Request(r) \/ Crash(r)
  BY <1>1 DEF Request, Up, Baseline, Codegen, Invoke, Crash, End, Goto, UpReaches, Ended
<1>2. CASE EnsureTable(r) \/ EnsureTableFails(r) \/ ProbeTable(r) \/ FetchApplied(r)
  BY <1>2 DEF EnsureTable, EnsureTableFails, ProbeTable, FetchApplied, dbVars,
     End, Goto, UpReaches, Ended
<1>3. CASE ApplyNext(r)
  BY <1>3, ApplyNextOutcome DEF UpReaches, Ended
<1>4. CASE RecordAll(r) \/ Finish(r) \/ BatchSucceeded(r) \/ BatchFailed(r)
  BY <1>4 DEF RecordAll, Send, Finish, BatchSucceeded, BatchFailed, End, Goto,
     UpReaches, Ended
<1>5. CASE AlreadyRecorded(r) \/ ReportFailure(r)
  BY <1>5 DEF AlreadyRecorded, ReportFailure, End, Goto, UpReaches, Ended
<1>6. CASE ReadColumns(r) \/ ReadEnums(r) \/ WriteTypes(r)
  BY <1>6 DEF ReadColumns, ReadEnums, WriteTypes, End, Goto, UpReaches, Ended
<1>7. ~(CodegenFails(r) \/ CallFails(r) \/ Timeout(r))
  BY DEF CodegenFails, CallFails, Timeout
<1> QED
  BY <1>1, <1>2, <1>3, <1>4, <1>5, <1>6, <1>7 DEF Progress

(* up reports DATABASE_WORKER_UNAVAILABLE only when a call failed or timed *)
(* out: losing the race for the table is no failure (run up_faults).       *)
THEOREM UnavailableIsReal == Spec => []UpUnavailableIsReal
<1> DEFINE Inv == NoCallFails => \A r \in Replica : UpReaches(r)
<1>1. Init => Inv
  BY DEF Init, UpReaches, Ended
<1>2. TypeInv /\ OutcomeInv /\ Inv /\ [Next]_vars => Inv'
  <2> SUFFICES ASSUME TypeInv, OutcomeInv, Inv, [Next]_vars, NoCallFails', NEW r \in Replica
               PROVE  UpReaches(r)'
    OBVIOUS
  <2>1. NoCallFails /\ ~Spend("timeout") /\ ~Spend("unavailable")
    BY SpentGrows DEF NoCallFails, FaultKind, TypeInv
  <2>2. CASE Undisturbed(r)
    BY <2>1, <2>2, TableStays DEF Undisturbed, UpReaches, Ended, TypeInv
  <2> QED
    BY <2>1, <2>2, RunMoves, UpReachesStep
<1>3. Inv => UpUnavailableIsReal
  BY DEF NoCallFails, UpReaches, UpUnavailableIsReal
<1> QED
  BY <1>1, <1>2, <1>3, Invariants, PTL DEF Spec

(***************************************************************************)
(* Batches                                                                 *)
(***************************************************************************)

(* A batch is as it was, becomes free, is newly sent, or is worked on. *)
LEMMA BatchMoves ==
    ASSUME TypeInv, [Next]_vars, NEW b \in Batch
    PROVE  \/ phase'[b] = phase[b] /\ sql'[b] = sql[b] /\ rows'[b] = rows[b]
           \/ phase'[b] = "free" /\ sql'[b] = None /\ rows'[b] = Empty
           \/ /\ phase[b] = "free" /\ phase'[b] = "queued"
              /\ \E r \in Replica : call'[r] = b /\ (ApplyNext(r) \/ RecordAll(r))
           \/ /\ BeginBatch(b) \/ CommitBatch(b) \/ RollBackBatch(b)
              /\ sql'[b] = sql[b] /\ rows'[b] = rows[b]
<1> USE DEF TypeInv, TypeOK
<1>1. CASE UNCHANGED batchVars
  BY <1>1 DEF batchVars
<1>2. ASSUME NEW r \in Replica, ApplyNext(r) \/ RecordAll(r), ~UNCHANGED batchVars
      PROVE  \/ phase'[b] = phase[b] /\ sql'[b] = sql[b] /\ rows'[b] = rows[b]
             \/ phase[b] = "free" /\ phase'[b] = "queued" /\ call'[r] = b
  <2>1. PICK statements, g : Send(r, statements, g)
    BY <1>2 DEF ApplyNext, RecordAll
  <2>2. PICK o \in Batch :
            /\ phase[o] = "free"
            /\ phase' = [phase EXCEPT ![o] = "queued"]
            /\ sql' = [sql EXCEPT ![o] = statements]
            /\ rows' = [rows EXCEPT ![o] = g]
            /\ call' = [call EXCEPT ![r] = o]
    BY <2>1 DEF Send
  <2> QED
    BY <2>2
<1>3. ASSUME NEW r \in Replica, BatchSucceeded(r) \/ BatchFailed(r)
      PROVE  \/ phase'[b] = phase[b] /\ sql'[b] = sql[b] /\ rows'[b] = rows[b]
             \/ phase'[b] = "free" /\ sql'[b] = None /\ rows'[b] = Empty
  <2>1. call[r] \in Batch
    BY <1>3 DEF BatchSucceeded, BatchFailed, Receive, WorkInv
  <2> QED
    BY <1>3, <2>1 DEF BatchSucceeded, BatchFailed, Receive
<1>4. ASSUME NEW o \in Batch, DatabaseStep(o)
      PROVE  \/ phase'[b] = phase[b] /\ sql'[b] = sql[b] /\ rows'[b] = rows[b]
             \/ phase'[b] = "free" /\ sql'[b] = None /\ rows'[b] = Empty
             \/ /\ BeginBatch(b) \/ CommitBatch(b) \/ RollBackBatch(b)
                /\ sql'[b] = sql[b] /\ rows'[b] = rows[b]
  <2>1. CASE o # b
    BY <1>4, <2>1 DEF DatabaseStep, BeginBatch, CommitBatch, RollBackBatch, DropBatch
  <2>2. CASE o = b /\ DropBatch(b)
    BY <2>2 DEF DropBatch
  <2>3. CASE o = b /\ (BeginBatch(b) \/ CommitBatch(b) \/ RollBackBatch(b))
    BY <2>3 DEF BeginBatch, CommitBatch, RollBackBatch
  <2> QED
    BY <1>4, <2>1, <2>2, <2>3 DEF DatabaseStep
<1>5. ASSUME NEW r \in Replica, Progress(r)
      PROVE  \/ UNCHANGED batchVars
             \/ ApplyNext(r) \/ RecordAll(r) \/ BatchSucceeded(r) \/ BatchFailed(r)
  <2>1. CASE \/ EnsureTable(r) \/ EnsureTableFails(r) \/ ProbeTable(r)
             \/ FetchApplied(r) \/ Finish(r) \/ AlreadyRecorded(r)
    BY <2>1 DEF EnsureTable, EnsureTableFails, ProbeTable, FetchApplied,
       Finish, AlreadyRecorded
  <2>2. CASE \/ ReportFailure(r) \/ ReadColumns(r) \/ ReadEnums(r)
             \/ WriteTypes(r) \/ CodegenFails(r) \/ CallFails(r) \/ Timeout(r)
    BY <2>2 DEF ReportFailure, ReadColumns, ReadEnums, WriteTypes,
       CodegenFails, CallFails, Timeout
  <2> QED
    BY <1>5, <2>1, <2>2 DEF Progress
<1>6. ASSUME NEW r \in Replica, Request(r) \/ Crash(r) PROVE UNCHANGED batchVars
  BY <1>6 DEF Request, Up, Baseline, Codegen, Invoke, Crash
<1>7. CASE (\E k \in Checkout : Edit(k)) \/ Quiescent \/ UNCHANGED vars
  BY <1>1, <1>7 DEF Edit, Quiescent, vars
<1> QED
  BY <1>1, <1>2, <1>3, <1>4, <1>5, <1>6, <1>7 DEF Next

(* The batch that an undisturbed replica waits for keeps what it carries.  *)
LEMMA AwaitedBatch ==
    ASSUME StepAssumption, NEW r \in Replica, pc[r] = "await", Undisturbed(r)
    PROVE  /\ call[r] \in Batch /\ call'[r] = call[r]
           /\ sql'[call[r]] = sql[call[r]] /\ rows'[call[r]] = rows[call[r]]
           /\ \/ phase'[call[r]] = phase[call[r]]
              \/ BeginBatch(call[r]) \/ CommitBatch(call[r]) \/ RollBackBatch(call[r])
<1>1. call[r] \in Batch /\ phase[call[r]] # "free"
  BY CallerOfBatch DEF StepAssumption, TypeInv, WorkInv
<1>2. OutcomeInv'
  BY OutcomeInvStep
<1>3. pc'[r] = "await" /\ call'[r] = call[r]
  BY DEF Undisturbed
<1>4. phase'[call[r]] # "free"
  BY <1>2, <1>3 DEF OutcomeInv, RunOK
<1> QED
  BY <1>1, <1>3, <1>4, BatchMoves DEF StepAssumption

(* A replica starts to wait by sending a batch. *)
LEMMA AwaitBySending ==
    ASSUME TypeInv, NEW r \in Replica, Request(r) \/ Progress(r) \/ Crash(r),
           pc'[r] = "await"
    PROVE  ApplyNext(r) \/ RecordAll(r)
<1> USE DEF TypeInv, TypeOK
<1>1. ~Request(r) /\ ~Crash(r)
  BY DEF Request, Up, Baseline, Codegen, Crash, Invoke, End, Goto
<1>2. ~(EnsureTable(r) \/ EnsureTableFails(r) \/ ProbeTable(r) \/ FetchApplied(r))
  BY DEF EnsureTable, EnsureTableFails, ProbeTable, FetchApplied, End, Goto
<1>3. ~(Finish(r) \/ BatchSucceeded(r) \/ BatchFailed(r) \/ AlreadyRecorded(r))
  BY DEF Finish, BatchSucceeded, BatchFailed, AlreadyRecorded, End, Goto
<1>4. ~(ReportFailure(r) \/ ReadColumns(r) \/ ReadEnums(r) \/ WriteTypes(r))
  BY DEF ReportFailure, ReadColumns, ReadEnums, WriteTypes, End, Goto
<1>5. ~(CodegenFails(r) \/ CallFails(r) \/ Timeout(r))
  BY DEF CodegenFails, CallFails, Timeout, End
<1> QED
  BY <1>1, <1>2, <1>3, <1>4, <1>5 DEF Progress

(* The batch a replica waits for carries exactly the files of its turn. *)
Carries(r) ==
    pc[r] = "await" =>
        /\ rows[call[r]] = Selected(files[r], InBatch(r))
        /\ sql[call[r]] = IF op[r] = "up" THEN files[r][Lowest(todo[r])] ELSE None

LEMMA CarriesStep ==
    ASSUME StepAssumption, NEW r \in Replica, Carries(r)
    PROVE  Carries(r)'
<1> USE DEF StepAssumption
<1>1. CASE Undisturbed(r)
  <2>1. InBatch(r)' = InBatch(r)
    BY <1>1 DEF Undisturbed, InBatch
  <2> QED
    BY <1>1, <2>1, AwaitedBatch DEF Undisturbed, Carries
<1>2. CASE (Request(r) \/ Progress(r) \/ Crash(r)) /\ pc'[r] # "await"
  BY <1>2 DEF Carries
<1>3. CASE ApplyNext(r) /\ pc'[r] = "await"
  <2>1. PICK n : n = Lowest(todo[r])
    OBVIOUS
  <2>2. PICK c : c = dir[Home[r]][n]
    OBVIOUS
  <2>3. files'[r][n] = c /\ Send(r, c, Selected(files'[r], {n}))
    BY <1>3, <2>1, <2>2, ApplyNextSends
  <2>4. /\ sql'[call'[r]] = c
        /\ rows'[call'[r]] = Selected(files'[r], {n})
    BY <2>3 DEF Send, TypeInv, TypeOK
  <2>5. op'[r] = "up" /\ todo' = todo /\ InBatch(r)' = {n}
    BY <1>3, <2>1 DEF ApplyNext, InBatch
  <2> QED
    BY <2>1, <2>3, <2>4, <2>5 DEF Carries
<1>4. CASE RecordAll(r)
  <2>1. /\ sql'[call'[r]] = None
        /\ rows'[call'[r]] = Selected(files[r], todo[r])
    BY <1>4 DEF RecordAll, Send, TypeInv, TypeOK
  <2>2. op'[r] = "baseline" /\ UNCHANGED files /\ InBatch(r)' = todo[r]
    BY <1>4 DEF RecordAll, InBatch
  <2> QED
    BY <2>1, <2>2 DEF Carries
<1> QED
  BY <1>1, <1>2, <1>3, <1>4, RunMoves, AwaitBySending

(* The rows of an awaited batch are those of the files of the turn. *)
LEMMA CarriedRows ==
    ASSUME TypeInv, OutcomeInv, NEW r \in Replica, Carries(r), pc[r] = "await"
    PROVE  /\ Listed(rows[call[r]]) = InBatch(r)
           /\ InBatch(r) \subseteq Listed(files[r])
<1>1. todo[r] # {} /\ todo[r] \subseteq Listed(files[r])
  BY DEF TypeInv, WorkInv, OutcomeInv, RunOK
<1>2. InBatch(r) \subseteq todo[r]
  BY <1>1, InBatchType DEF TypeInv
<1> QED
  BY <1>1, <1>2 DEF Carries, Selected, Listed

(***************************************************************************)
(* One run applies a file                                                  *)
(***************************************************************************)

(* What a run has applied, its committed but unanswered batch included. *)
Claimed(r) ==
    applied[r] \cup IF pc[r] = "await" /\ phase[call[r]] = "committed"
                    THEN InBatch(r) ELSE {}

RaceInv ==
    /\ \A r \in Replica : Carries(r)
    /\ \A r \in Replica : Claimed(r) \subseteq Listed(ledger)
    /\ \A r, s \in Replica : r # s => Claimed(r) \cap Claimed(s) = {}

(* A run's own steps claim nothing new. *)
LEMMA OwnStepClaims ==
    ASSUME TypeInv, OutcomeInv, NEW r \in Replica,
           Request(r) \/ Progress(r) \/ Crash(r)
    PROVE  Claimed(r)' \subseteq Claimed(r)
<1> USE DEF TypeInv, TypeOK
<1>1. CASE Request(r) \/ Crash(r)
  <2>1. applied'[r] = {} /\ pc'[r] # "await"
    BY <1>1 DEF Request, Up, Baseline, Codegen, Invoke, Crash, End, Goto
  <2> QED
    BY <2>1 DEF Claimed
<1>2. CASE ApplyNext(r) \/ RecordAll(r)
  <2>1. applied' = applied
    BY <1>2 DEF ApplyNext, RecordAll
  <2>2. pc'[r] = "await" => phase'[call'[r]] = "queued"
    <3>1. pc[r] = "loop"
      BY <1>2 DEF ApplyNext, RecordAll
    <3>2. \/ \E statements, g : Send(r, statements, g)
          \/ \E code, n : End(r, code, n)
      BY <1>2 DEF ApplyNext, RecordAll
    <3>3. ASSUME NEW code, NEW n, End(r, code, n) PROVE pc'[r] # "await"
      BY <3>3 DEF End
    <3>4. ASSUME NEW statements, NEW g, Send(r, statements, g)
          PROVE  phase'[call'[r]] = "queued"
      BY <3>4 DEF Send
    <3> QED
      BY <3>2, <3>3, <3>4
  <2> QED
    BY <2>1, <2>2 DEF Claimed
<1>3. CASE BatchSucceeded(r)
  <2>1. /\ pc[r] = "await" /\ phase[call[r]] = "committed" /\ pc'[r] = "loop"
        /\ applied'[r] = applied[r] \cup InBatch(r)
    BY <1>3 DEF BatchSucceeded, Receive, Goto
  <2> QED
    BY <2>1 DEF Claimed
<1>4. CASE Progress(r) /\ ~(ApplyNext(r) \/ RecordAll(r) \/ BatchSucceeded(r))
  <2>1. pc'[r] # "await"
    BY <1>4, AwaitBySending
  <2>2. applied' = applied
    <3>1. CASE \/ EnsureTable(r) \/ EnsureTableFails(r) \/ ProbeTable(r)
               \/ FetchApplied(r) \/ Finish(r) \/ AlreadyRecorded(r) \/ BatchFailed(r)
      BY <3>1 DEF EnsureTable, EnsureTableFails, ProbeTable, FetchApplied,
         Finish, AlreadyRecorded, BatchFailed
    <3>2. CASE \/ ReportFailure(r) \/ ReadColumns(r) \/ ReadEnums(r)
               \/ WriteTypes(r) \/ CodegenFails(r) \/ CallFails(r) \/ Timeout(r)
      BY <3>2 DEF ReportFailure, ReadColumns, ReadEnums, WriteTypes,
         CodegenFails, CallFails, Timeout
    <3> QED
      BY <1>4, <3>1, <3>2 DEF Progress
  <2> QED
    BY <2>1, <2>2 DEF Claimed
<1> QED
  BY <1>1, <1>2, <1>3, <1>4

(* A run claims more only when its batch commits files without a row. *)
LEMMA ClaimStep ==
    ASSUME StepAssumption, RaceInv, NEW r \in Replica
    PROVE  \/ Claimed(r)' \subseteq Claimed(r)
           \/ /\ call[r] \in Batch /\ CommitBatch(call[r])
              /\ Claimed(r)' \subseteq Claimed(r) \cup Listed(rows[call[r]])
<1>1. CASE Request(r) \/ Progress(r) \/ Crash(r)
  BY <1>1, OwnStepClaims DEF StepAssumption
<1>2. CASE Undisturbed(r) /\ pc[r] # "await"
  BY <1>2 DEF Undisturbed, Claimed
<1>3. CASE Undisturbed(r) /\ pc[r] = "await"
  <2>1. /\ applied'[r] = applied[r] /\ pc'[r] = "await"
        /\ InBatch(r)' = InBatch(r)
    BY <1>3 DEF Undisturbed, InBatch
  <2>2. /\ call[r] \in Batch /\ call'[r] = call[r]
        /\ \/ phase'[call[r]] = phase[call[r]]
           \/ BeginBatch(call[r]) \/ CommitBatch(call[r]) \/ RollBackBatch(call[r])
    BY <1>3, AwaitedBatch
  <2>3. CASE phase'[call[r]] = phase[call[r]]
    BY <1>3, <2>1, <2>2, <2>3 DEF Claimed
  <2>4. CASE BeginBatch(call[r]) \/ RollBackBatch(call[r])
    <3>1. phase'[call[r]] # "committed"
      BY <2>2, <2>4 DEF BeginBatch, RollBackBatch, StepAssumption, TypeInv, TypeOK
    <3> QED
      BY <1>3, <2>1, <2>2, <3>1 DEF Claimed
  <2>5. CASE CommitBatch(call[r])
    <3>1. Listed(rows[call[r]]) = InBatch(r)
      BY <1>3, CarriedRows DEF StepAssumption, RaceInv
    <3> QED
      BY <1>3, <2>1, <2>2, <2>5, <3>1 DEF Claimed
  <2> QED
    BY <2>2, <2>3, <2>4, <2>5
<1> QED
  BY <1>1, <1>2, <1>3, RunMoves DEF StepAssumption

LEMMA RaceInvStep ==
    ASSUME StepAssumption, RaceInv
    PROVE  RaceInv'
<1>1. \A r \in Replica : Carries(r)'
  BY CarriesStep DEF RaceInv
<1>2. \A n \in Name : ledger[n] # None => ledger'[n] = ledger[n]
  BY RowsStay DEF StepAssumption, TypeInv
<1>3. ASSUME NEW b \in Batch, CommitBatch(b), NEW n \in Listed(rows[b])
      PROVE  ledger[n] = None /\ ledger'[n] # None
  BY <1>3 DEF CommitBatch, Duplicate, Merge, Listed
<1>4. ASSUME NEW r \in Replica PROVE Claimed(r)' \subseteq Listed(ledger)'
  <2>1. Claimed(r) \subseteq Listed(ledger)'
    BY <1>2 DEF RaceInv, Listed
  <2>2. CommitBatch(call[r]) /\ call[r] \in Batch
        => Listed(rows[call[r]]) \subseteq Listed(ledger)'
    BY <1>3 DEF Listed
  <2> QED
    BY <2>1, <2>2, ClaimStep
<1>5. ASSUME NEW r \in Replica, NEW s \in Replica, r # s,
             Claimed(s)' \subseteq Claimed(s)
      PROVE  Claimed(r)' \cap Claimed(s)' = {}
  <2>1. Claimed(r) \cap Claimed(s) = {} /\ Claimed(s) \subseteq Listed(ledger)
    BY <1>5 DEF RaceInv
  <2>2. CommitBatch(call[r]) /\ call[r] \in Batch
        => Listed(rows[call[r]]) \cap Listed(ledger) = {}
    BY <1>3 DEF Listed
  <2> QED
    BY <1>5, <2>1, <2>2, ClaimStep
<1>6. ASSUME NEW r \in Replica, NEW s \in Replica, r # s
      PROVE  Claimed(r)' \subseteq Claimed(r) \/ Claimed(s)' \subseteq Claimed(s)
  <2> SUFFICES ASSUME call[r] \in Batch, CommitBatch(call[r]),
                      call[s] \in Batch, CommitBatch(call[s])
               PROVE  FALSE
    BY ClaimStep
  <2>1. /\ phase[call[r]] = "running" /\ phase'[call[r]] = "committed"
        /\ phase[call[s]] = "running"
        /\ phase' = [phase EXCEPT ![call[s]] = "committed"]
    BY DEF CommitBatch, StepAssumption, TypeInv, TypeOK
  <2>2. call[r] = call[s]
    BY <2>1 DEF StepAssumption, TypeInv, TypeOK
  <2>3. call[r] # None
    BY BatchAssumption
  <2> QED
    BY <1>6, <2>2, <2>3 DEF StepAssumption, OutcomeInv, CallersDiffer
<1> QED
  BY <1>1, <1>4, <1>5, <1>6 DEF RaceInv

LEMMA RaceInvariant == Spec => [](TypeInv /\ BatchInv /\ OutcomeInv /\ RaceInv)
<1>1. Init => RaceInv
  BY DEF Init, RaceInv, Carries, Claimed
<1>2. (TypeInv /\ BatchInv /\ OutcomeInv) /\ RaceInv /\ [Next]_vars => RaceInv'
  BY RaceInvStep DEF StepAssumption
<1> QED
  BY <1>1, <1>2, Invariants, PTL DEF Spec

(* Two runs never both report a file as applied (run up_edits).            *)
THEOREM OneRunApplies == Spec => []AppliedByOneRun
<1>1. RaceInv => AppliedByOneRun
  BY DEF RaceInv, Claimed, AppliedByOneRun
<1> QED
  BY <1>1, RaceInvariant, PTL

(***************************************************************************)
(* A migration is blamed for its own SQL                                   *)
(***************************************************************************)

(* Transactions exclude one another, so a batch fails for its SQL or for a *)
(* row that is there, and the caller finds that out from the table.        *)
OneRunning ==
    \A b, o \in Batch : phase[b] = "running" /\ phase[o] = "running" => b = o

HasRow(n) == ledger[n] # None

FailedForCause(b) ==
    phase[b] = "failed" => sql[b] \in Broken \/ \E n \in Listed(rows[b]) : HasRow(n)

BlamedForCause(r) ==
    /\ (pc[r] = "classify" /\ op[r] = "up") =>
           \/ files[r][Lowest(todo[r])] \in Broken
           \/ HasRow(Lowest(todo[r]))
    /\ Ended(r, "MIGRATION_FAILED") =>
           files[r][outcome[r].name] \in Broken \cup Unsplittable

BlameInv ==
    /\ OneRunning
    /\ \A b \in Batch : FailedForCause(b)
    /\ \A r \in Replica : BlamedForCause(r)

LEMMA OneRunningStep ==
    ASSUME TypeInv, [Next]_vars, OneRunning
    PROVE  OneRunning'
<1>1. ASSUME NEW b \in Batch, phase'[b] = "running"
      PROVE  phase[b] = "running" \/ BeginBatch(b)
  BY <1>1, BatchMoves DEF CommitBatch, RollBackBatch, TypeInv, TypeOK
<1>2. ASSUME NEW b \in Batch, BeginBatch(b)
      PROVE  \A o \in Batch \ {b} : phase'[o] # "running"
  BY <1>2 DEF BeginBatch, LockFree, TypeInv, TypeOK
<1> QED
  BY <1>1, <1>2 DEF OneRunning

LEMMA FailedForCauseStep ==
    ASSUME TypeInv, BatchInv, [Next]_vars, OneRunning, ~Spend("worker"),
           NEW b \in Batch, FailedForCause(b)
    PROVE  FailedForCause(b)'
<1>1. \A n \in Name : HasRow(n) => HasRow(n)'
  BY RowsStay DEF HasRow, TypeInv
<1>2. CASE phase'[b] = phase[b] /\ sql'[b] = sql[b] /\ rows'[b] = rows[b]
  BY <1>1, <1>2 DEF FailedForCause, Listed
<1>3. CASE phase'[b] \in {"free", "queued"}
  BY <1>3 DEF FailedForCause
<1>4. CASE BeginBatch(b) \/ CommitBatch(b)
  BY <1>4 DEF BeginBatch, CommitBatch, FailedForCause, TypeInv, TypeOK
<1>5. CASE RollBackBatch(b)
  <2>1. Duplicate(b) \/ Refused(b)
    BY <1>5 DEF RollBackBatch, Contended, OneRunning
  <2>2. UNCHANGED <<sql, rows, ledger>>
    BY <1>5 DEF RollBackBatch, dbVars
  <2> QED
    BY <2>1, <2>2 DEF Duplicate, Refused, FailedForCause, HasRow, Listed
<1> QED
  BY <1>2, <1>3, <1>4, <1>5, BatchMoves

LEMMA BlamedForCauseStep ==
    ASSUME StepAssumption, RaceInv, BlameInv, NEW r \in Replica,
           Request(r) \/ Progress(r) \/ Crash(r)
    PROVE  BlamedForCause(r)'
<1> USE DEF StepAssumption
<1> DEFINE Quiet == /\ pc'[r] # "classify"
                    /\ ~(pc'[r] = "idle" /\ outcome'[r].code = "MIGRATION_FAILED")
<1>1. Quiet => BlamedForCause(r)'
  BY DEF BlamedForCause, Ended
<1>2. CASE Request(r) \/ Crash(r)
  BY <1>1, <1>2 DEF Request, Up, Baseline, Codegen, Invoke, Crash, End, Goto, TypeInv, TypeOK
<1>3. CASE EnsureTable(r) \/ EnsureTableFails(r) \/ ProbeTable(r) \/ FetchApplied(r)
  BY <1>1, <1>3 DEF EnsureTable, EnsureTableFails, ProbeTable, FetchApplied,
     End, Goto, TypeInv, TypeOK
<1>4. CASE ApplyNext(r)
  <2>1. PICK n : n = Lowest(todo[r])
    OBVIOUS
  <2>2. PICK c : c = dir[Home[r]][n]
    OBVIOUS
  <2>3. CASE c = None
    <3>1. pc'[r] = "idle" /\ outcome'[r].code = "CONFIG_ERROR"
      BY <1>4, <2>1, <2>2, <2>3 DEF ApplyNext, End, TypeInv, TypeOK
    <3> QED
      BY <1>1, <3>1
  <2>4. CASE c # None /\ c \in Unsplittable
    <3>1. /\ pc'[r] = "idle" /\ outcome'[r].name = n
          /\ files' = [files EXCEPT ![r][n] = c]
      BY <1>4, <2>1, <2>2, <2>4 DEF ApplyNext, End, TypeInv, TypeOK
    <3>2. n \in Name
      BY <1>4, <2>1, LowestIsElement DEF ApplyNext, TypeInv, TypeOK
    <3>3. files'[r][n] = c
      BY <3>1, <3>2 DEF TypeInv, TypeOK, Table
    <3> QED
      BY <2>4, <3>1, <3>3 DEF BlamedForCause, Ended
  <2>5. CASE c # None /\ c \notin Unsplittable
    <3>1. \E S : Send(r, c, S)
      BY <1>4, <2>1, <2>2, <2>5 DEF ApplyNext
    <3>2. pc'[r] = "await"
      BY <3>1 DEF Send, Goto, TypeInv, TypeOK
    <3> QED
      BY <1>1, <3>2
  <2> QED
    BY <2>3, <2>4, <2>5
<1>5. CASE RecordAll(r) \/ Finish(r) \/ BatchSucceeded(r) \/ AlreadyRecorded(r)
  BY <1>1, <1>5 DEF RecordAll, Send, Finish, BatchSucceeded, AlreadyRecorded,
     End, Goto, TypeInv, TypeOK
<1>6. CASE BatchFailed(r)
  <2>1. /\ pc[r] = "await" /\ phase[call[r]] = "failed" /\ pc'[r] = "classify"
        /\ UNCHANGED <<op, files, todo, ledger>>
    BY <1>6 DEF BatchFailed, Receive, Goto, dbVars, TypeInv, TypeOK
  <2>2. call[r] \in Batch
    BY <2>1 DEF TypeInv, TypeOK, WorkInv
  <2>3. sql[call[r]] \in Broken \/ \E n \in Listed(rows[call[r]]) : HasRow(n)
    BY <2>1, <2>2 DEF BlameInv, FailedForCause
  <2>4. Listed(rows[call[r]]) = InBatch(r)
    BY <2>1, CarriedRows DEF RaceInv
  <2>5. op[r] = "up" => /\ InBatch(r) = {Lowest(todo[r])}
                        /\ sql[call[r]] = files[r][Lowest(todo[r])]
    BY <2>1 DEF InBatch, RaceInv, Carries
  <2>6. op[r] = "up" => \/ files[r][Lowest(todo[r])] \in Broken
                        \/ HasRow(Lowest(todo[r]))
    BY <2>3, <2>4, <2>5
  <2> QED
    BY <2>1, <2>6 DEF BlamedForCause, Ended, HasRow
<1>7. CASE ReportFailure(r)
  <2>1. CASE Ended(r, "MIGRATION_FAILED")'
    <3>1. /\ pc[r] = "classify" /\ op[r] = "up" /\ Unrecorded(r) # {}
          /\ ledger[Lowest(Unrecorded(r))] = None
          /\ outcome'[r].name = Lowest(Unrecorded(r))
          /\ pc'[r] = "idle" /\ files' = files
      BY <1>7, <2>1 DEF ReportFailure, End, Ended, TypeInv, TypeOK
    <3>2. InBatch(r) = {Lowest(todo[r])} /\ Lowest(todo[r]) \in Name
      BY <3>1, LowestIsElement, ZenonT(60) DEF InBatch, TypeInv, TypeOK, WorkInv
    <3>3. Unrecorded(r) = {Lowest(todo[r])}
      BY <3>1, <3>2 DEF Unrecorded
    <3>4. Lowest(Unrecorded(r)) = Lowest(todo[r])
      BY <3>2, <3>3, LowestIsElement
    <3>5. files[r][Lowest(todo[r])] \in Broken
      BY <3>1, <3>4 DEF BlameInv, BlamedForCause, HasRow
    <3> QED
      BY <3>1, <3>4, <3>5 DEF BlamedForCause, Ended
  <2>2. CASE ~Ended(r, "MIGRATION_FAILED")'
    <3>1. pc'[r] = "idle"
      BY <1>7 DEF ReportFailure, End, TypeInv, TypeOK
    <3> QED
      BY <1>1, <2>2, <3>1 DEF Ended
  <2> QED
    BY <2>1, <2>2
<1>8. CASE \/ ReadColumns(r) \/ ReadEnums(r) \/ WriteTypes(r)
           \/ CodegenFails(r) \/ CallFails(r) \/ Timeout(r)
  BY <1>1, <1>8 DEF ReadColumns, ReadEnums, WriteTypes, CodegenFails, CallFails,
     Timeout, End, Goto, TypeInv, TypeOK
<1> QED
  BY <1>2, <1>3, <1>4, <1>5, <1>6, <1>7, <1>8 DEF Progress

(* Losing a race is never reported as a failed migration: without an error *)
(* of the database worker itself, the file that MIGRATION_FAILED names is  *)
(* at fault (run up_faults).                                               *)
THEOREM FailuresAreTheFiles == Spec => []FailureIsTheFiles
<1> DEFINE Inv == spent["worker"] = 0 => BlameInv
<1>1. Init => Inv
  BY DEF Init, BlameInv, OneRunning, FailedForCause, BlamedForCause, Ended
<1>2. TypeInv /\ BatchInv /\ OutcomeInv /\ RaceInv /\ Inv /\ [Next]_vars => Inv'
  <2> SUFFICES ASSUME TypeInv, BatchInv, OutcomeInv, RaceInv, Inv, [Next]_vars,
                      spent'["worker"] = 0
               PROVE  BlameInv'
    OBVIOUS
  <2>1. BlameInv /\ ~Spend("worker")
    BY SpentGrows DEF FaultKind, TypeInv
  <2> HIDE DEF Inv
  <2>2. OneRunning' /\ \A b \in Batch : FailedForCause(b)'
    BY <2>1, OneRunningStep, FailedForCauseStep DEF BlameInv
  <2>3. ASSUME NEW r \in Replica PROVE BlamedForCause(r)'
    <3>1. CASE Undisturbed(r)
      <4>1. Lowest(todo[r]) \in Name \/ pc[r] # "classify"
        BY LowestIsElement DEF TypeInv, TypeOK, WorkInv
      <4>2. pc[r] = "classify" => (HasRow(Lowest(todo[r])) => ledger'[Lowest(todo[r])] # None)
        BY <4>1, RowsStay DEF HasRow, TypeInv
      <4> QED
        BY <2>1, <3>1, <4>2 DEF BlameInv, BlamedForCause, Undisturbed, Ended, HasRow
    <3> QED
      BY <2>1, <3>1, RunMoves, BlamedForCauseStep DEF StepAssumption
  <2> QED
    BY <2>2, <2>3 DEF BlameInv
<1>3. Inv => FailureIsTheFiles
  BY DEF BlameInv, BlamedForCause, FailureIsTheFiles
<1> QED
  BY <1>1, <1>2, <1>3, RaceInvariant, PTL DEF Spec

(***************************************************************************)
(* Files execute in name order                                             *)
(***************************************************************************)


OneListing ==
    spent["edit"] = 0 /\ \A k, l \in Checkout : Listed(dir[k]) = Listed(dir[l])

(* Every file before `n` is on record. *)
Preceded(n) ==
    \E k \in Checkout :
        /\ n \in Listed(dir[k])
        /\ \A m \in Listed(dir[k]) : m < n => ledger[m] # None

(* A run of up works on the directory, from which it sends a file only     *)
(* when the files before it are on record.                                 *)
WorksOnDir(r) ==
    op[r] = "up" /\ pc[r] \in {"ensure", "probe", "fetch", "loop", "await", "classify"}
    => Listed(files[r]) = Listed(dir[Home[r]])

SentInOrder(b) ==
    sql[b] # None => \A n \in Listed(rows[b]) : Preceded(n)

HistoryInOrder ==
    /\ \A i \in DOMAIN execLog : Preceded(execLog[i].name)
    /\ \A i, j \in DOMAIN execLog : i < j => execLog[i].name < execLog[j].name

OrderInv ==
    /\ \A r \in Replica : WorksOnDir(r)
    /\ \A b \in Batch : SentInOrder(b)
    /\ HistoryInOrder

(* What is on record stays there. *)
LEMMA PrecededStays ==
    ASSUME TypeInv, BatchInv, [Next]_vars, dir' = dir, NEW n, Preceded(n)
    PROVE  Preceded(n)'
<1>1. \A m \in Name : ledger[m] # None => ledger'[m] # None
  BY RowsStay DEF TypeInv
<1> QED
  BY <1>1 DEF Preceded, Listed

LEMMA WorksOnDirStep ==
    ASSUME TypeInv, OutcomeInv, [Next]_vars, dir' = dir, NEW r \in Replica, WorksOnDir(r)
    PROVE  WorksOnDir(r)'
<1>1. CASE Undisturbed(r)
  BY <1>1 DEF Undisturbed, WorksOnDir
<1>2. CASE Request(r)
  <2>1. CASE Up(r)
    BY <2>1 DEF Up, Invoke, WorksOnDir, TypeInv, TypeOK
  <2>2. CASE Codegen(r) \/ \E T \in BaselineNames : Baseline(r, T)
    BY <2>2 DEF Codegen, Baseline, Invoke, WorksOnDir, TypeInv, TypeOK
  <2> QED
    BY <1>2, <2>1, <2>2 DEF Request
<1>3. CASE ApplyNext(r)
  <2>1. \/ pc'[r] = "idle"
        \/ Listed(files'[r]) = Listed(files[r])
    BY <1>3, ApplyNextOutcome
  <2>2. op' = op /\ pc[r] = "loop"
    BY <1>3 DEF ApplyNext
  <2> QED
    BY <2>1, <2>2 DEF WorksOnDir
<1>4. CASE EnsureTable(r) \/ EnsureTableFails(r) \/ ProbeTable(r) \/ FetchApplied(r)
  BY <1>4 DEF EnsureTable, EnsureTableFails, ProbeTable, FetchApplied, WorksOnDir
<1>5. CASE RecordAll(r) \/ BatchSucceeded(r) \/ BatchFailed(r) \/ AlreadyRecorded(r)
  BY <1>5 DEF RecordAll, BatchSucceeded, BatchFailed, Receive, AlreadyRecorded, WorksOnDir
<1>6. CASE Finish(r) \/ ReadColumns(r) \/ ReadEnums(r) \/ WriteTypes(r) \/ CodegenFails(r)
  BY <1>6 DEF Finish, ReadColumns, ReadEnums, WriteTypes, CodegenFails, End, Goto,
     WorksOnDir, TypeInv, TypeOK
<1>7. CASE ReportFailure(r) \/ CallFails(r) \/ Timeout(r) \/ Crash(r)
  BY <1>7 DEF ReportFailure, CallFails, Timeout, Crash, End, WorksOnDir, TypeInv, TypeOK
<1> QED
  BY <1>1, <1>2, <1>3, <1>4, <1>5, <1>6, <1>7, RunMoves DEF Progress

(* The lowest file of the work list: those before it are on record.        *)
LEMMA NextIsPreceded ==
    ASSUME TypeInv, OutcomeInv, NEW r \in Replica, WorksOnDir(r),
           pc[r] = "loop", op[r] = "up", todo[r] # {}
    PROVE  Preceded(Lowest(todo[r]))
<1>1. /\ Lowest(todo[r]) \in todo[r]
      /\ \A m \in todo[r] : Lowest(todo[r]) <= m
  BY LowestIsElement DEF TypeInv, TypeOK
<1>2. /\ todo[r] \subseteq Listed(files[r])
      /\ \A n \in Listed(files[r]) \ todo[r] : ledger[n] = files[r][n]
  BY DEF OutcomeInv, RunOK, OnRecord
<1>3. Listed(files[r]) = Listed(dir[Home[r]]) /\ Home[r] \in Checkout
  BY HomeAssumption DEF WorksOnDir
<1>4. ASSUME NEW m \in Listed(dir[Home[r]]), m < Lowest(todo[r])
      PROVE  ledger[m] # None
  <2>1. m \in Nat /\ Lowest(todo[r]) \in Nat
    BY <1>1, NameAssumption DEF Listed, TypeInv, TypeOK
  <2>2. m \notin todo[r]
    BY <1>1, <1>4, <2>1
  <2> QED
    BY <1>2, <1>3, <2>2 DEF Listed
<1> QED
  BY <1>1, <1>2, <1>3, <1>4 DEF Preceded

LEMMA SentInOrderStep ==
    ASSUME StepAssumption, RaceInv, OrderInv, dir' = dir, NEW b \in Batch
    PROVE  SentInOrder(b)'
<1> USE DEF StepAssumption
<1>1. ASSUME NEW n, Preceded(n) PROVE Preceded(n)'
  BY <1>1, PrecededStays
<1>2. CASE sql'[b] = sql[b] /\ rows'[b] = rows[b]
  BY <1>1, <1>2 DEF OrderInv, SentInOrder, Listed
<1>3. CASE phase'[b] = "free" /\ sql'[b] = None
  BY <1>3 DEF SentInOrder
<1>4. ASSUME NEW r \in Replica, call'[r] = b, ApplyNext(r) \/ RecordAll(r),
             phase'[b] = "queued", phase[b] = "free"
      PROVE  SentInOrder(b)'
  <2>1. pc'[r] = "await"
    <3>1. call[r] # b
      <4>1. pc[r] = "loop"
        BY <1>4 DEF ApplyNext, RecordAll
      <4>2. call[r] = None
        BY <4>1 DEF TypeInv, WorkInv
      <4> QED
        BY <4>2, BatchAssumption
    <3>2. ~UNCHANGED call
      BY <1>4, <3>1
    <3>3. TypeInv'
      BY TypeInvStep
    <3> QED
      BY <1>4, <3>3, BatchAssumption DEF TypeInv, WorkInv
  <2>2. Carries(r)'
    BY CarriesStep DEF RaceInv
  <2>3. CASE RecordAll(r)
    BY <1>4, <2>1, <2>2, <2>3 DEF Carries, RecordAll, SentInOrder
  <2>4. CASE ApplyNext(r)
    <3>1. /\ pc[r] = "loop" /\ op[r] = "up" /\ todo[r] # {}
          /\ op' = op /\ todo' = todo
      BY <2>4 DEF ApplyNext
    <3>2. Preceded(Lowest(todo[r]))'
      BY <1>1, <3>1, NextIsPreceded DEF OrderInv
    <3>3. rows'[b] = Selected(files'[r], {Lowest(todo[r])})
      BY <1>4, <2>1, <2>2, <3>1 DEF Carries, InBatch
    <3>4. Listed(rows[b])' \subseteq {Lowest(todo[r])}
      BY <3>3 DEF Listed, Selected
    <3> QED
      BY <3>1, <3>2, <3>4 DEF SentInOrder
  <2> QED
    BY <1>4, <2>3, <2>4
<1> QED
  BY <1>2, <1>3, <1>4, BatchMoves

LEMMA HistoryInOrderStep ==
    ASSUME StepAssumption, ExecutionInv, OrderInv, OneListing, dir' = dir
    PROVE  HistoryInOrder'
<1> USE DEF StepAssumption
<1>1. ASSUME NEW n, Preceded(n) PROVE Preceded(n)'
  BY <1>1, PrecededStays
<1>2. CASE UNCHANGED execLog
  BY <1>1, <1>2 DEF OrderInv, HistoryInOrder
<1>3. ASSUME NEW b \in Batch, CommitBatch(b), execLog' # execLog
      PROVE  HistoryInOrder'
  <2>1. PICK n \in Name :
            /\ Listed(rows[b]) = {n} /\ ledger[n] = None /\ sql[b] \in Content
            /\ execLog' = Append(execLog, [name |-> n, content |-> sql[b]])
    BY <1>3, CommitEffect DEF TypeInv
  <2>2. Preceded(n)
    BY <2>1, NoneAssumption DEF OrderInv, SentInOrder
  <2>3. /\ Len(execLog) \in Nat /\ DOMAIN execLog = 1 .. Len(execLog)
        /\ DOMAIN execLog' = 1 .. (Len(execLog) + 1)
        /\ execLog'[Len(execLog) + 1] = [name |-> n, content |-> sql[b]]
        /\ \A i \in DOMAIN execLog : execLog'[i] = execLog[i]
    <3>1. execLog \in Seq(Entry) /\ [name |-> n, content |-> sql[b]] \in Entry
      BY <2>1 DEF TypeInv, TypeOK, Entry
    <3> QED
      BY <2>1, <3>1, AppendProperties, LenProperties
  <2>4. ASSUME NEW i \in DOMAIN execLog PROVE execLog[i].name < n
    <3>1. execLog[i].name \in Name /\ execLog[i].content \in Content
      BY LogEntries DEF TypeInv
    <3>2. ledger[execLog[i].name] # None
      BY <3>1, NoneAssumption DEF ExecutionInv, LedgerMatchesExecution
    <3>3. PICK k \in Checkout :
              \A m \in Listed(dir[k]) : m < execLog[i].name => ledger[m] # None
      BY DEF OrderInv, HistoryInOrder, Preceded
    <3>4. n \in Listed(dir[k])
      BY <2>2 DEF Preceded, OneListing
    <3>5. ~(n < execLog[i].name) /\ n # execLog[i].name
      BY <2>1, <3>2, <3>3, <3>4
    <3>6. n \in Nat /\ execLog[i].name \in Nat
      BY <3>1, NameAssumption
    <3> QED
      BY <3>5, <3>6
  <2>5. ASSUME NEW i \in DOMAIN execLog' PROVE Preceded(execLog[i].name)'
    <3>1. PICK m : m = execLog'[i].name
      OBVIOUS
    <3>2. Preceded(m)
      <4>1. CASE i \in DOMAIN execLog
        BY <2>3, <3>1, <4>1 DEF OrderInv, HistoryInOrder
      <4>2. CASE i = Len(execLog) + 1
        BY <2>2, <2>3, <3>1, <4>2
      <4> QED
        BY <2>3, <4>1, <4>2
    <3>3. Preceded(m)'
      BY <1>1, <3>2
    <3> QED
      BY <3>1, <3>3 DEF Preceded
  <2>6. ASSUME NEW i \in DOMAIN execLog', NEW j \in DOMAIN execLog', i < j
        PROVE  execLog'[i].name < execLog'[j].name
    <3>1. i \in DOMAIN execLog
      BY <2>3, <2>6
    <3>2. CASE j \in DOMAIN execLog
      BY <2>3, <2>6, <3>1, <3>2 DEF OrderInv, HistoryInOrder
    <3>3. CASE j = Len(execLog) + 1
      BY <2>3, <2>4, <3>1, <3>3
    <3> QED
      BY <2>3, <3>2, <3>3
  <2> QED
    BY <2>5, <2>6 DEF HistoryInOrder
<1> QED
  BY <1>2, <1>3, LedgerFrame

(* As long as every replica sees the same names, files execute in name     *)
(* order (run up_faults).                                                  *)
THEOREM OrderOfNames == Spec => []ExecutedInOrder
<1> DEFINE Inv == OneListing => OrderInv
<1>1. Init => Inv
  BY DEF Init, OrderInv, WorksOnDir, SentInOrder, HistoryInOrder
<1>2. /\ TypeInv /\ BatchInv /\ OutcomeInv /\ RaceInv
      /\ ExecutionInv /\ Inv /\ [Next]_vars
      => Inv'
  <2> SUFFICES ASSUME TypeInv, BatchInv, OutcomeInv, RaceInv, ExecutionInv, Inv,
                      [Next]_vars, OneListing'
               PROVE  OrderInv'
    OBVIOUS
  <2>1. OneListing /\ dir' = dir
    BY DirStays DEF OneListing, TypeInv
  <2>2. OrderInv
    BY <2>1
  <2> HIDE DEF Inv
  <2>3. \A r \in Replica : WorksOnDir(r)'
    BY <2>1, <2>2, WorksOnDirStep DEF OrderInv
  <2>4. \A b \in Batch : SentInOrder(b)'
    BY <2>1, <2>2, SentInOrderStep DEF StepAssumption
  <2>5. HistoryInOrder'
    BY <2>1, <2>2, HistoryInOrderStep DEF StepAssumption
  <2> QED
    BY <2>3, <2>4, <2>5 DEF OrderInv
<1>3. Inv => ExecutedInOrder
  BY DEF OneListing, OrderInv, HistoryInOrder, ExecutedInOrder
<1>4. Spec => []ExecutionInv
  <2>1. Init => ExecutionInv
    BY DEF Init, ExecutionInv, ExecutedOnce, LedgerMatchesExecution
  <2>2. TypeInv /\ BatchInv /\ ExecutionInv /\ [Next]_vars => ExecutionInv'
    BY ExecutionInvStep DEF TypeInv
  <2> QED
    BY <2>1, <2>2, RaceInvariant, PTL DEF Spec
<1> QED
  BY <1>1, <1>2, <1>3, <1>4, RaceInvariant, PTL DEF Spec

(***************************************************************************)
(* Generated types                                                         *)
(***************************************************************************)

(* What the run of `r` has applied, up to schema version `v`. *)
Covers(r, v) ==
    \A i \in DOMAIN execLog : execLog[i].name \in applied[r] => i <= v

Alone(r) == \A s \in Replica \ {r} : Home[s] # Home[r]

(* Each read of the catalogue sees what the run has applied. *)
ReadsCover(r) ==
    /\ pc[r] \in {"enums", "write"} => Covers(r, snap[r].columns)
    /\ pc[r] = "write" => Covers(r, snap[r].enums)
    /\ (Ended(r, "ok") /\ op[r] = "up" /\ CodegenOnUp /\ Alone(r)) =>
           Covers(r, types[Home[r]].columns) /\ Covers(r, types[Home[r]].enums)

(* A commit extends the history by files that no run has applied yet, so   *)
(* whatever covered a run covers it still.                                 *)
LEMMA CoversStays ==
    ASSUME StepAssumption, RaceInv, NEW r \in Replica, NEW v, Covers(r, v),
           applied'[r] = applied[r]
    PROVE  Covers(r, v)'
<1> USE DEF StepAssumption
<1>1. CASE UNCHANGED execLog
  BY <1>1 DEF Covers
<1>2. ASSUME NEW b \in Batch, CommitBatch(b), execLog' # execLog
      PROVE  Covers(r, v)'
  <2>1. PICK n \in Name :
            /\ ledger[n] = None /\ sql[b] \in Content
            /\ execLog' = Append(execLog, [name |-> n, content |-> sql[b]])
    BY <1>2, CommitEffect DEF TypeInv
  <2>2. /\ DOMAIN execLog = 1 .. Len(execLog)
        /\ DOMAIN execLog' = 1 .. (Len(execLog) + 1)
        /\ execLog'[Len(execLog) + 1] = [name |-> n, content |-> sql[b]]
        /\ \A i \in DOMAIN execLog : execLog'[i] = execLog[i]
    <3>1. execLog \in Seq(Entry) /\ [name |-> n, content |-> sql[b]] \in Entry
      BY <2>1 DEF TypeInv, TypeOK, Entry
    <3> QED
      BY <2>1, <3>1, AppendProperties, LenProperties
  <2>3. n \notin applied[r]
    BY <2>1 DEF RaceInv, Claimed, Listed
  <2>4. Len(execLog) \in Nat
    BY LenProperties DEF TypeInv, TypeOK
  <2>5. ASSUME NEW i \in DOMAIN execLog', execLog'[i].name \in applied'[r] PROVE i <= v
    <3>1. CASE i \in DOMAIN execLog
      BY <2>2, <2>5, <3>1 DEF Covers
    <3>2. CASE i = Len(execLog) + 1
      BY <2>2, <2>3, <2>5, <3>2
    <3> QED
      BY <2>2, <2>4, <3>1, <3>2
  <2> QED
    BY <2>5 DEF Covers
<1> QED
  BY <1>1, <1>2, LedgerFrame

(* Only the replicas of a checkout write its types file. *)
LEMMA TypesStay ==
    ASSUME TypeOK, [Next]_vars, NEW r \in Replica, Alone(r),
           ~WriteTypes(r)
    PROVE  types'[Home[r]] = types[Home[r]]
<1>1. ASSUME NEW s \in Replica, Progress(s) PROVE types'[Home[r]] = types[Home[r]]
  <2>1. CASE \/ EnsureTable(s) \/ EnsureTableFails(s) \/ ProbeTable(s)
             \/ FetchApplied(s) \/ ApplyNext(s) \/ RecordAll(s) \/ Finish(s)
    BY <2>1 DEF EnsureTable, EnsureTableFails, ProbeTable, FetchApplied,
       ApplyNext, RecordAll, Finish
  <2>2. CASE \/ BatchSucceeded(s) \/ BatchFailed(s) \/ AlreadyRecorded(s)
             \/ ReportFailure(s) \/ CallFails(s) \/ Timeout(s)
    BY <2>2 DEF BatchSucceeded, BatchFailed, AlreadyRecorded, ReportFailure,
       CallFails, Timeout
  <2>3. CASE ReadColumns(s) \/ ReadEnums(s) \/ CodegenFails(s)
    BY <2>3 DEF ReadColumns, ReadEnums, CodegenFails
  <2>4. CASE WriteTypes(s)
    <3>1. s # r /\ Home[s] # Home[r]
      BY <2>4 DEF Alone
    <3> QED
      BY <2>4, <3>1 DEF WriteTypes, TypeOK
  <2> QED
    BY <1>1, <2>1, <2>2, <2>3, <2>4 DEF Progress
<1>2. ASSUME NEW s \in Replica, Request(s) \/ Crash(s) PROVE types' = types
  BY <1>2 DEF Request, Up, Baseline, Codegen, Invoke, Crash
<1>3. ASSUME NEW b \in Batch, DatabaseStep(b) PROVE types' = types
  BY <1>3 DEF DatabaseStep, BeginBatch, CommitBatch, RollBackBatch, DropBatch
<1>4. CASE (\E k \in Checkout : Edit(k)) \/ Quiescent \/ UNCHANGED vars
  BY <1>4 DEF Edit, Quiescent, vars
<1> QED
  BY <1>1, <1>2, <1>3, <1>4 DEF Next

LEMMA ReadsCoverStep ==
    ASSUME StepAssumption, RaceInv, NEW r \in Replica, ReadsCover(r),
           ~Spend("unavailable"), Request(r) \/ Progress(r) \/ Crash(r)
    PROVE  ReadsCover(r)'
<1> USE DEF StepAssumption
<1> DEFINE Nothing == /\ pc'[r] \notin {"enums", "write"}
                      /\ ~(pc'[r] = "idle" /\ outcome'[r].code = "ok")
<1>1. Nothing => ReadsCover(r)'
  BY DEF ReadsCover, Ended
<1>2. CASE Request(r) \/ Crash(r)
  BY <1>1, <1>2 DEF Request, Up, Baseline, Codegen, Invoke, Crash, End, Goto, TypeInv, TypeOK
<1>3. CASE EnsureTable(r) \/ EnsureTableFails(r) \/ ProbeTable(r) \/ FetchApplied(r)
  BY <1>1, <1>3 DEF EnsureTable, EnsureTableFails, ProbeTable, FetchApplied,
     End, Goto, TypeInv, TypeOK
<1>4. CASE ApplyNext(r)
  BY <1>1, <1>4, ApplyNextOutcome
<1>5. CASE RecordAll(r) \/ BatchSucceeded(r) \/ BatchFailed(r) \/ AlreadyRecorded(r)
  BY <1>1, <1>5 DEF RecordAll, Send, BatchSucceeded, BatchFailed, AlreadyRecorded,
     Goto, TypeInv, TypeOK
<1>6. CASE Finish(r)
  <2>1. CASE op[r] = "up" /\ applied[r] # {} /\ CodegenOnUp
    BY <1>1, <1>6, <2>1 DEF Finish, Goto, TypeInv, TypeOK
  <2>2. CASE ~(op[r] = "up" /\ applied[r] # {} /\ CodegenOnUp)
    <3>1. op'[r] = op[r] /\ applied'[r] = applied[r] /\ pc'[r] = "idle"
      BY <1>6, <2>2 DEF Finish, End, TypeInv, TypeOK
    <3> QED
      BY <2>2, <3>1 DEF ReadsCover, Covers
  <2> QED
    BY <2>1, <2>2
<1>7. \A i \in DOMAIN execLog : i <= Len(execLog)
  BY LenProperties DEF TypeInv, TypeOK
<1>8. CASE ReadColumns(r)
  <2>1. /\ pc'[r] = "enums" /\ snap'[r].columns = Len(execLog)
        /\ UNCHANGED <<execLog, applied>>
    BY <1>8 DEF ReadColumns, Goto, dbVars, TypeInv, TypeOK, Version
  <2> QED
    BY <1>7, <2>1 DEF ReadsCover, Covers, Ended
<1>9. CASE ReadEnums(r)
  <2>1. /\ pc[r] = "enums" /\ pc'[r] = "write"
        /\ snap'[r].enums = Len(execLog) /\ snap'[r].columns = snap[r].columns
        /\ UNCHANGED <<execLog, applied>>
    BY <1>9 DEF ReadEnums, Goto, dbVars, TypeInv, TypeOK, Version
  <2> QED
    BY <1>7, <2>1 DEF ReadsCover, Covers, Ended
<1>10. CASE WriteTypes(r)
  <2>1. /\ pc[r] = "write" /\ pc'[r] = "idle"
        /\ types'[Home[r]] = snap[r]
        /\ UNCHANGED <<execLog, applied>>
    BY <1>10, HomeAssumption DEF WriteTypes, End, dbVars, TypeInv, TypeOK
  <2> QED
    BY <2>1 DEF ReadsCover, Covers
<1>11. CASE ReportFailure(r) \/ CallFails(r) \/ Timeout(r)
  BY <1>1, <1>11 DEF ReportFailure, CallFails, Timeout, End, TypeInv, TypeOK
<1>12. ~CodegenFails(r)
  BY DEF CodegenFails
<1> QED
  BY <1>2, <1>3, <1>4, <1>5, <1>6, <1>8, <1>9, <1>10, <1>11, <1>12 DEF Progress

(* The types of an up that returns types show what it applied, when no     *)
(* other replica writes the same file (run up_faults).                     *)
THEOREM TypesCover == Spec => []TypesCoverApplied
<1> DEFINE Inv == spent["unavailable"] = 0 => \A r \in Replica : ReadsCover(r)
<1>1. Init => Inv
  BY DEF Init, ReadsCover, Ended
<1>2. TypeInv /\ BatchInv /\ OutcomeInv /\ RaceInv /\ Inv /\ [Next]_vars => Inv'
  <2> SUFFICES ASSUME TypeInv, BatchInv, OutcomeInv, RaceInv, Inv, [Next]_vars,
                      spent'["unavailable"] = 0, NEW r \in Replica
               PROVE  ReadsCover(r)'
    OBVIOUS
  <2>1. StepAssumption
    BY DEF StepAssumption
  <2>2. ReadsCover(r) /\ ~Spend("unavailable")
    BY SpentGrows DEF FaultKind, TypeInv
  <2>3. CASE Undisturbed(r)
    <3>1. ASSUME NEW v, Covers(r, v) PROVE Covers(r, v)'
      BY <2>1, <2>3, <3>1, CoversStays DEF Undisturbed
    <3>2. /\ pc'[r] \in {"enums", "write"} => Covers(r, snap[r].columns)'
          /\ pc'[r] = "write" => Covers(r, snap[r].enums)'
      <4>1. PICK v, w : v = snap[r].columns /\ w = snap[r].enums
        OBVIOUS
      <4>2. snap'[r] = snap[r] /\ pc'[r] = pc[r]
        BY <2>3 DEF Undisturbed
      <4>3. /\ pc[r] \in {"enums", "write"} => Covers(r, v)'
            /\ pc[r] = "write" => Covers(r, w)'
        BY <2>2, <3>1, <4>1 DEF ReadsCover
      <4> QED
        BY <4>1, <4>2, <4>3 DEF Covers
    <3>3. ASSUME Ended(r, "ok"), op[r] = "up", CodegenOnUp, Alone(r)
          PROVE  Covers(r, types[Home[r]].columns)' /\ Covers(r, types[Home[r]].enums)'
      <4>1. PICK v, w : v = types[Home[r]].columns /\ w = types[Home[r]].enums
        OBVIOUS
      <4>2. types'[Home[r]] = types[Home[r]]
        <5>1. ~WriteTypes(r)
          BY <3>3 DEF WriteTypes, Ended
        <5> QED
          BY <3>3, <5>1, TypesStay DEF TypeInv
      <4>3. Covers(r, v)' /\ Covers(r, w)'
        BY <2>2, <3>1, <3>3, <4>1 DEF ReadsCover
      <4> QED
        BY <4>1, <4>2, <4>3 DEF Covers
    <3>4. pc'[r] = pc[r] /\ outcome'[r] = outcome[r] /\ op'[r] = op[r]
      BY <2>3 DEF Undisturbed
    <3> QED
      BY <3>2, <3>3, <3>4 DEF ReadsCover, Ended, Alone
  <2> QED
    BY <2>1, <2>2, <2>3, RunMoves, ReadsCoverStep
<1>3. Inv => TypesCoverApplied
  BY DEF ReadsCover, Covers, Alone, TypesCoverApplied
<1> QED
  BY <1>1, <1>2, <1>3, RaceInvariant, PTL DEF Spec

(***************************************************************************)
(* The run at startup                                                      *)
(***************************************************************************)

(* A start and another attempt are runs of up, and the end of the start is *)
(* no step of Migrator.                                                    *)
LEMMA DeployStep == [DeployNext]_deployVars => [Next]_vars
<1> SUFFICES ASSUME [DeployNext]_deployVars PROVE [Next]_vars
  OBVIOUS
<1>1. ASSUME NEW r \in Replica, Startup(r) PROVE [Next]_vars
  BY <1>1 DEF Startup, Boot, Retry, Serve, Attempt, Next, Request
<1>2. ASSUME NEW r \in Replica, Restart(r) \/ Running(Progress(r)) PROVE [Next]_vars
  BY <1>2 DEF Restart, Running, Next
<1>3. ASSUME NEW b \in Batch, Running(DatabaseStep(b)) PROVE [Next]_vars
  BY <1>3 DEF Running, Next
<1>4. CASE Running((\A r \in Replica : boot[r] = "serving") /\ Quiescent)
  BY <1>4 DEF Running, Next
<1>5. CASE UNCHANGED deployVars
  BY <1>5 DEF deployVars
<1> QED
  BY <1>1, <1>2, <1>3, <1>4, <1>5 DEF DeployNext

(* Replicas that migrate at startup, retry and restart do nothing that     *)
(* replicas which serve requests do not do: whatever is true of Migrator   *)
(* is true of a deployment (run deployment).                               *)
THEOREM DeploymentIsMigrator == DeploySpec => Spec
<1>1. DeployInit => Init
  BY DEF DeployInit
<1> QED
  BY <1>1, DeployStep, PTL DEF DeploySpec, Spec

(* How a run of up can end when the directory is as it was listed. *)
UpEnds(r) ==
    outcome[r].code \in {"ok", "CHECKSUM_MISMATCH", "MIGRATION_FAILED",
                        "DATABASE_WORKER_UNAVAILABLE"}

WellNamed(r) == Listed(dir[Home[r]]) \cap InvalidName = {}

(* A run of up has listed what is in the directory; after a restart there  *)
(* is none.                                                                *)
UpOnDir(r) ==
    (op[r] = "up" /\ (pc[r] = "idle" => outcome[r].code # "none")) =>
        /\ Listed(files[r]) = Listed(dir[Home[r]])
        /\ pc[r] = "idle" => UpEnds(r)
        /\ Ended(r, "MIGRATION_FAILED") => outcome[r].name \in Name

(* A file that is still there stays on the listing when it is read again.  *)
LEMMA RereadStays ==
    ASSUME TypeInv, OutcomeInv, NEW r \in Replica, ApplyNext(r),
           NEW n, n = Lowest(todo[r]), dir[Home[r]][n] # None
    PROVE  /\ Listed(files'[r]) = Listed(files[r])
           /\ \/ pc'[r] = "await"
              \/ /\ pc'[r] = "idle"
                 /\ outcome'[r] = [code |-> "MIGRATION_FAILED", name |-> n]
<1>1. PICK c : c = dir[Home[r]][n]
  OBVIOUS
<1>2. \/ c = None
      \/ /\ pc'[r] = "idle" /\ outcome'[r] = [code |-> "MIGRATION_FAILED", name |-> n]
         /\ Listed(files'[r]) = Listed(files[r])
      \/ pc'[r] = "await" /\ Listed(files'[r]) = Listed(files[r])
  BY <1>1, ApplyNextEffect, ZenonT(60)
<1> QED
  BY <1>1, <1>2

LEMMA UpOnDirStep ==
    ASSUME TypeInv, OutcomeInv, [Next]_vars, dir' = dir, NEW r \in Replica,
           WellNamed(r), UpOnDir(r)
    PROVE  UpOnDir(r)'
<1> USE DEF TypeInv, TypeOK
<1> DEFINE Kept == /\ op'[r] = op[r] /\ Listed(files'[r]) = Listed(files[r])
                   /\ pc[r] # "idle" /\ pc'[r] # "idle"
           Over == /\ op'[r] = op[r] /\ Listed(files'[r]) = Listed(files[r])
                   /\ pc[r] # "idle" /\ pc'[r] = "idle"
                   /\ op[r] = "up" => UpEnds(r)'
                   /\ outcome'[r].code = "MIGRATION_FAILED" => outcome'[r].name \in Name
<1>1. Kept \/ Over => UpOnDir(r)'
  BY DEF UpOnDir, Ended
<1>2. CASE Undisturbed(r)
  BY <1>2 DEF Undisturbed, UpOnDir, UpEnds, Ended
<1>3. CASE Request(r)
  <2>1. CASE Up(r)
    BY <2>1 DEF Up, Invoke, IllNamed, WellNamed, Goto, UpOnDir, Ended
  <2>2. CASE Codegen(r) \/ \E T \in BaselineNames : Baseline(r, T)
    BY <2>2 DEF Codegen, Baseline, Invoke, UpOnDir
  <2> QED
    BY <1>3, <2>1, <2>2 DEF Request
<1>4. CASE Crash(r)
  BY <1>4 DEF Crash, End, UpOnDir
<1>5. CASE ApplyNext(r)
  <2>1. PICK n : n = Lowest(todo[r])
    OBVIOUS
  <2>2. PICK c : c = dir[Home[r]][n]
    OBVIOUS
  <2>3. op'[r] = op[r] /\ op[r] = "up" /\ pc[r] = "loop"
    BY <1>5 DEF ApplyNext
  <2>4. n \in todo[r] /\ n \in Name
    BY <1>5, <2>1, <2>2, ApplyNextEffect, ZenonT(60)
  <2>5. n \in Listed(files[r])
    BY <2>3, <2>4 DEF OutcomeInv, RunOK
  <2>6. c # None
    BY <2>2, <2>3, <2>5 DEF UpOnDir, Listed
  <2>7. /\ Listed(files'[r]) = Listed(files[r])
        /\ \/ pc'[r] = "await"
           \/ /\ pc'[r] = "idle"
              /\ outcome'[r] = [code |-> "MIGRATION_FAILED", name |-> n]
    BY <1>5, <2>1, <2>2, <2>6, RereadStays
  <2> QED
    BY <1>1, <2>3, <2>4, <2>7 DEF UpEnds
<1>6. CASE EnsureTable(r) \/ EnsureTableFails(r) \/ ProbeTable(r)
  BY <1>1, <1>6 DEF EnsureTable, EnsureTableFails, ProbeTable, Goto, End, UpEnds
<1>7. CASE FetchApplied(r)
  BY <1>1, <1>7 DEF FetchApplied, Goto, End, UpEnds
<1>8. CASE RecordAll(r) \/ Finish(r)
  BY <1>1, <1>8 DEF RecordAll, Send, Finish, Goto, End, UpEnds
<1>9. CASE BatchSucceeded(r) \/ BatchFailed(r) \/ AlreadyRecorded(r)
  BY <1>1, <1>9 DEF BatchSucceeded, BatchFailed, Receive, AlreadyRecorded, Goto
<1>10. CASE ReportFailure(r)
  <2>1. /\ pc[r] = "classify" /\ pc'[r] = "idle"
        /\ UNCHANGED <<op, files>> /\ Unrecorded(r) # {}
    BY <1>10 DEF ReportFailure, End
  <2>2. Unrecorded(r) \subseteq Name
    BY InBatchType, <2>1 DEF Unrecorded, WorkInv
  <2>3. Lowest(Unrecorded(r)) \in Name
    BY <2>1, <2>2, LowestIsElement
  <2>4. UpEnds(r)' /\ (outcome'[r].code = "MIGRATION_FAILED" => outcome'[r].name \in Name)
    BY <1>10, <2>3 DEF ReportFailure, End, UpEnds
  <2> QED
    BY <1>1, <2>1, <2>4
<1>11. CASE ReadColumns(r) \/ ReadEnums(r) \/ WriteTypes(r) \/ CodegenFails(r)
  BY <1>1, <1>11 DEF ReadColumns, ReadEnums, WriteTypes, CodegenFails, Goto, End, UpEnds
<1>12. CASE CallFails(r) \/ Timeout(r)
  BY <1>1, <1>12 DEF CallFails, Timeout, End, UpEnds
<1> QED
  BY <1>2, <1>3, <1>4, <1>5, <1>6, <1>7, <1>8, <1>9, <1>10, <1>11, <1>12, RunMoves
     DEF Progress

(* The attempts are counted from a start on, and a replica that is in its  *)
(* auto run runs up, or has an answer to it.                               *)
AutoInv ==
    /\ boot \in [Replica -> {"starting", "auto", "serving"}]
    /\ attempts \in [Replica -> 0..MaxAttempts]
    /\ \A r \in Replica :
          /\ boot[r] = "starting" => attempts[r] = 0
          /\ boot[r] = "auto" =>
                /\ op[r] = "up"
                /\ pc[r] = "idle" => outcome[r].code # "none"

LEMMA ProgressAnswers ==
    ASSUME TypeInv, OutcomeInv, NEW r \in Replica, Progress(r)
    PROVE  op' = op /\ (pc'[r] = "idle" => outcome'[r].code # "none")
<1> USE DEF TypeInv, TypeOK
<1>1. CASE ApplyNext(r)
  BY <1>1, ApplyNextOutcome DEF ApplyNext
<1>2. CASE EnsureTable(r) \/ EnsureTableFails(r) \/ ProbeTable(r) \/ FetchApplied(r)
  BY <1>2 DEF EnsureTable, EnsureTableFails, ProbeTable, FetchApplied, Goto, End
<1>3. CASE RecordAll(r) \/ Finish(r) \/ BatchSucceeded(r) \/ BatchFailed(r)
  BY <1>3 DEF RecordAll, Send, Finish, BatchSucceeded, BatchFailed, Goto, End
<1>4. CASE AlreadyRecorded(r) \/ ReportFailure(r) \/ CallFails(r) \/ Timeout(r)
  BY <1>4 DEF AlreadyRecorded, ReportFailure, CallFails, Timeout, Goto, End
<1>5. CASE ReadColumns(r) \/ ReadEnums(r) \/ WriteTypes(r) \/ CodegenFails(r)
  BY <1>5 DEF ReadColumns, ReadEnums, WriteTypes, CodegenFails, Goto, End
<1> QED
  BY <1>1, <1>2, <1>3, <1>4, <1>5 DEF Progress

LEMMA AutoInvStep ==
    ASSUME TypeInv, OutcomeInv, AutoInv, [DeployNext]_deployVars
    PROVE  AutoInv'
<1> USE AttemptsAssumption DEF AutoInv
<1>1. ASSUME NEW r \in Replica, Boot(r) \/ Retry(r) PROVE AutoInv'
  <2>1. /\ Up(r) /\ attempts[r] < MaxAttempts
        /\ boot' = [boot EXCEPT ![r] = "auto"]
        /\ attempts' = [attempts EXCEPT ![r] = @ + 1]
    BY <1>1 DEF Boot, Retry, Retryable, Attempt
  <2>2. /\ op'[r] = "up" /\ (pc'[r] = "idle" => outcome'[r].code # "none")
    BY <2>1 DEF Up, Invoke, End, Goto, TypeInv, TypeOK
  <2>3. \A s \in Replica \ {r} : Undisturbed(s)
    BY <2>1, OthersStay DEF Request
  <2>4. /\ boot' \in [Replica -> {"starting", "auto", "serving"}]
        /\ attempts' \in [Replica -> 0..MaxAttempts]
        /\ \A s \in Replica \ {r} : boot'[s] = boot[s] /\ attempts'[s] = attempts[s]
        /\ boot'[r] = "auto"
    BY <2>1
  <2> QED
    BY <2>2, <2>3, <2>4 DEF Undisturbed
<1>2. ASSUME NEW r \in Replica, Serve(r) PROVE AutoInv'
  BY <1>2 DEF Serve, vars, runVars
<1>3. ASSUME NEW r \in Replica, Restart(r) PROVE AutoInv'
  <2>1. \A s \in Replica \ {r} : Undisturbed(s)
    BY <1>3, OthersStay DEF Restart
  <2>2. /\ boot' = [boot EXCEPT ![r] = "starting"]
        /\ attempts' = [attempts EXCEPT ![r] = 0]
    BY <1>3 DEF Restart
  <2> QED
    BY <2>1, <2>2 DEF Undisturbed
<1>4. ASSUME NEW r \in Replica, Running(Progress(r)) PROVE AutoInv'
  <2>1. Progress(r) /\ UNCHANGED <<boot, attempts>>
    BY <1>4 DEF Running
  <2>2. \A s \in Replica \ {r} : Undisturbed(s)
    BY <2>1, OthersStay
  <2>3. op' = op /\ (pc'[r] = "idle" => outcome'[r].code # "none")
    BY <2>1, ProgressAnswers
  <2> QED
    BY <2>1, <2>2, <2>3 DEF Undisturbed
<1>5. CASE UNCHANGED runVars /\ UNCHANGED <<boot, attempts>>
  BY <1>5 DEF runVars
<1>6. ASSUME NEW b \in Batch, Running(DatabaseStep(b))
      PROVE  UNCHANGED runVars /\ UNCHANGED <<boot, attempts>>
  BY <1>6 DEF Running, DatabaseStep, BeginBatch, CommitBatch, RollBackBatch, DropBatch
<1>7. CASE \/ Running((\A r \in Replica : boot[r] = "serving") /\ Quiescent)
           \/ UNCHANGED deployVars
  BY <1>5, <1>7 DEF Running, Quiescent, deployVars, vars
<1> QED
  BY <1>1, <1>2, <1>3, <1>4, <1>5, <1>6, <1>7 DEF DeployNext, Startup

LEMMA UpsAreOnDir ==
    Spec => []((spent["edit"] = 0 /\ \A r \in Replica : WellNamed(r))
               => \A r \in Replica : UpOnDir(r))
<1> DEFINE Named == \A r \in Replica : WellNamed(r)
           Inv == (spent["edit"] = 0 /\ Named) => \A r \in Replica : UpOnDir(r)
<1>1. Init => Inv
  BY DEF Init, UpOnDir
<1>2. TypeInv /\ BatchInv /\ OutcomeInv /\ Inv /\ [Next]_vars => Inv'
  <2> SUFFICES ASSUME TypeInv, OutcomeInv, Inv, [Next]_vars, spent'["edit"] = 0, Named',
                      NEW r \in Replica
               PROVE  UpOnDir(r)'
    OBVIOUS
  <2>1. spent["edit"] = 0 /\ dir' = dir
    BY DirStays DEF TypeInv
  <2>2. Named
    BY <2>1 DEF WellNamed
  <2> QED
    BY <2>1, <2>2, UpOnDirStep
<1> QED
  BY <1>1, <1>2, Invariants, PTL DEF Spec

(* Everything that the end of an auto run rests on. *)
SettleInv ==
    /\ TypeInv /\ AutoInv
    /\ SuccessMeansRecorded /\ FailureIsTheFiles
    /\ spent["edit"] = 0 => FromDirs
    /\ \A r \in Replica : MismatchSeen(r)
    /\ (spent["edit"] = 0 /\ \A r \in Replica : WellNamed(r))
       => \A r \in Replica : UpOnDir(r)

(* A failure would name a file that the database or the splitter refuses.  *)
LEMMA GoodFilesApply ==
    ASSUME SettleInv, GoodFiles, NEW r \in Replica, UpOnDir(r), op[r] = "up"
    PROVE  ~Ended(r, "MIGRATION_FAILED")
<1> SUFFICES ASSUME Ended(r, "MIGRATION_FAILED") PROVE FALSE
  OBVIOUS
<1> DEFINE n == outcome[r].name
<1>1. n \in Name
  BY DEF UpOnDir, Ended
<1>2. files[r][n] \in Broken \cup Unsplittable
  BY DEF SettleInv, FailureIsTheFiles, GoodFiles
<1>3. files[r][n] # None /\ FromSome(files[r][n], n)
  BY <1>1, <1>2, ContentAssumption, NoneAssumption DEF SettleInv, GoodFiles, FromDirs
<1>4. PICK k \in Checkout : files[r][n] = dir[k][n]
  BY <1>3 DEF FromSome
<1>5. n \in Listed(dir[k])
  BY <1>1, <1>3, <1>4 DEF Listed
<1> QED
  BY <1>2, <1>4, <1>5 DEF GoodFiles

(* With good files and no error of the database worker's own an auto run   *)
(* ends with everything on record that its directory holds, or with all    *)
(* its attempts used up (run deployment), for any number of replicas,      *)
(* directories and files, and however many calls time out or are lost and  *)
(* replicas restart.                                                       *)
THEOREM AutoRunsSettle == DeploySpec => AutoRunSettles
<1> DEFINE Step == \A r \in Replica :
          (GoodFiles /\ boot[r] = "auto" /\ boot'[r] = "serving") =>
              \/ /\ outcome[r].code = "ok"
                 /\ Listed(dir[Home[r]]) \subseteq Listed(ledger)
              \/ /\ outcome[r].code = "DATABASE_WORKER_UNAVAILABLE"
                 /\ attempts[r] = MaxAttempts
<1>1. DeployInit => AutoInv
  BY AttemptsAssumption DEF DeployInit, AutoInv
<1>2. DeploySpec => []AutoInv
  <2>1. TypeInv /\ OutcomeInv /\ AutoInv /\ [DeployNext]_deployVars => AutoInv'
    BY AutoInvStep
  <2> QED
    BY <1>1, <2>1, DeploymentIsMigrator, Invariants, PTL DEF DeploySpec
<1>3. DeploySpec => []SettleInv
  BY <1>2, DeploymentIsMigrator, Invariants, SuccessIsOnRecord, FailuresAreTheFiles,
     AllFromDirs, MismatchesSeen, UpsAreOnDir, PTL DEF SettleInv
<1>4. SettleInv /\ [DeployNext]_deployVars => Step
  <2> SUFFICES ASSUME SettleInv, [DeployNext]_deployVars, NEW r \in Replica,
                      GoodFiles, boot[r] = "auto", boot'[r] = "serving"
               PROVE  \/ /\ outcome[r].code = "ok"
                         /\ Listed(dir[Home[r]]) \subseteq Listed(ledger)
                      \/ /\ outcome[r].code = "DATABASE_WORKER_UNAVAILABLE"
                         /\ attempts[r] = MaxAttempts
    OBVIOUS
  <2>1. Serve(r)
    <3>1. ASSUME NEW s \in Replica, Boot(s) \/ Retry(s) PROVE FALSE
      <4>1. boot' = [boot EXCEPT ![s] = "auto"]
        BY <3>1 DEF Boot, Retry, Attempt
      <4> QED
        BY <4>1 DEF SettleInv, AutoInv
    <3>2. ASSUME NEW s \in Replica, Restart(s) PROVE FALSE
      BY <3>2 DEF Restart, SettleInv, AutoInv
    <3>3. ASSUME NEW s \in Replica, Serve(s) PROVE s = r
      BY <3>3 DEF Serve, SettleInv, AutoInv
    <3>4. boot' # boot
      OBVIOUS
    <3> QED
      BY <3>1, <3>2, <3>3, <3>4 DEF DeployNext, Startup, Running, deployVars
  <2>2. pc[r] = "idle" /\ ~Retryable(r) /\ op[r] = "up" /\ outcome[r].code # "none"
    BY <2>1 DEF Serve, SettleInv, AutoInv
  <2>3. \A s \in Replica : WellNamed(s)
    BY HomeAssumption DEF GoodFiles, WellNamed
  <2>4. UpOnDir(r)
    BY <2>3 DEF SettleInv, GoodFiles
  <2>5. UpEnds(r) /\ Listed(files[r]) = Listed(dir[Home[r]])
    BY <2>2, <2>4 DEF UpOnDir
  <2>6. outcome[r].code # "MIGRATION_FAILED"
    BY <2>2, <2>4, GoodFilesApply DEF Ended
  <2>7. outcome[r].code # "CHECKSUM_MISMATCH"
    <3>1. SameFiles
      BY DEF GoodFiles, SameFiles, Listed, SettleInv, TypeInv, TypeOK, Table
    <3> QED
      BY <2>2, <3>1, SameFilesMatch DEF SettleInv, GoodFiles, Ended
  <2>8. CASE outcome[r].code = "ok"
    BY <2>2, <2>5, <2>8 DEF SettleInv, SuccessMeansRecorded, Ended, Listed
  <2>9. CASE outcome[r].code = "DATABASE_WORKER_UNAVAILABLE"
    BY <2>2, <2>9, AttemptsAssumption DEF Retryable, SettleInv, AutoInv
  <2> QED
    BY <2>5, <2>6, <2>7, <2>8, <2>9 DEF UpEnds
<1> QED
  BY <1>3, <1>4, PTL DEF DeploySpec, AutoRunSettles
=============================================================================
