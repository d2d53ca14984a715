---------------------------- MODULE MigrationLog ----------------------------
(***************************************************************************)
(* What the `_iii_migrations` tracking table promises, whoever writes it:  *)
(* an append-only set of rows, each name recorded once with the content    *)
(* (checksum) it was recorded for, and a history of executed files in      *)
(* which a file appears only together with its row.  A file enters the     *)
(* table either because its SQL was executed in the same transaction       *)
(* (`migrate::up`) or because it was recorded without being executed       *)
(* (`migrate::baseline`).  Migrator.tla implements this specification.     *)
(***************************************************************************)
EXTENDS MigrationRows, Sequences

VARIABLES
    ledger,    \* the tracking table
    execLog    \* the files whose SQL has been executed, in commit order

logVars == <<ledger, execLog>>

Init ==
    /\ ledger = Empty
    /\ execLog = <<>>

(* One file is executed and recorded atomically. *)
Execute(n, c) ==
    /\ ledger[n] = None
    /\ ledger' = [ledger EXCEPT ![n] = c]
    /\ execLog' = Append(execLog, [name |-> n, content |-> c])

(* Files are recorded, none of them executed; all or nothing. *)
Record ==
    /\ ledger' \in Table
    /\ \A n \in Name : ledger[n] # None => ledger'[n] = ledger[n]
    /\ UNCHANGED execLog

Next ==
    \/ Record
    \/ \E n \in Name, c \in Content : Execute(n, c)

Spec == Init /\ [][Next]_logVars
=============================================================================
