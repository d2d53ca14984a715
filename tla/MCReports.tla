------------------------------ MODULE MCReports -----------------------------
(***************************************************************************)
(* Instances of the calls that only report.                                *)
(*                                                                         *)
(* Reports: two files that are good SQL (a, b), no SQL (junk) or empty,    *)
(* some of them on record with what they hold, with other content, or      *)
(* without a file.                                                         *)
(*                                                                         *)
(* Introspection: the catalogues of MCCatalogues.  Its calls share nothing *)
(* with those of Reports, so one of the two is at work and the other is    *)
(* over from the start.                                                    *)
(***************************************************************************)
EXTENDS Reports, Introspection, MCCatalogues

CONSTANTS a, b, junk, blank

Dirs == {d \in Table : d[1] # None}

Ledgers == {l \in Table : l[1] \in {None, a} /\ l[2] \in {None, a, b}}

ASSUME WellFormedAssumption == WellFormed

NoCatalogue ==
    /\ dialect = "sqlite" /\ history = <<Tracking>> /\ version = 1
    /\ op = "failed" /\ only = All /\ start = 1 /\ reads = <<>>

NoDirectory ==
    /\ dir = Empty /\ ill = {} /\ ledger = Empty /\ edits = MaxEdits
    /\ pc = [r \in Reporter |-> "idle"] /\ kind = [r \in Reporter |-> "none"]
    /\ since = [r \in Reporter |-> 0] /\ scan = [r \in Reporter |-> Empty]
    /\ bad = [r \in Reporter |-> {}] /\ rows = [r \in Reporter |-> Empty]
    /\ report = [r \in Reporter |-> NoReport] /\ runs = [r \in Reporter |-> MaxRuns]

MCInit ==
    \/ Init /\ NoCatalogue
    \/ IntrospectionInit /\ NoDirectory

MCNext ==
    \/ Next /\ UNCHANGED introspectionVars
    \/ IntrospectionNext /\ UNCHANGED vars

MCSpec == MCInit /\ [][MCNext]_<<vars, introspectionVars>>
=============================================================================
