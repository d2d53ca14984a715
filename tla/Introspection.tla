---------------------------- MODULE Introspection ---------------------------
(***************************************************************************)
(* `migrate::schema` and the introspection of `migrate::codegen`: a report *)
(* put together from several queries of the database's catalogue, each of  *)
(* which sees the catalogue as it is then, while migrations change it.     *)
(* Postgres is asked once for every kind of thing; Sqlite for its tables,  *)
(* and then for the parts of each.                                         *)
(*                                                                         *)
(* A catalogue is a set of facts, one per row of a query.  Names are       *)
(* numbers, as only their order matters.  A fact is                        *)
(*    of     what it is about                                              *)
(*    table  the table it belongs to (0 for an enum)                       *)
(*    name   the constraint, index, trigger or enum (0 for a column, a     *)
(*           member of the primary key and a table)                        *)
(*    at     its place in the table, the key, the trigger or the enum      *)
(*    is     the rest: <<column, type>>, <<column, referenced table,       *)
(*           referenced column>>, <<event>>, <<label>>                     *)
(* so that every query is ordered by table, name and place.                *)
(*                                                                         *)
(* Its specification has a name of its own, so that a module can extend    *)
(* this one and Reports.                                                   *)
(***************************************************************************)
EXTENDS Naturals, Sequences, FiniteSets, Functions

CONSTANTS
    Histories,      \* per dialect: sequences of catalogues, as migrations make them
    TrackingTable,  \* the name of _iii_migrations, a positive number
    Tables          \* names that callers may ask for, positive numbers

Dialects == {"postgres", "sqlite"}

(* No table, where a request restricts the report to none. *)
All == 0

Fact ==
    [of : {"table", "column", "key", "foreign", "index", "trigger", "enum"},
     table : Nat, name : Nat, at : Nat \ {0}, is : Seq(Nat)]

Facts(catalogue, of) == {f \in catalogue : f.of = of}

(* Facts about the same table, constraint, index, trigger or enum. *)
Kin(f, g) == f.of = g.of /\ f.table = g.table /\ f.name = g.name

(* A catalogue that a database can have: it says one thing of each place;  *)
(* but for columns, which may be dropped, places are counted from 1 on; a  *)
(* table has columns, and what belongs to a table is gone with it; a type  *)
(* of a column is built in (0) or an enum, which Sqlite has none of.       *)
Possible(catalogue, d) ==
    LET tables == {f.table : f \in Facts(catalogue, "table")}
    IN  /\ IsFiniteSet(catalogue) /\ catalogue \subseteq Fact
        /\ \A f, g \in catalogue : Kin(f, g) /\ f.at = g.at => f = g
        /\ \A f \in catalogue : f.of # "column" =>
              \A i \in 1 .. f.at : \E g \in catalogue : Kin(f, g) /\ g.at = i
        /\ tables = {f.table : f \in Facts(catalogue, "column")}
        /\ \A f \in catalogue :
              /\ IF f.of = "enum" THEN f.table = 0 ELSE f.table \in tables \ {0}
              /\ f.of \in {"table", "column", "key"} => f.name = 0
              /\ f.of = "table" => f.at = 1 /\ f.is = <<>>
              /\ f.of = "column" =>
                    f.is[2] = 0 \/ \E g \in Facts(catalogue, "enum") : g.name = f.is[2]
        /\ d = "sqlite" => Facts(catalogue, "enum") = {}

WellFormed ==
    /\ TrackingTable \in Nat \ {0} /\ Tables \subseteq Nat \ {0}
    /\ \A d \in Dialects : \A h \in Histories[d] :
          /\ Len(h) \in Nat \ {0} /\ DOMAIN h = 1 .. Len(h)
          /\ \A v \in DOMAIN h : Possible(h[v], d)

VARIABLES
    dialect,
    history,   \* the catalogues, past and future
    version,   \* the one in force
    op,        \* "none", or the call: "schema", "codegen"; "failed" after an error
    only,      \* the table a schema call asks for, or All
    start,     \* the version when the call began
    reads      \* the version that each of its queries so far has seen

introspectionVars == <<dialect, history, version, op, only, start, reads>>

IntrospectionInit ==
    /\ dialect \in Dialects
    /\ history \in Histories[dialect]
    /\ version = 1
    /\ op = "none"
    /\ only = All
    /\ start = 1
    /\ reads = <<>>

(***************************************************************************)
(* The queries                                                             *)
(***************************************************************************)

Before(f, g) ==
    \/ f.table < g.table
    \/ f.table = g.table /\ f.name < g.name
    \/ f.table = g.table /\ f.name = g.name /\ f.at < g.at

(* The rows of a query, in its ORDER BY. *)
Rows(S) ==
    [i \in 1 .. Cardinality(S) |->
        CHOOSE f \in S : Cardinality({g \in S : Before(g, f)}) = i - 1]

Kinds == IF op = "schema" THEN <<"column", "key", "foreign", "index", "trigger", "enum">>
                          ELSE <<"column", "enum">>

(* Mutant of PgQueries: the enums first. *)
EnumsFirst == [i \in DOMAIN Kinds |-> [of |-> Kinds[Len(Kinds) + 1 - i], table |-> All]]

PgQueries == [i \in DOMAIN Kinds |-> [of |-> Kinds[i], table |-> All]]

(* The parts of a table; pragma_table_info also tells the primary key, and *)
(* an index's columns and definition are read with the list of indexes.    *)
Parts == IF op = "schema" THEN <<"column", "foreign", "trigger", "index">> ELSE <<"column">>

Wanted(t) == (op = "schema" => t # TrackingTable) /\ only \in {All, t}

(* SQLITE_TABLES_SQL, and once it is answered the parts of what it lists. *)
SqliteQueries ==
    LET listed == Rows({f \in Facts(history[reads[1]], "table") : Wanted(f.table)})
        n == Len(Parts)
        query(i) == IF i = 1 THEN [of |-> "table", table |-> All]
                    ELSE [of |-> Parts[((i - 2) % n) + 1],
                          table |-> listed[((i - 2) \div n) + 1].table]
    IN  [i \in 1 .. IF reads = <<>> THEN 1 ELSE 1 + n * Len(listed) |-> query(i)]

Queries == IF dialect = "postgres" THEN PgQueries ELSE SqliteQueries

Done == op \in {"schema", "codegen"} /\ Len(reads) = Len(Queries)

(* What a query of the call was answered. *)
AnswerTo(q) ==
    LET asked == IF dialect = "sqlite" /\ q.of = "key" THEN [q EXCEPT !.of = "column"] ELSE q
        k == CHOOSE i \in DOMAIN Queries : Queries[i] = asked
    IN  {f \in Facts(history[reads[k]], q.of) : q.table \in {All, f.table}}

(***************************************************************************)
(* pg_schema_from_rows, sqlite_schema_from_rows, pg_ir_from_rows,          *)
(* sqlite_ir_from_rows                                                     *)
(***************************************************************************)

(* A row joins the last group if both have the same `field`, or opens one: *)
(* the groups are the longest stretches of rows that have it in common.    *)
Stretch(rows, field, i, j) ==
    /\ i <= j
    /\ \A k \in i .. j : rows[k][field] = rows[i][field]
    /\ i > 1 => rows[i - 1][field] # rows[i][field]
    /\ j < Len(rows) => rows[j + 1][field] # rows[i][field]

Grouped(rows, field) ==
    {SubSeq(rows, p[1], p[2]) :
        p \in {q \in (DOMAIN rows) \X (DOMAIN rows) : Stretch(rows, field, q[1], q[2])}}

(* Mutant of ByName: the name of the last group is not compared. *)
ByTable(rows) == Grouped(rows, "table")

(* Foreign keys, triggers and enums. *)
ByName(rows) == Grouped(rows, "name")

(* In Postgres a table is what has columns; never the tracking table.      *)
PgTables ==
    LET kept == {f \in AnswerTo([of |-> "column", table |-> All]) : f.table # TrackingTable}
    IN  {[name |-> g[1].table, columns |-> g] : g \in Grouped(Rows(kept), "table")}

(* In Sqlite a table is what was listed.                                   *)
SqliteTables ==
    LET listed == {f \in AnswerTo([of |-> "table", table |-> All]) :
                      Wanted(f.table) /\ f.table # TrackingTable}
    IN  {[name |-> f.table, columns |-> Rows(AnswerTo([of |-> "column", table |-> f.table]))] :
            f \in listed}

(* What the other queries say of the table `t`, in their order; rows of    *)
(* tables that are not in the report fall through.                         *)
PgPart(t, of) == Rows({f \in AnswerTo([of |-> of, table |-> All]) : f.table = t})

SqlitePart(t, of) == Rows(AnswerTo([of |-> of, table |-> t]))

PartOf(t, of) == IF dialect = "postgres" THEN PgPart(t, of) ELSE SqlitePart(t, of)

Enums ==
    IF dialect = "postgres" THEN ByName(Rows(AnswerTo([of |-> "enum", table |-> All]))) ELSE {}

(* migrate::schema restricts a Postgres report at the end. *)
ReportedTables ==
    {t \in IF dialect = "postgres" THEN PgTables ELSE SqliteTables : only \in {All, t.name}}

(* pg_udt_to_ts: a type of the database's own (0) has a TypeScript type    *)
(* and an enum its alias, if it is among the enums read.                   *)
HasTsType(type) == type = 0 \/ \E e \in Enums : e[1].name = type

(* The columns that the types file gives the type `unknown`.               *)
UnknownColumns ==
    {c \in UNION {Range(t.columns) : t \in ReportedTables} : ~HasTsType(c.is[2])}

(***************************************************************************)
(* The calls and the migrations                                            *)
(***************************************************************************)

Call(what, table) ==
    /\ op = "none"
    /\ op' = what
    /\ only' = table
    /\ start' = version
    /\ UNCHANGED <<dialect, history, version, reads>>

Schema == \E t \in Tables \cup {All} : Call("schema", t)

Codegen == Call("codegen", All)

Query ==
    /\ op \in {"schema", "codegen"}
    /\ ~Done
    /\ reads' = Append(reads, version)
    /\ UNCHANGED <<dialect, history, version, op, only, start>>

(* The error of the first query that fails is the answer. *)
QueryFails ==
    /\ op \in {"schema", "codegen"}
    /\ ~Done
    /\ op' = "failed"
    /\ reads' = <<>>
    /\ UNCHANGED <<dialect, history, version, only, start>>

(* migrate::up on another worker, or anybody with a database client. *)
Migrate ==
    /\ version < Len(history)
    /\ version' = version + 1
    /\ UNCHANGED <<dialect, history, op, only, start, reads>>

IntrospectionNext == Schema \/ Codegen \/ Query \/ QueryFails \/ Migrate

IntrospectionSpec == IntrospectionInit /\ [][IntrospectionNext]_introspectionVars

(***************************************************************************)
(* Properties                                                              *)
(***************************************************************************)

(* What a report says, as facts: members of keys, constraints, triggers    *)
(* and enums have the place they have in the report.                       *)
Placed(group) == {[group[i] EXCEPT !.at = i] : i \in DOMAIN group}

TableFacts(t) ==
    LET grouped(of) == UNION {Placed(g) : g \in ByName(PartOf(t.name, of))}
    IN  {[of |-> "table", table |-> t.name, name |-> 0, at |-> 1, is |-> <<>>]}
        \cup Range(t.columns)
        \cup IF op = "codegen" THEN {}
             ELSE Placed(PartOf(t.name, "key"))
                  \cup grouped("foreign") \cup grouped("index") \cup grouped("trigger")

Reported ==
    (UNION {TableFacts(t) : t \in ReportedTables}) \cup UNION {Placed(e) : e \in Enums}

(* The facts the call is about. *)
Subject(f) ==
    /\ f.table # TrackingTable
    /\ f.of = "enum" \/ only \in {All, f.table}
    /\ op = "codegen" => f.of \in {"table", "column", "enum"}

During == start .. version

(* "Read-only structured report of the live schema" (docs/functions.md,    *)
(* migrate::schema): however migrations change the catalogue between its   *)
(* queries, a report shows everything that was there throughout the call,  *)
(* in its place, and nothing that was never there during the call; no      *)
(* table comes twice.                                                      *)
ReportIsOfItsTime ==
    Done =>
        /\ {f \in history[start] : Subject(f) /\ \A v \in During : f \in history[v]}
               \subseteq Reported
        /\ Reported \subseteq UNION {{f \in history[v] : Subject(f)} : v \in During}
        /\ \A t, u \in ReportedTables : t.name = u.name => t = u

(* Types that a migration introduces while codegen reads are declared:     *)
(* since the enums are read after the columns, a column of an enum that    *)
(* nobody drops meanwhile never gets the type unknown.                     *)
EnumColumnsTyped ==
    Done /\ op = "codegen" =>
        \A c \in UnknownColumns :
            \E u, v \in During :
                /\ u < v /\ c \in history[u]
                /\ \A f \in Facts(history[v], "enum") : f.name # c.is[2]
=============================================================================
