---------------------------- MODULE MCCatalogues ----------------------------
(***************************************************************************)
(* Catalogues for TLC, made by a few migrations.  Table 2 is the tracking  *)
(* table, between the tables 1 and 3 in the order of names; table 4 does   *)
(* not exist.  A migration says what it needs, adds and drops.             *)
(***************************************************************************)
EXTENDS Naturals, Sequences, FiniteSets

CONSTANT MaxChanges    \* bound: migrations while a call is in progress

Column(t, c, type) == [of |-> "column", table |-> t, name |-> 0, at |-> c, is |-> <<c, type>>]
Key(t, i, c) == [of |-> "key", table |-> t, name |-> 0, at |-> i, is |-> <<c>>]
Foreign(t, n, i, pair) == [of |-> "foreign", table |-> t, name |-> n, at |-> i, is |-> pair]
Named(of, t, n, i) == [of |-> of, table |-> t, name |-> n, at |-> i, is |-> <<i>>]
Label(e, i) == [of |-> "enum", table |-> 0, name |-> e, at |-> i, is |-> <<i>>]
TableFact(t) == [of |-> "table", table |-> t, name |-> 0, at |-> 1, is |-> <<>>]

(* Two columns, and a key of both, the second one first. *)
NewTable(t) ==
    {TableFact(t), Column(t, 1, 0), Column(t, 2, 0), Key(t, 1, 2), Key(t, 2, 1)}

Tracking == NewTable(2) \cup {Named("index", 2, 1, 1)}

CreateTable1 == [needs |-> {}, adds |-> NewTable(1), drops |-> {}]

(* Two foreign keys, the first of two columns, and a trigger of the same   *)
(* name as one of table 1 on two events.                                   *)
CreateTable3 ==
    [needs |-> NewTable(1), drops |-> {},
     adds |-> NewTable(3) \cup {Foreign(3, 1, 1, <<1, 1, 2>>), Foreign(3, 1, 2, <<2, 1, 1>>),
                                Foreign(3, 2, 1, <<2, 1, 1>>),
                                Named("trigger", 3, 1, 1), Named("trigger", 3, 1, 2)}]
DropTable3 ==
    [needs |-> CreateTable3.adds, adds |-> {}, drops |-> CreateTable3.adds]
Trigger1 ==
    [needs |-> NewTable(1), drops |-> {},
     adds |-> {Named("trigger", 1, 1, 1), Named("trigger", 1, 1, 2),
               Named("trigger", 1, 2, 1), Named("index", 1, 1, 1), Named("index", 1, 2, 1)}]
CreateEnum ==
    [needs |-> {}, adds |-> {Label(1, 1), Label(1, 2), Label(2, 1)}, drops |-> {}]
AddLabel == [needs |-> {Label(1, 2)}, adds |-> {Label(1, 3)}, drops |-> {}]
AddMood ==
    [needs |-> NewTable(1) \cup {Label(1, 2)}, adds |-> {Column(1, 3, 1)}, drops |-> {}]
DropMood ==
    [needs |-> {Column(1, 3, 1)}, adds |-> {},
     drops |-> {Column(1, 3, 1), Label(1, 1), Label(1, 2), Label(1, 3)}]

Migrations ==
    [d \in {"postgres", "sqlite"} |->
        {CreateTable1, CreateTable3, DropTable3, Trigger1}
        \cup IF d = "postgres" THEN {CreateEnum, AddLabel, AddMood, DropMood} ELSE {}]

Applies(m, c) == m.needs \subseteq c /\ m.adds \cap c = {}

After(m, c) == (c \cup m.adds) \ m.drops

Changes(d, cats) ==
    cats \cup {After(p[2], p[1]) : p \in {q \in cats \X Migrations[d] : Applies(q[2], q[1])}}

(* Every catalogue that the migrations can make. *)
Catalogues ==
    [d \in DOMAIN Migrations |->
        LET n == Cardinality(Migrations[d])
            reached[i \in 0 .. n] ==
                IF i = 0 THEN {Tracking} ELSE Changes(d, reached[i - 1])
        IN  reached[n]]

(* A catalogue and what MaxChanges migrations make of it. *)
MCHistories ==
    [d \in DOMAIN Migrations |->
        LET next(h) == {Append(h, After(m, h[Len(h)])) :
                           m \in {k \in Migrations[d] : Applies(k, h[Len(h)])}}
            from[i \in 0 .. MaxChanges] ==
                IF i = 0 THEN {<<c>> : c \in Catalogues[d]}
                ELSE UNION {next(h) : h \in from[i - 1]}
        IN  from[MaxChanges]]
=============================================================================
