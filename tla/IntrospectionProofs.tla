------------------------- MODULE IntrospectionProofs ------------------------
(***************************************************************************)
(* What migrate::schema reports and what migrate::codegen types, for any   *)
(* catalogues, any migrations between the queries and any tables.          *)
(***************************************************************************)
EXTENDS Introspection, FiniteSetTheorems, SequenceTheorems, WellFoundedInduction, TLAPS

(* The rows are the facts of S, each once and in the order of the query. *)
Sorted(rows, S) ==
    \E n \in Nat :
        /\ rows \in [1 .. n -> S]
        /\ \A f \in S : \E i \in 1 .. n : rows[i] = f
        /\ \A i, j \in 1 .. n : i < j => Before(rows[i], rows[j])

(* No two facts of S are in the same place. *)
Apart(S) ==
    /\ IsFiniteSet(S)
    /\ S \subseteq Fact
    /\ \A f, g \in S : f.table = g.table /\ f.name = g.name /\ f.at = g.at => f = g

(***************************************************************************)
(* Numbers                                                                 *)
(***************************************************************************)

LEMMA LeastExists ==
    ASSUME NEW S, S \subseteq Nat, S # {}
    PROVE  \E l \in S : \A s \in S : l <= s
<1>1. PICK l \in S : \A s \in S : ~ (<<s, l>> \in OpToRel(<, Nat))
  BY NatLessThanWellFounded, WFMin, Zenon
<1>2. \A s \in S : ~ (s < l) BY <1>1, Zenon DEF OpToRel
<1>3. ASSUME NEW s \in S PROVE l <= s
  <2>1. s \in Nat /\ l \in Nat OBVIOUS
  <2>2. ~ (s < l) BY <1>2
  <2> QED BY <2>1, <2>2
<1> QED BY <1>3

LEMMA LastExists ==
    ASSUME NEW n \in Nat, NEW S, S \subseteq 1 .. n, S # {}
    PROVE  \E l \in S : \A s \in S : s <= l
<1> DEFINE T == {n - s : s \in S}
<1>1. T \subseteq Nat /\ T # {}
  <2>1. ASSUME NEW s \in S PROVE n - s \in Nat
    <3>1. s \in 1 .. n OBVIOUS
    <3> QED BY <3>1
  <2> QED BY <2>1
<1>2. PICK t \in T : \A u \in T : t <= u BY <1>1, LeastExists
<1>3. PICK l \in S : t = n - l BY <1>2
<1>4. ASSUME NEW s \in S PROVE s <= l
  <2>1. n - l <= n - s BY <1>2, <1>3
  <2>2. s \in 1 .. n /\ l \in 1 .. n OBVIOUS
  <2> QED BY <2>1, <2>2
<1> QED BY <1>4

(***************************************************************************)
(* The order of the rows                                                   *)
(***************************************************************************)

LEMMA BeforeIsStrict ==
    ASSUME NEW f \in Fact, NEW g \in Fact, NEW h \in Fact
    PROVE  /\ ~ Before(f, f)
           /\ Before(f, g) /\ Before(g, h) => Before(f, h)
           /\ Before(f, g) => ~ Before(g, f)
           /\ Before(f, g) \/ Before(g, f)
                  \/ (f.table = g.table /\ f.name = g.name /\ f.at = g.at)
<1>1. /\ {f.table, f.name, f.at} \subseteq Nat /\ {g.table, g.name, g.at} \subseteq Nat
      /\ {h.table, h.name, h.at} \subseteq Nat
  BY DEF Fact
<1>2. Before(f, g) /\ Before(g, h) => Before(f, h) BY <1>1 DEF Before
<1>3. Before(f, g) => ~ Before(g, f) BY <1>1 DEF Before
<1>4. ~ Before(f, f) BY <1>1 DEF Before
<1>5. Before(f, g) \/ Before(g, f) \/ (f.table = g.table /\ f.name = g.name /\ f.at = g.at)
  BY <1>1 DEF Before
<1> QED BY <1>2, <1>3, <1>4, <1>5

(* Where each fact comes in the answer. *)
LEMMA RanksAreSteps ==
    ASSUME NEW S, Apart(S)
    PROVE  LET rank == [f \in S |-> Cardinality({g \in S : Before(g, f)})]
               n == Cardinality(S)
           IN  /\ n \in Nat
               /\ rank \in [S -> 0 .. n - 1]
               /\ \A f, g \in S : Before(f, g) => rank[f] < rank[g]
               /\ \A i \in 0 .. n - 1 : \E f \in S : rank[f] = i
<1> DEFINE prior(f) == {g \in S : Before(g, f)}
           rank == [f \in S |-> Cardinality(prior(f))]
           n == Cardinality(S)
<1>0. IsFiniteSet(S) /\ n \in Nat BY FS_CardinalityType DEF Apart
<1>1. ASSUME NEW f \in S
      PROVE  /\ IsFiniteSet(prior(f)) /\ Cardinality(prior(f)) \in Nat
             /\ IsFiniteSet(prior(f) \cup {f})
             /\ Cardinality(prior(f) \cup {f}) = Cardinality(prior(f)) + 1
  <2>1. prior(f) \in SUBSET S OBVIOUS
  <2>2. IsFiniteSet(prior(f)) BY <1>0, <2>1, FS_Subset, Zenon
  <2>3. f \notin prior(f) BY BeforeIsStrict DEF Apart
  <2> HIDE DEF prior
  <2> QED BY <2>2, <2>3, FS_AddElement, FS_CardinalityType
<1>2. ASSUME NEW f \in S PROVE Cardinality(prior(f)) \in 0 .. n - 1
  <2>1. prior(f) \cup {f} \in SUBSET S OBVIOUS
  <2>2. Cardinality(prior(f) \cup {f}) <= n
    <3> HIDE DEF prior
    <3> QED BY <1>0, <2>1, FS_Subset
  <2>3. Cardinality(prior(f)) \in Nat BY <1>1
  <2>4. Cardinality(prior(f)) + 1 <= n BY <1>1, <2>2
  <2> HIDE DEF prior, n
  <2> QED BY <1>0, <2>3, <2>4
<1>3. ASSUME NEW f \in S, NEW g \in S, Before(f, g)
      PROVE  Cardinality(prior(f)) < Cardinality(prior(g))
  <2>1. ASSUME NEW h \in prior(f) \cup {f} PROVE h \in prior(g)
    <3>1. h \in S /\ h \in Fact /\ f \in Fact /\ g \in Fact BY DEF Apart
    <3>2. h = f \/ Before(h, f) OBVIOUS
    <3> QED BY <1>3, <3>1, <3>2, BeforeIsStrict
  <2>2. prior(f) \cup {f} \in SUBSET prior(g) BY <2>1
  <2>3. Cardinality(prior(f) \cup {f}) <= Cardinality(prior(g))
    <3>1. IsFiniteSet(prior(g)) BY <1>1
    <3> HIDE DEF prior
    <3> QED BY <2>2, <3>1, FS_Subset
  <2>4. Cardinality(prior(f)) \in Nat /\ Cardinality(prior(g)) \in Nat BY <1>1
  <2>5. Cardinality(prior(f)) + 1 <= Cardinality(prior(g)) BY <1>1, <2>3
  <2> HIDE DEF prior
  <2> QED BY <2>4, <2>5
<1>4. rank \in [S -> 0 .. n - 1] BY <1>2
<1>5. \A f, g \in S : Before(f, g) => rank[f] < rank[g] BY <1>3
<1>6. rank \in Injection(S, 0 .. n - 1)
  <2>1. ASSUME NEW f \in S, NEW g \in S, f # g PROVE rank[f] # rank[g]
    <3>1. f \in Fact /\ g \in Fact BY DEF Apart
    <3>2. Before(f, g) \/ Before(g, f) BY <2>1, <3>1, BeforeIsStrict DEF Apart
    <3>3. rank[f] \in Int /\ rank[g] \in Int
      <4> HIDE DEF rank
      <4> QED BY <1>4
    <3>4. rank[f] < rank[g] \/ rank[g] < rank[f] BY <1>5, <3>2
    <3> HIDE DEF rank
    <3> QED BY <3>3, <3>4
  <2> HIDE DEF rank
  <2> QED BY <1>4, <2>1 DEF Injection, IsInjective
<1>7. rank \in Surjection(S, 0 .. n - 1)
  <2>1. IsFiniteSet(0 .. n - 1) /\ Cardinality(0 .. n - 1) = n
    <3> HIDE DEF n
    <3> QED BY <1>0, FS_Interval
  <2> HIDE DEF rank
  <2> QED BY <1>6, <2>1, FS_Injection
<1>8. \A i \in 0 .. n - 1 : \E f \in S : rank[f] = i
  <2> HIDE DEF rank, n
  <2> QED BY <1>7 DEF Surjection
<1> QED BY <1>0, <1>4, <1>5, <1>8, Zenon

LEMMA RowsAreSorted ==
    ASSUME NEW S, Apart(S)
    PROVE  Sorted(Rows(S), S)
<1> DEFINE rank == [f \in S |-> Cardinality({g \in S : Before(g, f)})]
           n == Cardinality(S)
<1>1. /\ n \in Nat
      /\ rank \in [S -> 0 .. n - 1]
      /\ \A f, g \in S : Before(f, g) => rank[f] < rank[g]
      /\ \A i \in 0 .. n - 1 : \E f \in S : rank[f] = i
  BY RanksAreSteps, Zenon
<1> DEFINE chosen(i) == CHOOSE f \in S : Cardinality({g \in S : Before(g, f)}) = i - 1
<1>2. Rows(S) = [i \in 1 .. n |-> chosen(i)] BY Zenon DEF Rows
<1>3. ASSUME NEW i \in 1 .. n PROVE Rows(S)[i] \in S /\ rank[Rows(S)[i]] = i - 1
  <2> DEFINE Comes(f) == Cardinality({g \in S : Before(g, f)}) = i - 1
  <2>1. i - 1 \in 0 .. n - 1
    <3> HIDE DEF n
    <3> QED BY <1>1
  <2>2. PICK f \in S : rank[f] = i - 1
    <3> HIDE DEF rank
    <3> QED BY <1>1, <2>1
  <2>3. \E e \in S : Comes(e) BY <2>2
  <2>4. Rows(S)[i] = CHOOSE e \in S : Comes(e)
    <3>1. Rows(S)[i] = chosen(i)
      <4> HIDE DEF chosen, n
      <4> QED BY <1>2
    <3> QED BY <3>1, Zenon
  <2>5. Rows(S)[i] \in S /\ Comes(Rows(S)[i])
    <3> HIDE DEF Comes
    <3> QED BY <2>3, <2>4
  <2> QED BY <2>5
<1> HIDE DEF rank, n, chosen
<1>4. Rows(S) \in [1 .. n -> S] BY <1>2, <1>3
<1>5. ASSUME NEW f \in S, NEW g \in S, rank[f] <= rank[g], f # g PROVE Before(f, g)
  <2>1. f \in Fact /\ g \in Fact BY DEF Apart
  <2>2. rank[f] \in Int /\ rank[g] \in Int BY <1>1
  <2>3. ~ Before(g, f) BY <1>1, <1>5, <2>2
  <2> QED BY <1>5, <2>1, <2>3, BeforeIsStrict DEF Apart
<1>6. ASSUME NEW f \in S PROVE \E i \in 1 .. n : Rows(S)[i] = f
  <2>1. rank[f] + 1 \in 1 .. n BY <1>1
  <2>2. rank[Rows(S)[rank[f] + 1]] = rank[f] /\ Rows(S)[rank[f] + 1] \in S
    BY <1>1, <1>3, <2>1
  <2>3. rank[f] \in Int BY <1>1
  <2>4. Rows(S)[rank[f] + 1] = f
    <3> SUFFICES ASSUME Rows(S)[rank[f] + 1] # f PROVE FALSE OBVIOUS
    <3>1. Before(Rows(S)[rank[f] + 1], f) BY <1>5, <2>2, <2>3
    <3> QED BY <1>1, <2>2, <2>3, <3>1
  <2> QED BY <2>1, <2>4
<1>7. ASSUME NEW i \in 1 .. n, NEW j \in 1 .. n, i < j PROVE Before(Rows(S)[i], Rows(S)[j])
  <2>1. rank[Rows(S)[i]] = i - 1 /\ rank[Rows(S)[j]] = j - 1 BY <1>3
  <2>2. i - 1 <= j - 1 /\ i - 1 # j - 1 BY <1>1, <1>7
  <2> QED BY <1>3, <1>5, <2>1, <2>2
<1> QED BY <1>1, <1>4, <1>6, <1>7 DEF Sorted

LEMMA SortedShape ==
    ASSUME NEW S, NEW rows, Sorted(rows, S)
    PROVE  /\ Len(rows) \in Nat /\ DOMAIN rows = 1 .. Len(rows)
           /\ rows \in [1 .. Len(rows) -> S] /\ rows \in Seq(S)
           /\ Range(rows) = S
           /\ \A f \in S : \E i \in 1 .. Len(rows) : rows[i] = f
           /\ \A i, j \in 1 .. Len(rows) : i < j => Before(rows[i], rows[j])
<1>1. PICK n \in Nat :
        /\ rows \in [1 .. n -> S]
        /\ \A f \in S : \E i \in 1 .. n : rows[i] = f
        /\ \A i, j \in 1 .. n : i < j => Before(rows[i], rows[j])
  BY DEF Sorted
<1>2. rows \in Seq(S) /\ Len(rows) = n BY <1>1
<1>3. Range(rows) = S BY <1>1 DEF Range
<1> QED BY <1>1, <1>2, <1>3

(***************************************************************************)
(* Groups                                                                  *)
(***************************************************************************)

(* The rows come with `field` never decreasing. *)
Ascending(S, field) == \A f, g \in S : Before(f, g) => f[field] <= g[field]

Sharing(S, field, x) == {f \in S : f[field] = x}

LEMMA FieldsAreNumbers ==
    ASSUME NEW f \in Fact, NEW field \in {"table", "name"}
    PROVE  f[field] \in Nat
BY DEF Fact

(* In sorted rows a stretch is all there is with its value.                *)
LEMMA StretchIsAll ==
    ASSUME NEW S, S \subseteq Fact, NEW rows, Sorted(rows, S),
           NEW field \in {"table", "name"}, Ascending(S, field),
           NEW i \in 1 .. Len(rows), NEW j \in 1 .. Len(rows), Stretch(rows, field, i, j),
           NEW k \in 1 .. Len(rows)
    PROVE  rows[k][field] = rows[i][field] <=> k \in i .. j
<1>1. Len(rows) \in Nat /\ rows \in [1 .. Len(rows) -> S] BY SortedShape
<1>2. \A m \in 1 .. Len(rows) : rows[m] \in S /\ rows[m][field] \in Nat
  BY <1>1, FieldsAreNumbers
<1>3. ASSUME NEW a \in 1 .. Len(rows), NEW b \in 1 .. Len(rows), a <= b
      PROVE  rows[a][field] <= rows[b][field]
  <2>1. CASE a = b BY <1>2, <2>1
  <2>2. CASE a < b BY <1>2, <2>2, SortedShape DEF Ascending
  <2> QED BY <1>3, <2>1, <2>2
<1>4. CASE k < i
  <2>1. i - 1 \in 1 .. Len(rows) /\ k <= i - 1 /\ i > 1 BY <1>1, <1>4
  <2>2. rows[k][field] <= rows[i - 1][field] /\ rows[i - 1][field] <= rows[i][field]
    BY <1>1, <1>3, <2>1
  <2>3. rows[i - 1][field] # rows[i][field] BY <2>1 DEF Stretch
  <2> QED BY <1>2, <1>4, <2>1, <2>2, <2>3
<1>5. CASE k > j
  <2>1. j + 1 \in 1 .. Len(rows) /\ j + 1 <= k /\ j < Len(rows) BY <1>1, <1>5
  <2>2. rows[j + 1][field] <= rows[k][field] /\ rows[i][field] <= rows[j + 1][field]
    BY <1>1, <1>3, <2>1 DEF Stretch
  <2>3. rows[j + 1][field] # rows[i][field] BY <2>1 DEF Stretch
  <2> QED BY <1>2, <1>5, <2>1, <2>2, <2>3
<1>6. CASE k \in i .. j BY <1>6 DEF Stretch
<1> QED BY <1>4, <1>5, <1>6

(* A stretch is the sorted sequence of the facts that share its value.     *)
LEMMA StretchIsSorted ==
    ASSUME NEW S, S \subseteq Fact, NEW rows, Sorted(rows, S),
           NEW field \in {"table", "name"}, Ascending(S, field),
           NEW i \in 1 .. Len(rows), NEW j \in 1 .. Len(rows), Stretch(rows, field, i, j)
    PROVE  /\ SubSeq(rows, i, j)[1] = rows[i] /\ rows[i] \in S
           /\ Sorted(SubSeq(rows, i, j), Sharing(S, field, rows[i][field]))
<1> DEFINE g == SubSeq(rows, i, j)
           n == j - i + 1
           x == rows[i][field]
<1>1. /\ Len(rows) \in Nat /\ rows \in [1 .. Len(rows) -> S]
      /\ \A f \in S : \E m \in 1 .. Len(rows) : rows[m] = f
      /\ \A a, b \in 1 .. Len(rows) : a < b => Before(rows[a], rows[b])
  BY SortedShape
<1>2. i <= j /\ n \in Nat /\ n >= 1 BY DEF Stretch
<1>3. \A m \in i .. j : rows[m] \in Sharing(S, field, x)
  BY <1>1 DEF Stretch, Sharing
<1>4. /\ g \in Seq(Sharing(S, field, x))
      /\ Len(g) = n
      /\ \A m \in 1 .. n : g[m] = rows[m + i - 1]
  <2>1. \A m \in 1 .. j - i + 1 : SubSeq(rows, i, j)[m] = rows[i + m - 1]
    <3> HIDE DEF x
    <3> QED BY <1>1, <1>3, SubSeqProperties
  <2>2. /\ SubSeq(rows, i, j) \in Seq(Sharing(S, field, x))
        /\ Len(SubSeq(rows, i, j)) = IF i <= j THEN j - i + 1 ELSE 0
    <3> HIDE DEF x
    <3> QED BY <1>1, <1>3, SubSeqProperties
  <2>3. \A m \in 1 .. n : i + m - 1 = m + i - 1 OBVIOUS
  <2> QED BY <1>2, <2>1, <2>2, <2>3
<1> HIDE DEF g
<1>5. g \in [1 .. n -> Sharing(S, field, x)] BY <1>4
<1>6. g[1] = rows[i] BY <1>2, <1>4
<1>7. ASSUME NEW f \in Sharing(S, field, x) PROVE \E m \in 1 .. n : g[m] = f
  <2>1. PICK k \in 1 .. Len(rows) : rows[k] = f BY <1>1 DEF Sharing
  <2>2. k \in i .. j BY <2>1, StretchIsAll DEF Sharing
  <2>3. k - i + 1 \in 1 .. n /\ (k - i + 1) + i - 1 = k BY <1>2, <2>2
  <2> QED BY <1>4, <2>1, <2>3
<1>8. ASSUME NEW a \in 1 .. n, NEW b \in 1 .. n, a < b PROVE Before(g[a], g[b])
  <2>1. a + i - 1 \in 1 .. Len(rows) /\ b + i - 1 \in 1 .. Len(rows) /\ a + i - 1 < b + i - 1
    BY <1>1, <1>8
  <2> QED BY <1>1, <1>4, <2>1
<1>9. Sorted(g, Sharing(S, field, x)) BY <1>2, <1>5, <1>7, <1>8 DEF Sorted
<1> QED BY <1>1, <1>6, <1>9 DEF g

(* Every row is in a stretch. *)
LEMMA StretchExists ==
    ASSUME NEW S, S \subseteq Fact, NEW rows, Sorted(rows, S),
           NEW field
    PROVE  \A k \in 1 .. Len(rows) :
             \E i, j \in 1 .. Len(rows) :
                Stretch(rows, field, i, j) /\ rows[i][field] = rows[k][field]
<1> TAKE k \in 1 .. Len(rows)
<1> DEFINE x == rows[k][field]
           lefts == {i \in 1 .. k : \A m \in i .. k : rows[m][field] = x}
           rights == {j \in k .. Len(rows) : \A m \in k .. j : rows[m][field] = x}
<1>1. Len(rows) \in Nat BY SortedShape
<1>2. lefts \subseteq Nat /\ k \in lefts BY <1>1
<1>3. PICK i \in lefts : \A m \in lefts : i <= m BY <1>2, LeastExists
<1>4. rights \subseteq 1 .. Len(rows) /\ k \in rights BY <1>1
<1>5. PICK j \in rights : \A m \in rights : m <= j BY <1>1, <1>4, LastExists
<1>6. i \in 1 .. k /\ j \in k .. Len(rows) /\ i <= j /\ i \in 1 .. Len(rows) /\ j \in 1 .. Len(rows)
  BY <1>1
<1>7. rows[i][field] = x /\ \A m \in i .. j : rows[m][field] = x
  <2>1. ASSUME NEW m \in i .. j PROVE rows[m][field] = x
    <3>1. m \in i .. k \/ m \in k .. j BY <1>6
    <3> QED BY <3>1
  <2> QED BY <1>6, <2>1
<1>8. ASSUME i > 1, rows[i - 1][field] = x PROVE FALSE
  <2>1. i - 1 \in 1 .. k BY <1>6, <1>8
  <2>2. \A m \in i - 1 .. k : m = i - 1 \/ m \in i .. k BY <1>6
  <2>3. \A m \in i - 1 .. k : rows[m][field] = x
    <3>1. \A m \in i .. k : m \in i .. j BY <1>6
    <3> QED BY <1>7, <1>8, <2>2, <3>1
  <2>4. i - 1 \in lefts BY <2>1, <2>3
  <2> HIDE DEF lefts
  <2>5. i <= i - 1 BY <1>3, <2>4
  <2> QED BY <1>6, <2>5
<1>9. ASSUME j < Len(rows), rows[j + 1][field] = x PROVE FALSE
  <2>1. j + 1 \in k .. Len(rows) BY <1>1, <1>6, <1>9
  <2>2. \A m \in k .. j + 1 : m = j + 1 \/ m \in k .. j BY <1>6
  <2>3. \A m \in k .. j + 1 : rows[m][field] = x
    <3>1. \A m \in k .. j : m \in i .. j BY <1>6
    <3> QED BY <1>7, <1>9, <2>2, <3>1
  <2>4. j + 1 \in rights BY <2>1, <2>3
  <2> HIDE DEF rights
  <2>5. j + 1 <= j BY <1>5, <2>4
  <2> QED BY <1>6, <2>5
<1> HIDE DEF lefts, rights
<1> QED BY <1>6, <1>7, <1>8, <1>9 DEF Stretch

(* The groups of sorted rows are its facts by the value of the field.      *)
LEMMA GroupsAreByValue ==
    ASSUME NEW S, S \subseteq Fact, NEW rows, Sorted(rows, S),
           NEW field \in {"table", "name"}, Ascending(S, field)
    PROVE  /\ \A g \in Grouped(rows, field) :
                 g[1] \in S /\ Sorted(g, Sharing(S, field, g[1][field]))
           /\ \A f \in S : \E g \in Grouped(rows, field) : g[1][field] = f[field]
           /\ \A g, h \in Grouped(rows, field) : g[1][field] = h[1][field] => g = h
<1>0. Len(rows) \in Nat /\ DOMAIN rows = 1 .. Len(rows) BY SortedShape
<1>1. \A g \in Grouped(rows, field) :
         \E i, j \in 1 .. Len(rows) : Stretch(rows, field, i, j) /\ g = SubSeq(rows, i, j)
  BY <1>0 DEF Grouped
<1>2. \A i, j \in 1 .. Len(rows) :
         Stretch(rows, field, i, j) => SubSeq(rows, i, j) \in Grouped(rows, field)
  <2> TAKE i, j \in 1 .. Len(rows)
  <2>1. SUFFICES ASSUME Stretch(rows, field, i, j)
                 PROVE  SubSeq(rows, i, j) \in Grouped(rows, field)
    OBVIOUS
  <2>2. /\ <<i, j>> \in (DOMAIN rows) \X (DOMAIN rows)
        /\ Stretch(rows, field, <<i, j>>[1], <<i, j>>[2])
        /\ SubSeq(rows, i, j) = SubSeq(rows, <<i, j>>[1], <<i, j>>[2])
    BY <1>0, <2>1
  <2> QED BY <2>2 DEF Grouped
<1>9. ASSUME NEW i \in 1 .. Len(rows), NEW j \in 1 .. Len(rows), Stretch(rows, field, i, j)
      PROVE  /\ SubSeq(rows, i, j)[1] = rows[i] /\ rows[i] \in S
             /\ Sorted(SubSeq(rows, i, j), Sharing(S, field, rows[i][field]))
  BY <1>9, StretchIsSorted, Zenon
<1>3. ASSUME NEW g \in Grouped(rows, field)
      PROVE  g[1] \in S /\ Sorted(g, Sharing(S, field, g[1][field]))
  BY <1>1, <1>9
<1>10. \A k \in 1 .. Len(rows) :
         \E i, j \in 1 .. Len(rows) :
            Stretch(rows, field, i, j) /\ rows[i][field] = rows[k][field]
  BY StretchExists
<1>4. ASSUME NEW f \in S PROVE \E g \in Grouped(rows, field) : g[1][field] = f[field]
  <2>1. PICK k \in 1 .. Len(rows) : rows[k] = f BY SortedShape
  <2>2. PICK i, j \in 1 .. Len(rows) :
           Stretch(rows, field, i, j) /\ rows[i][field] = rows[k][field]
    BY <1>10
  <2>3. SubSeq(rows, i, j)[1] = rows[i] BY <1>9, <2>2
  <2> QED BY <1>2, <2>1, <2>2, <2>3
<1>5. ASSUME NEW g \in Grouped(rows, field), NEW h \in Grouped(rows, field),
             g[1][field] = h[1][field]
      PROVE  g = h
  <2>1. PICK i, j \in 1 .. Len(rows) : Stretch(rows, field, i, j) /\ g = SubSeq(rows, i, j)
    BY <1>1
  <2>2. PICK k, l \in 1 .. Len(rows) : Stretch(rows, field, k, l) /\ h = SubSeq(rows, k, l)
    BY <1>1
  <2>3. rows[i][field] = rows[k][field] BY <1>5, <1>9, <2>1, <2>2
  <2>4. \A m \in 1 .. Len(rows) : m \in i .. j <=> m \in k .. l
    <3> TAKE m \in 1 .. Len(rows)
    <3>1. rows[m][field] = rows[i][field] <=> m \in i .. j BY <2>1, StretchIsAll
    <3>2. Stretch(rows, field, k, l) /\ k \in 1 .. Len(rows) /\ l \in 1 .. Len(rows) BY <2>2
    <3>3. rows[m][field] = rows[k][field] <=> m \in k .. l
      <4> QED BY <3>2, StretchIsAll
    <3> QED BY <2>3, <3>1, <3>3
  <2>5. i <= j /\ k <= l BY <2>1, <2>2 DEF Stretch
  <2>6. i \in k .. l /\ j \in k .. l /\ k \in i .. j /\ l \in i .. j BY <2>4, <2>5
  <2>7. i = k /\ j = l BY <2>6
  <2> QED BY <2>1, <2>2, <2>7
<1> QED BY <1>3, <1>4, <1>5

(***************************************************************************)
(* Places                                                                  *)
(***************************************************************************)

(* All of one thing, with its places counted from 1 on. *)
Whole(S) ==
    /\ \A e, f \in S : Kin(e, f)
    /\ \A f \in S : \A i \in 1 .. f.at : \E g \in S : g.at = i

LEMMA PlacesAreKept ==
    ASSUME NEW S, S \subseteq Fact, Whole(S), NEW g, Sorted(g, S)
    PROVE  Placed(g) = S
<1>1. /\ Len(g) \in Nat /\ DOMAIN g = 1 .. Len(g) /\ g \in [1 .. Len(g) -> S]
      /\ Range(g) = S
      /\ \A f \in S : \E i \in 1 .. Len(g) : g[i] = f
      /\ \A i, j \in 1 .. Len(g) : i < j => Before(g[i], g[j])
  BY SortedShape
<1>2. \A i \in 1 .. Len(g) : g[i] \in Fact /\ g[i].at \in Nat \ {0}
  <2>1. \A f \in Fact : f.at \in Nat \ {0} BY DEF Fact
  <2>2. \A i \in 1 .. Len(g) : g[i] \in Fact BY <1>1
  <2> QED BY <2>1, <2>2
<1>3. ASSUME NEW i \in 1 .. Len(g), NEW j \in 1 .. Len(g), i < j PROVE g[i].at < g[j].at
  <2>1. Before(g[i], g[j]) /\ g[i] \in S /\ g[j] \in S BY <1>1, <1>3
  <2>2. g[i].table = g[j].table /\ g[i].name = g[j].name BY <2>1 DEF Whole, Kin
  <2>3. g[i].table \in Nat /\ g[i].name \in Nat BY <1>2 DEF Fact
  <2> QED BY <2>1, <2>2, <2>3 DEF Before
<1>4. \A i \in 1 .. Len(g) : g[i].at = i
  <2> DEFINE wrong == {i \in 1 .. Len(g) : g[i].at # i}
  <2>1. SUFFICES ASSUME wrong # {} PROVE FALSE OBVIOUS
  <2>2. wrong \subseteq Nat BY <1>1
  <2>3. PICK m \in wrong : \A i \in wrong : m <= i BY <2>1, <2>2, LeastExists
  <2>4. m \in 1 .. Len(g) /\ g[m].at # m OBVIOUS
  <2>5. \A i \in 1 .. Len(g) : i < m => g[i].at = i BY <1>1, <2>3, <2>4
  <2>6. CASE g[m].at < m
    <3>1. g[m].at \in 1 .. Len(g) BY <1>1, <1>2, <2>4, <2>6
    <3>2. g[g[m].at].at = g[m].at BY <2>5, <2>6, <3>1
    <3>3. g[g[m].at].at < g[m].at BY <1>3, <2>4, <2>6, <3>1
    <3> QED BY <1>2, <2>4, <3>2, <3>3
  <2>7. CASE g[m].at > m
    <3>1. m \in 1 .. g[m].at /\ g[m] \in S BY <1>1, <1>2, <2>4, <2>7
    <3>2. PICK f \in S : f.at = m BY <3>1 DEF Whole
    <3>3. PICK p \in 1 .. Len(g) : g[p] = f BY <1>1
    <3>4. CASE p < m BY <2>5, <3>2, <3>3, <3>4
    <3>5. CASE p = m BY <2>4, <3>2, <3>3, <3>5
    <3>6. CASE p > m
      <4>1. g[m].at < g[p].at BY <1>3, <2>4, <3>6
      <4> QED BY <1>2, <2>4, <2>7, <3>2, <3>3, <4>1
    <3> QED BY <2>4, <3>4, <3>5, <3>6
  <2>8. g[m].at \in Int /\ m \in Int BY <1>2, <2>4
  <2> QED BY <2>4, <2>6, <2>7, <2>8
<1>5. \A i \in 1 .. Len(g) : [g[i] EXCEPT !.at = i] = g[i]
  <2> TAKE i \in 1 .. Len(g)
  <2>1. g[i] \in Fact /\ i = g[i].at BY <1>2, <1>4
  <2>2. \A f \in Fact : [f EXCEPT !.at = f.at] = f BY DEF Fact
  <2> QED BY <2>1, <2>2
<1> QED BY <1>1, <1>5 DEF Placed, Range

(***************************************************************************)
(* Catalogues                                                              *)
(***************************************************************************)

(* What a catalogue says of a table, of one kind; 0 is for the enums.      *)
Part(catalogue, t, of) == {f \in Facts(catalogue, of) : f.table = t}

LEMMA AscendingTables == ASSUME NEW S, S \subseteq Fact PROVE Ascending(S, "table")
<1>1. ASSUME NEW f \in S, NEW g \in S, Before(f, g) PROVE f["table"] <= g["table"]
  <2>1. f \in Fact /\ g \in Fact OBVIOUS
  <2>2. f["table"] = f.table /\ g["table"] = g.table /\ f.table \in Nat /\ g.table \in Nat
    BY <2>1 DEF Fact
  <2> QED BY <1>1, <2>2 DEF Before
<1> QED BY <1>1 DEF Ascending

LEMMA AscendingNames ==
    ASSUME NEW S, S \subseteq Fact, \A f, g \in S : f.table = g.table
    PROVE  Ascending(S, "name")
<1>1. ASSUME NEW f \in S, NEW g \in S, Before(f, g) PROVE f["name"] <= g["name"]
  <2>1. f \in Fact /\ g \in Fact OBVIOUS
  <2>2. /\ f["name"] = f.name /\ g["name"] = g.name /\ f.name \in Nat /\ g.name \in Nat
        /\ f.table \in Nat /\ f.table = g.table
    BY <2>1 DEF Fact
  <2> QED BY <1>1, <2>2 DEF Before
<1> QED BY <1>1 DEF Ascending

LEMMA KindsAreApart ==
    ASSUME NEW d, NEW c, Possible(c, d), NEW of, NEW S, S \subseteq Facts(c, of)
    PROVE  Apart(S)
<1>1. IsFiniteSet(S)
  <2>1. S \in SUBSET c /\ IsFiniteSet(c) BY DEF Facts, Possible
  <2> QED BY <2>1, FS_Subset
<1>2. S \subseteq Fact BY DEF Facts, Possible
<1>3. ASSUME NEW f \in S, NEW g \in S,
             f.table = g.table /\ f.name = g.name /\ f.at = g.at
      PROVE  f = g
  <2>1. f \in c /\ g \in c /\ f.of = g.of BY DEF Facts
  <2> QED BY <1>3, <2>1 DEF Possible, Kin
<1> QED BY <1>1, <1>2, <1>3 DEF Apart

(* Such are all kin of a fact, unless it is of a column.                   *)
LEMMA KinAreWhole ==
    ASSUME NEW d, NEW c, Possible(c, d), NEW S, S \subseteq c,
           \A e, f \in S : Kin(e, f),
           \A f \in S : f.of # "column",
           \A f \in S : \A g \in c : Kin(f, g) => g \in S
    PROVE  Whole(S)
<1>1. ASSUME NEW f \in S, NEW i \in 1 .. f.at PROVE \E g \in S : g.at = i
  <2>1. f \in c /\ f.of # "column" OBVIOUS
  <2>2. PICK g \in c : Kin(f, g) /\ g.at = i BY <2>1 DEF Possible
  <2>3. g \in S BY <2>2
  <2> QED BY <2>2, <2>3
<1> QED BY <1>1 DEF Whole

(* The groups by name of a part of a table say what the catalogue says.    *)
LEMMA GroupsOfPart ==
    ASSUME NEW d, NEW c, Possible(c, d), NEW of, of # "column", NEW t
    PROVE  /\ UNION {Placed(g) : g \in ByName(Rows(Part(c, t, of)))} = Part(c, t, of)
           /\ \A f \in Part(c, t, of) : \E g \in ByName(Rows(Part(c, t, of))) : g[1].name = f.name
<1> DEFINE S == Part(c, t, of)
           groups == ByName(Rows(S))
<1>1. Apart(S) /\ S \subseteq Fact
  <2>1. S \subseteq Facts(c, of) BY DEF Part
  <2> QED BY <2>1, KindsAreApart DEF Apart
<1>2. Sorted(Rows(S), S) BY <1>1, RowsAreSorted
<1>3. Ascending(S, "name") BY <1>1, AscendingNames DEF Part
<1>4. /\ \A g \in groups : g[1] \in S /\ Sorted(g, Sharing(S, "name", g[1]["name"]))
      /\ \A f \in S : \E g \in groups : g[1]["name"] = f["name"]
  <2> HIDE DEF S
  <2> QED BY <1>1, <1>2, <1>3, GroupsAreByValue DEF ByName
<1>5. \A f \in S : f["name"] = f.name BY <1>1 DEF Fact
<1>6. ASSUME NEW g \in groups PROVE Placed(g) = {f \in S : f.name = g[1].name}
  <2>1. g[1] \in S /\ Sorted(g, Sharing(S, "name", g[1]["name"])) BY <1>4
  <2>2. Sharing(S, "name", g[1]["name"]) = {f \in S : f.name = g[1].name}
    BY <1>5, <2>1 DEF Sharing
  <2>3. Whole({f \in S : f.name = g[1].name})
    <3> DEFINE T == {f \in S : f.name = g[1].name}
    <3>1. T \subseteq c /\ \A f \in T : f.of # "column" BY DEF Part, Facts
    <3>2. \A e, f \in T : Kin(e, f) BY DEF Part, Facts, Kin
    <3>3. \A f \in T : \A h \in c : Kin(f, h) => h \in T BY DEF Part, Facts, Kin
    <3> HIDE DEF T, S
    <3>4. Whole(T) BY <3>1, <3>2, <3>3, KinAreWhole
    <3> QED BY <3>4 DEF T
  <2>4. {f \in S : f.name = g[1].name} \subseteq Fact BY <1>1
  <2> HIDE DEF S
  <2> QED BY <2>1, <2>2, <2>3, <2>4, PlacesAreKept
<1>7. \A f \in S : \E g \in groups : g[1].name = f.name
  <2> TAKE f \in S
  <2>1. PICK g \in groups : g[1]["name"] = f["name"] BY <1>4
  <2>2. g[1] \in S BY <1>4
  <2> QED BY <1>5, <2>1, <2>2
<1> HIDE DEF S, groups
<1>8. UNION {Placed(g) : g \in groups} = S BY <1>6, <1>7
<1> QED BY <1>7, <1>8 DEF S, groups

(* So does the key of a table, which is not grouped. *)
LEMMA KeyOfTable ==
    ASSUME NEW d, NEW c, Possible(c, d), NEW t
    PROVE  Placed(Rows(Part(c, t, "key"))) = Part(c, t, "key")
<1> DEFINE S == Part(c, t, "key")
<1>1. Apart(S) /\ S \subseteq Fact
  <2>1. S \subseteq Facts(c, "key") BY DEF Part
  <2> QED BY <2>1, KindsAreApart DEF Apart
<1>2. S = {f \in S : f.name = 0} BY DEF Part, Facts, Possible
<1>3. Whole(S)
  <2>1. S \subseteq c /\ \A f \in S : f.of # "column" BY DEF Part, Facts
  <2>2. \A e, f \in S : Kin(e, f) BY <1>2 DEF Part, Facts, Kin
  <2>3. \A f \in S : \A g \in c : Kin(f, g) => g \in S BY <1>2 DEF Part, Facts, Kin
  <2> HIDE DEF S
  <2> QED BY <2>1, <2>2, <2>3, KinAreWhole
<1> HIDE DEF S
<1>4. Sorted(Rows(S), S) BY <1>1, RowsAreSorted
<1>5. Placed(Rows(S)) = S BY <1>1, <1>3, <1>4, PlacesAreKept
<1> QED BY <1>5 DEF S

(***************************************************************************)
(* The calls                                                               *)
(***************************************************************************)

(* A call's queries see versions in force since it began, in order.        *)
Inv ==
    /\ dialect \in Dialects /\ history \in Histories[dialect]
    /\ version \in DOMAIN history
    /\ start \in 1 .. version
    /\ op \in {"none", "schema", "codegen", "failed"}
    /\ only \in Tables \cup {All}
    /\ op = "codegen" => only = All
    /\ reads \in Seq(Nat)
    /\ op = "none" => reads = <<>>
    /\ \A i \in DOMAIN reads : reads[i] \in start .. version
    /\ \A i, j \in DOMAIN reads : i <= j => reads[i] <= reads[j]

LEMMA HistoryShape ==
    ASSUME WellFormed, dialect \in Dialects, history \in Histories[dialect]
    PROVE  /\ Len(history) \in Nat \ {0} /\ DOMAIN history = 1 .. Len(history)
           /\ \A v \in DOMAIN history : Possible(history[v], dialect)
BY DEF WellFormed

LEMMA InitInv == ASSUME WellFormed PROVE IntrospectionInit => Inv
<1> SUFFICES ASSUME IntrospectionInit PROVE Inv OBVIOUS
<1>1. 1 \in DOMAIN history BY HistoryShape DEF IntrospectionInit
<1> QED BY <1>1 DEF IntrospectionInit, Inv, Dialects

LEMMA NextInv == ASSUME WellFormed PROVE Inv /\ [IntrospectionNext]_introspectionVars => Inv'
<1> SUFFICES ASSUME Inv, [IntrospectionNext]_introspectionVars PROVE Inv' OBVIOUS
<1>0. version \in Nat /\ start \in Nat /\ reads \in Seq(Nat) BY HistoryShape DEF Inv
<1>1. CASE UNCHANGED introspectionVars BY <1>1 DEF Inv, introspectionVars
<1>2. ASSUME NEW what \in {"schema", "codegen"}, NEW t \in Tables \cup {All},
             what = "codegen" => t = All, Call(what, t)
      PROVE  Inv'
  <2>1. reads = <<>> /\ DOMAIN reads = {} BY <1>2 DEF Call, Inv
  <2> QED BY <1>0, <1>2, <2>1 DEF Call, Inv
<1>3. CASE Schema BY <1>2, <1>3 DEF Schema
<1>4. CASE Codegen
  <2>1. Call("codegen", All) BY <1>4 DEF Codegen
  <2> QED BY <1>2, <2>1
<1>5. CASE Query
  <2>1. reads' = Append(reads, version) /\ UNCHANGED <<dialect, history, version, op, only, start>>
    BY <1>5 DEF Query
  <2>2. /\ reads' \in Seq(Nat) /\ Len(reads) \in Nat
        /\ DOMAIN reads' = 1 .. Len(reads) + 1 /\ DOMAIN reads = 1 .. Len(reads)
        /\ \A i \in DOMAIN reads : reads'[i] = reads[i]
        /\ reads'[Len(reads) + 1] = version
    BY <1>0, <2>1
  <2>3. \A i \in DOMAIN reads' : i \in DOMAIN reads \/ i = Len(reads) + 1 BY <2>2
  <2>4. \A i \in DOMAIN reads' : reads'[i] \in start .. version
    BY <1>0, <2>2, <2>3 DEF Inv
  <2>5. \A i, j \in DOMAIN reads' : i <= j => reads'[i] <= reads'[j]
    <3> TAKE i, j \in DOMAIN reads'
    <3>1. CASE i \in DOMAIN reads /\ j \in DOMAIN reads BY <2>2, <3>1 DEF Inv
    <3>2. CASE j = Len(reads) + 1 BY <1>0, <2>2, <2>4, <3>2
    <3>3. CASE i = Len(reads) + 1 /\ j \in DOMAIN reads BY <2>2, <3>3
    <3> QED BY <2>3, <3>1, <3>2, <3>3
  <2> QED BY <1>5, <2>1, <2>2, <2>4, <2>5 DEF Query, Inv
<1>6. CASE QueryFails BY <1>6 DEF QueryFails, Inv
<1>7. CASE Migrate
  <2>1. version' = version + 1 /\ version' \in DOMAIN history
    BY <1>0, <1>7, HistoryShape DEF Migrate, Inv
  <2> QED BY <1>0, <1>7, <2>1 DEF Migrate, Inv
<1> QED BY <1>1, <1>3, <1>4, <1>5, <1>6, <1>7 DEF IntrospectionNext

LEMMA SpecInv == ASSUME WellFormed PROVE IntrospectionSpec => []Inv
<1>1. IntrospectionInit => Inv BY InitInv
<1>2. Inv /\ [IntrospectionNext]_introspectionVars => Inv' BY NextInv
<1> QED BY <1>1, <1>2, PTL DEF IntrospectionSpec

LEMMA DuringIsPossible ==
    ASSUME WellFormed, Inv, NEW v \in During
    PROVE  v \in Nat /\ v \in DOMAIN history /\ Possible(history[v], dialect)
<1>1. v \in Nat /\ v \in DOMAIN history BY HistoryShape DEF Inv, During
<1> QED BY <1>1, HistoryShape DEF Inv

LEMMA StartIsDuring == ASSUME WellFormed, Inv PROVE start \in During
BY HistoryShape DEF Inv, During

(***************************************************************************)
(* The queries                                                             *)
(***************************************************************************)

LEMMA CountedLength ==
    ASSUME NEW n \in Nat, NEW f, f = [i \in 1 .. n |-> f[i]]
    PROVE  DOMAIN f = 1 .. n /\ Len(f) = n
<1> DEFINE S == {f[i] : i \in 1 .. n}
<1>1. f \in [1 .. n -> S] BY Zenon
<1> HIDE DEF S
<1> QED BY <1>1

LEMMA PostgresQueries ==
    ASSUME dialect = "postgres", op \in {"schema", "codegen"}
    PROVE  /\ DOMAIN Queries = 1 .. Len(Queries)
           /\ \A of \in {"column", "enum"} :
                 \E k \in DOMAIN Queries : Queries[k] = [of |-> of, table |-> All]
           /\ op = "schema" => \A of \in {"key", "foreign", "index", "trigger"} :
                 \E k \in DOMAIN Queries : Queries[k] = [of |-> of, table |-> All]
<1> DEFINE n == IF op = "schema" THEN 6 ELSE 2
<1>1. /\ DOMAIN Kinds = 1 .. n /\ n \in {2, 6}
      /\ op = "schema" => /\ Kinds[1] = "column" /\ Kinds[2] = "key" /\ Kinds[3] = "foreign"
                          /\ Kinds[4] = "index" /\ Kinds[5] = "trigger" /\ Kinds[6] = "enum"
      /\ op = "codegen" => Kinds[1] = "column" /\ Kinds[2] = "enum"
  <2>1. CASE op = "schema" BY <2>1 DEF Kinds
  <2>2. CASE op = "codegen" BY <2>2 DEF Kinds
  <2> QED BY <2>1, <2>2
<1> HIDE DEF n
<1>2. Queries = [i \in 1 .. n |-> [of |-> Kinds[i], table |-> All]] BY <1>1 DEF Queries, PgQueries
<1>3. DOMAIN Queries = 1 .. n /\ \A i \in 1 .. n : Queries[i] = [of |-> Kinds[i], table |-> All]
  BY <1>2
<1>4. DOMAIN Queries = 1 .. n /\ Len(Queries) = n BY <1>1, <1>2, CountedLength, Zenon
<1>5. CASE op = "schema"
  <2>1. n = 6 /\ {1, 2, 3, 4, 5, 6} \subseteq 1 .. n BY <1>5 DEF n
  <2> QED BY <1>1, <1>3, <1>4, <1>5, <2>1
<1>6. CASE op = "codegen"
  <2>1. n = 2 /\ {1, 2} \subseteq 1 .. n BY <1>6 DEF n
  <2> QED BY <1>1, <1>3, <1>4, <1>6, <2>1
<1> QED BY <1>5, <1>6

(* The tables whose parts the call asks for. *)
Listed == {f \in Facts(history[reads[1]], "table") : Wanted(f.table)}

LEMMA SqliteQueriesShape ==
    ASSUME dialect = "sqlite", op \in {"schema", "codegen"},
           reads # <<>> => Sorted(Rows(Listed), Listed)
    PROVE  /\ DOMAIN Queries = 1 .. Len(Queries) /\ Len(Queries) \in Nat \ {0}
           /\ Queries[1] = [of |-> "table", table |-> All]
           /\ \A k \in DOMAIN Queries : Queries[k].of = "table" => k = 1
           /\ reads # <<>> => \A f \in Listed :
                 \A of \in IF op = "schema" THEN {"column", "foreign", "trigger", "index"}
                                            ELSE {"column"} :
                    \E k \in DOMAIN Queries : Queries[k] = [of |-> of, table |-> f.table]
<1> DEFINE rows == Rows(Listed)
           n == Len(Parts)
           m == IF reads = <<>> THEN 1 ELSE 1 + n * Len(rows)
           query(i) == IF i = 1 THEN [of |-> "table", table |-> All]
                       ELSE [of |-> Parts[((i - 2) % n) + 1],
                             table |-> rows[((i - 2) \div n) + 1].table]
<1>1. Queries = [i \in 1 .. m |-> query(i)] BY Zenon DEF Queries, SqliteQueries, Listed
<1>2. /\ n = IF op = "schema" THEN 4 ELSE 1
      /\ op = "schema" => /\ Parts[1] = "column" /\ Parts[2] = "foreign"
                          /\ Parts[3] = "trigger" /\ Parts[4] = "index"
      /\ op = "codegen" => Parts[1] = "column"
  <2>1. CASE op = "schema" BY <2>1 DEF Parts
  <2>2. CASE op = "codegen" BY <2>2 DEF Parts
  <2> QED BY <2>1, <2>2
<1>3. reads # <<>> => /\ Len(rows) \in Nat
                      /\ \A f \in Listed : \E j \in 1 .. Len(rows) : rows[j] = f
  BY SortedShape
<1> HIDE DEF rows, n
<1>4. m \in Nat \ {0} /\ (reads # <<>> => m = 1 + n * Len(rows))
  <2>1. CASE n = 4 BY <1>3, <2>1
  <2>2. CASE n = 1 BY <1>3, <2>2
  <2> QED BY <1>2, <2>1, <2>2
<1> HIDE DEF m
<1>5. DOMAIN Queries = 1 .. m /\ Len(Queries) = m
  <2>1. Queries = [i \in 1 .. m |-> Queries[i]]
    <3> HIDE DEF query
    <3> QED BY <1>1
  <2> QED BY <1>4, <2>1, CountedLength
<1>6. \A i \in 1 .. m : Queries[i] = query(i) BY <1>1, Zenon
<1>7. Queries[1] = [of |-> "table", table |-> All]
  <2>1. 1 \in 1 .. m BY <1>4
  <2> QED BY <1>6, <2>1
<1>8. ASSUME NEW k \in 1 .. m, k # 1 PROVE Queries[k].of # "table"
  <2>1. Queries[k].of = Parts[((k - 2) % n) + 1]
    <3>1. Queries[k] = query(k) BY <1>6, Zenon
    <3>2. query(k) = [of |-> Parts[((k - 2) % n) + 1], table |-> rows[((k - 2) \div n) + 1].table]
      BY <1>8
    <3> QED BY <3>1, <3>2
  <2>2. k - 2 \in Nat BY <1>4, <1>8
  <2>3. CASE op = "schema"
    <3>1. (k - 2) % 4 \in 0 .. 3 BY <2>2
    <3>2. (k - 2) % n \in {0, 1, 2, 3} BY <1>2, <2>3, <3>1
    <3> QED BY <1>2, <2>1, <2>3, <3>2
  <2>4. CASE op = "codegen"
    <3>1. (k - 2) % 1 = 0 BY <2>2
    <3> QED BY <1>2, <2>1, <2>4, <3>1
  <2> QED BY <2>3, <2>4
<1>9. ASSUME reads # <<>>, NEW f \in Listed,
             NEW p \in 1 .. n
      PROVE  \E k \in 1 .. m : Queries[k] = [of |-> Parts[p], table |-> f.table]
  <2>1. PICK j \in 1 .. Len(rows) : rows[j] = f BY <1>3, <1>9
  <2>2. Len(rows) \in Nat BY <1>3, <1>9
  <2> DEFINE k == n * (j - 1) + p + 1
  <2>3. /\ k \in 1 .. m /\ k # 1 /\ (k - 2) % n = p - 1 /\ (k - 2) \div n = j - 1
    <3>1. CASE n = 4
      <4>1. k \in 1 .. m /\ k # 1 BY <1>4, <1>9, <2>2, <3>1
      <4>2. p - 1 \in 0 .. 3 /\ j - 1 \in Nat /\ k - 2 = 4 * (j - 1) + (p - 1) BY <2>2, <3>1
      <4>3. (k - 2) % 4 = p - 1 /\ (k - 2) \div 4 = j - 1
        <5> HIDE DEF k
        <5> QED BY <4>2
      <4> QED BY <3>1, <4>1, <4>3
    <3>2. CASE n = 1
      <4>1. k \in 1 .. m /\ k # 1 BY <1>4, <1>9, <2>2, <3>2
      <4>2. p = 1 /\ j - 1 \in Nat /\ k - 2 = j - 1 BY <2>2, <3>2
      <4>3. (k - 2) % 1 = p - 1 /\ (k - 2) \div 1 = j - 1
        <5> HIDE DEF k
        <5> QED BY <4>2
      <4> QED BY <3>2, <4>1, <4>3
    <3> QED BY <1>2, <3>1, <3>2
  <2> HIDE DEF k
  <2>4. p - 1 + 1 = p /\ j - 1 + 1 = j BY <1>2, <2>2
  <2>5. Queries[k] = [of |-> Parts[p], table |-> rows[j].table] BY <1>6, <2>3, <2>4
  <2> QED BY <2>1, <2>3, <2>5
<1>10. ASSUME reads # <<>>, NEW f \in Listed,
              NEW of \in IF op = "schema" THEN {"column", "foreign", "trigger", "index"}
                                          ELSE {"column"}
       PROVE  \E k \in 1 .. m : Queries[k] = [of |-> of, table |-> f.table]
  <2>1. \E p \in 1 .. n : Parts[p] = of
    <3>1. CASE op = "schema"
      <4>1. {1, 2, 3, 4} \subseteq 1 .. n BY <1>2, <3>1
      <4> QED BY <1>2, <1>10, <3>1, <4>1
    <3>2. CASE op = "codegen"
      <4>1. 1 \in 1 .. n BY <1>2, <3>2
      <4> QED BY <1>2, <1>10, <3>2, <4>1
    <3> QED BY <3>1, <3>2
  <2> QED BY <1>9, <1>10, <2>1
<1> QED BY <1>4, <1>5, <1>7, <1>8, <1>10

(* The query that tells of a kind, and what it was told. *)
AskedFor(of, t) ==
    [of |-> IF dialect = "sqlite" /\ of = "key" THEN "column" ELSE of, table |-> t]

AnsweredBy(j, of, t) ==
    /\ reads[j] \in During
    /\ AnswerTo([of |-> of, table |-> t]) =
          {f \in Facts(history[reads[j]], of) : t \in {All, f.table}}

(* What a query of the call was answered, it was answered during the call. *)
LEMMA AnswerIs ==
    ASSUME Inv, Done, DOMAIN Queries = 1 .. Len(Queries), NEW of, NEW t,
           NEW k \in DOMAIN Queries, Queries[k] = AskedFor(of, t)
    PROVE  \E j \in DOMAIN Queries : Queries[j] = Queries[k] /\ AnsweredBy(j, of, t)
<1> DEFINE q == [of |-> of, table |-> t]
           asked == IF dialect = "sqlite" /\ q.of = "key" THEN [q EXCEPT !.of = "column"] ELSE q
           j == CHOOSE i \in DOMAIN Queries : Queries[i] = asked
<1>1. asked = Queries[k] BY DEF AskedFor
<1>2. j \in DOMAIN Queries /\ Queries[j] = asked
  <2> HIDE DEF asked
  <2> QED BY <1>1
<1>3. DOMAIN reads = DOMAIN Queries BY DEF Done, Inv
<1>4. AnswerTo(q) = {f \in Facts(history[reads[j]], q.of) : q.table \in {All, f.table}}
  BY Zenon DEF AnswerTo
<1>5. q.of = of /\ q.table = t OBVIOUS
<1> HIDE DEF q, asked, j
<1>6. reads[j] \in During BY <1>2, <1>3 DEF Inv, During
<1>7. AnswerTo(q) = {f \in Facts(history[reads[j]], of) : t \in {All, f.table}} BY <1>4, <1>5
<1> QED BY <1>1, <1>2, <1>6, <1>7 DEF q, AnsweredBy

LEMMA PostgresAnswers ==
    ASSUME Inv, Done, dialect = "postgres", NEW of,
           \/ of \in {"column", "enum"}
           \/ op = "schema" /\ of \in {"key", "foreign", "index", "trigger"}
    PROVE  \E v \in During : AnswerTo([of |-> of, table |-> All]) = Facts(history[v], of)
<1>1. op \in {"schema", "codegen"} BY DEF Done
<1>2. DOMAIN Queries = 1 .. Len(Queries) BY <1>1, PostgresQueries
<1>3. PICK k \in DOMAIN Queries : Queries[k] = [of |-> of, table |-> All]
  BY <1>1, PostgresQueries
<1>4. Queries[k] = AskedFor(of, All) BY <1>3 DEF AskedFor
<1>5. PICK j \in DOMAIN Queries : AnsweredBy(j, of, All) BY <1>2, <1>4, AnswerIs
<1>6. AnswerTo([of |-> of, table |-> All]) = Facts(history[reads[j]], of)
  BY <1>5 DEF AnsweredBy
<1> QED BY <1>5, <1>6 DEF AnsweredBy

LEMMA SqliteAnswers ==
    ASSUME WellFormed, Inv, Done, dialect = "sqlite"
    PROVE  /\ reads[1] \in During
           /\ AnswerTo([of |-> "table", table |-> All]) = Facts(history[reads[1]], "table")
           /\ \A f \in Listed :
                 \A of \in {"column"} \cup
                           IF op = "schema" THEN {"key", "foreign", "index", "trigger"} ELSE {} :
                    \E v \in During : AnswerTo([of |-> of, table |-> f.table]) =
                                         Part(history[v], f.table, of)
<1>1. op \in {"schema", "codegen"} /\ Len(reads) = Len(Queries) BY DEF Done
<1>2. reads # <<>> => reads[1] \in During
  <2>1. reads # <<>> => 1 \in DOMAIN reads BY DEF Inv
  <2> QED BY <2>1 DEF Inv, During
<1>3. reads # <<>> => Apart(Listed) /\ Sorted(Rows(Listed), Listed)
  <2>1. SUFFICES ASSUME reads # <<>> PROVE Apart(Listed) /\ Sorted(Rows(Listed), Listed) OBVIOUS
  <2>2. Possible(history[reads[1]], dialect) BY <1>2, <2>1, DuringIsPossible
  <2>3. Listed \subseteq Facts(history[reads[1]], "table") BY DEF Listed
  <2>4. Apart(Listed) BY <2>2, <2>3, KindsAreApart, Zenon
  <2> QED BY <2>4, RowsAreSorted
<1>4. /\ DOMAIN Queries = 1 .. Len(Queries) /\ Len(Queries) \in Nat \ {0}
      /\ Queries[1] = [of |-> "table", table |-> All]
      /\ \A k \in DOMAIN Queries : Queries[k].of = "table" => k = 1
      /\ reads # <<>> => \A f \in Listed :
            \A of \in IF op = "schema" THEN {"column", "foreign", "trigger", "index"}
                                       ELSE {"column"} :
               \E k \in DOMAIN Queries : Queries[k] = [of |-> of, table |-> f.table]
  BY <1>1, <1>3, SqliteQueriesShape, Zenon
<1>5. reads # <<>> BY <1>1, <1>4
<1>6. reads[1] \in During BY <1>2, <1>5
<1>7. AnswerTo([of |-> "table", table |-> All]) = Facts(history[reads[1]], "table")
  <2>1. 1 \in DOMAIN Queries BY <1>4
  <2>2. Queries[1] = AskedFor("table", All) BY <1>4 DEF AskedFor
  <2>3. PICK j \in DOMAIN Queries : Queries[j] = Queries[1] /\ AnsweredBy(j, "table", All)
    BY <1>4, <2>1, <2>2, AnswerIs
  <2>4. j = 1 BY <1>4, <2>3
  <2> QED BY <2>3, <2>4 DEF AnsweredBy
<1>8. ASSUME NEW f \in Listed,
             NEW of \in {"column"} \cup
                        IF op = "schema" THEN {"key", "foreign", "index", "trigger"} ELSE {}
      PROVE  \E v \in During : AnswerTo([of |-> of, table |-> f.table]) =
                                  Part(history[v], f.table, of)
  <2>1. f.table # All
    <3>1. Possible(history[reads[1]], dialect) BY <1>6, DuringIsPossible
    <3>2. f \in history[reads[1]] /\ f.of = "table" BY DEF Listed, Facts
    <3> QED BY <3>1, <3>2 DEF Possible, All
  <2>2. (IF of = "key" THEN "column" ELSE of)
           \in IF op = "schema" THEN {"column", "foreign", "trigger", "index"} ELSE {"column"}
    OBVIOUS
  <2>3. PICK k \in DOMAIN Queries :
           Queries[k] = [of |-> IF of = "key" THEN "column" ELSE of, table |-> f.table]
    BY <1>4, <1>5, <2>2
  <2>4. Queries[k] = AskedFor(of, f.table) BY <2>3 DEF AskedFor
  <2>5. PICK j \in DOMAIN Queries : AnsweredBy(j, of, f.table) BY <1>4, <2>4, AnswerIs
  <2>6. AnswerTo([of |-> of, table |-> f.table]) = Part(history[reads[j]], f.table, of)
    BY <2>1, <2>5 DEF Part, AnsweredBy
  <2> QED BY <2>5, <2>6 DEF AnsweredBy
<1> QED BY <1>6, <1>7, <1>8

(***************************************************************************)
(* The tables of the report                                                *)
(***************************************************************************)

(* A table is as the catalogue had it during the call, part by part.       *)
Faithful(t) ==
    /\ t.name # TrackingTable /\ only \in {All, t.name}
    /\ \E v \in During : Part(history[v], t.name, "table") # {}
    /\ \E v \in During : Range(t.columns) = Part(history[v], t.name, "column")
    /\ op = "schema" => \A of \in {"key", "foreign", "index", "trigger"} :
          \E v \in During : PartOf(t.name, of) = Rows(Part(history[v], t.name, of))

(* A table that was there throughout is in the report. *)
Complete ==
    \A n : n # TrackingTable /\ only \in {All, n}
               /\ (\A v \in During : Part(history[v], n, "table") # {})
           => \E t \in ReportedTables : t.name = n

Once == \A t, u \in ReportedTables : t.name = u.name => t = u

LEMMA PartsAreSorted ==
    ASSUME NEW d, NEW c, Possible(c, d), NEW t, NEW of
    PROVE  /\ Part(c, t, of) \subseteq Fact
           /\ Apart(Part(c, t, of)) /\ Sorted(Rows(Part(c, t, of)), Part(c, t, of))
           /\ Range(Rows(Part(c, t, of))) = Part(c, t, of)
<1> DEFINE S == Part(c, t, of)
<1>1. S \subseteq Facts(c, of) BY DEF Part
<1>2. Apart(S) BY <1>1, KindsAreApart
<1> HIDE DEF S
<1>3. Sorted(Rows(S), S) BY <1>2, RowsAreSorted
<1>4. Range(Rows(S)) = S BY <1>3, SortedShape
<1>5. S \subseteq Fact BY <1>2 DEF Apart
<1> QED BY <1>2, <1>3, <1>4, <1>5 DEF S

LEMMA TablesHaveColumns ==
    ASSUME NEW d, NEW c, Possible(c, d), NEW n
    PROVE  Part(c, n, "table") # {} <=> Part(c, n, "column") # {}
<1>1. {f.table : f \in Facts(c, "table")} = {f.table : f \in Facts(c, "column")} BY DEF Possible
<1>2. Part(c, n, "table") # {} <=> n \in {f.table : f \in Facts(c, "table")} BY DEF Part
<1>3. Part(c, n, "column") # {} <=> n \in {f.table : f \in Facts(c, "column")} BY DEF Part
<1> QED BY <1>1, <1>2, <1>3

LEMMA PostgresTables ==
    ASSUME WellFormed, Inv, Done, dialect = "postgres"
    PROVE  (\A t \in ReportedTables : Faithful(t)) /\ Complete /\ Once
<1>1. PICK v \in During : AnswerTo([of |-> "column", table |-> All]) = Facts(history[v], "column")
  BY PostgresAnswers
<1>2. Possible(history[v], dialect) BY DuringIsPossible
<1> DEFINE kept == {f \in Facts(history[v], "column") : f.table # TrackingTable}
           G == Grouped(Rows(kept), "table")
<1>3. PgTables = {[name |-> g[1].table, columns |-> g] : g \in G} BY <1>1 DEF PgTables
<1>4. Apart(kept) /\ kept \subseteq Fact
  <2>1. kept \subseteq Facts(history[v], "column") OBVIOUS
  <2> HIDE DEF kept
  <2> QED BY <1>2, <2>1, KindsAreApart DEF Apart
<1>5. /\ \A g \in G : g[1] \in kept /\ Sorted(g, Sharing(kept, "table", g[1]["table"]))
      /\ \A f \in kept : \E g \in G : g[1]["table"] = f["table"]
      /\ \A g, h \in G : g[1]["table"] = h[1]["table"] => g = h
  <2> HIDE DEF kept
  <2>1. Sorted(Rows(kept), kept) BY <1>4, RowsAreSorted
  <2>2. Ascending(kept, "table") BY <1>4, AscendingTables
  <2> QED BY <1>4, <2>1, <2>2, GroupsAreByValue
<1>6. \A f \in kept : f["table"] = f.table BY <1>4 DEF Fact
<1> DEFINE table(g) == [name |-> g[1].table, columns |-> g]
<1>7. ReportedTables = {t \in {table(g) : g \in G} : only \in {All, t.name}}
  BY <1>3 DEF ReportedTables
<1> HIDE DEF G
<1>8. ASSUME NEW g \in G, only \in {All, g[1].table} PROVE Faithful(table(g))
  <2> DEFINE n == g[1].table
  <2>1. g[1] \in kept /\ Sorted(g, Sharing(kept, "table", g[1]["table"])) BY <1>5
  <2>2. n # TrackingTable /\ g[1]["table"] = n BY <1>6, <2>1
  <2>3. Sharing(kept, "table", n) = Part(history[v], n, "column")
    BY <1>6, <2>2 DEF Sharing, Part
  <2>4. Range(g) = Part(history[v], n, "column") BY <2>1, <2>2, <2>3, SortedShape
  <2>5. Part(history[v], n, "table") # {}
    <3>1. g[1] \in Part(history[v], n, "column") BY <2>1 DEF Part
    <3> QED BY <1>2, <3>1, TablesHaveColumns
  <2>6. ASSUME op = "schema", NEW of \in {"key", "foreign", "index", "trigger"}
        PROVE  \E w \in During : PartOf(n, of) = Rows(Part(history[w], n, of))
    <3>1. PICK w \in During : AnswerTo([of |-> of, table |-> All]) = Facts(history[w], of)
      BY <2>6, PostgresAnswers
    <3> QED BY <3>1 DEF PartOf, PgPart, Part
  <2>7. table(g).name = n /\ table(g).columns = g OBVIOUS
  <2> HIDE DEF n, table
  <2> QED BY <1>8, <2>2, <2>4, <2>5, <2>6, <2>7 DEF Faithful, n
<1>9. \A t \in ReportedTables : Faithful(t)
  <2> TAKE t \in ReportedTables
  <2>1. PICK g \in G : t = table(g) /\ only \in {All, g[1].table} BY <1>7
  <2> QED BY <1>8, <2>1
<1>10. Complete
  <2> SUFFICES ASSUME NEW n, n # TrackingTable, only \in {All, n},
                      \A w \in During : Part(history[w], n, "table") # {}
               PROVE  \E t \in ReportedTables : t.name = n
    BY DEF Complete
  <2>1. PICK f \in Part(history[v], n, "column") : TRUE BY <1>2, TablesHaveColumns
  <2>2. f \in kept /\ f.table = n BY <2>1 DEF Part
  <2>3. PICK g \in G : g[1]["table"] = f["table"] BY <1>5, <2>2
  <2>4. g[1].table = n BY <1>5, <1>6, <2>2, <2>3
  <2>5. table(g) \in ReportedTables /\ table(g).name = n BY <1>7, <2>4
  <2> QED BY <2>5
<1>11. Once
  <2> SUFFICES ASSUME NEW t \in ReportedTables, NEW u \in ReportedTables, t.name = u.name
               PROVE  t = u
    BY DEF Once
  <2>1. PICK g \in G : t = table(g) BY <1>7
  <2>2. PICK h \in G : u = table(h) BY <1>7
  <2>3. g[1].table = h[1].table BY <2>1, <2>2
  <2>4. g = h BY <1>5, <1>6, <2>3
  <2> QED BY <2>1, <2>2, <2>4
<1> QED BY <1>9, <1>10, <1>11

LEMMA SqliteTablesAre ==
    ASSUME WellFormed, Inv, Done, dialect = "sqlite"
    PROVE  (\A t \in ReportedTables : Faithful(t)) /\ Complete /\ Once
<1> DEFINE v == reads[1]
           listed == {f \in Facts(history[v], "table") : Wanted(f.table) /\ f.table # TrackingTable}
           columns(n) == Rows(AnswerTo([of |-> "column", table |-> n]))
           table(f) == [name |-> f.table, columns |-> columns(f.table)]
<1>1. /\ v \in During
      /\ AnswerTo([of |-> "table", table |-> All]) = Facts(history[v], "table")
      /\ \A f \in Listed :
            \A of \in {"column"} \cup
                      IF op = "schema" THEN {"key", "foreign", "index", "trigger"} ELSE {} :
               \E w \in During : AnswerTo([of |-> of, table |-> f.table]) =
                                    Part(history[w], f.table, of)
  BY SqliteAnswers
<1>2. listed \subseteq Listed BY DEF Listed
<1>3. ReportedTables = {t \in {table(f) : f \in listed} : only \in {All, t.name}}
  <2>1. SqliteTables = {table(f) : f \in listed} BY <1>1 DEF SqliteTables
  <2> QED BY <2>1 DEF ReportedTables
<1>4. ASSUME NEW f \in listed, only \in {All, f.table} PROVE Faithful(table(f))
  <2> DEFINE n == f.table
  <2>1. n # TrackingTable /\ f \in Listed BY <1>2
  <2>2. Part(history[v], n, "table") # {} BY DEF Part
  <2>3. PICK w \in During :
           AnswerTo([of |-> "column", table |-> n]) = Part(history[w], n, "column")
    BY <1>1, <2>1
  <2>4. Range(columns(n)) = Part(history[w], n, "column")
    <3>1. Possible(history[w], dialect) BY DuringIsPossible
    <3> QED BY <2>3, <3>1, PartsAreSorted
  <2>5. ASSUME op = "schema", NEW of \in {"key", "foreign", "index", "trigger"}
        PROVE  \E u \in During : PartOf(n, of) = Rows(Part(history[u], n, of))
    <3>1. PICK u \in During : AnswerTo([of |-> of, table |-> n]) = Part(history[u], n, of)
      BY <1>1, <2>1, <2>5
    <3> QED BY <3>1 DEF PartOf, SqlitePart
  <2>6. table(f).name = n /\ table(f).columns = columns(n) OBVIOUS
  <2> HIDE DEF n, table, columns
  <2> QED BY <1>1, <1>4, <2>1, <2>2, <2>4, <2>5, <2>6 DEF Faithful, n
<1>5. \A t \in ReportedTables : Faithful(t)
  <2> TAKE t \in ReportedTables
  <2>1. PICK f \in listed : t = table(f) /\ only \in {All, f.table} BY <1>3
  <2> QED BY <1>4, <2>1
<1>6. Complete
  <2> SUFFICES ASSUME NEW n, n # TrackingTable, only \in {All, n},
                      \A w \in During : Part(history[w], n, "table") # {}
               PROVE  \E t \in ReportedTables : t.name = n
    BY DEF Complete
  <2>1. PICK f \in Part(history[v], n, "table") : TRUE BY <1>1
  <2>2. f \in listed /\ f.table = n BY <2>1 DEF Part, Wanted
  <2>3. table(f) \in ReportedTables /\ table(f).name = n BY <1>3, <2>2
  <2> QED BY <2>3
<1>7. Once
  <2> SUFFICES ASSUME NEW t \in ReportedTables, NEW u \in ReportedTables, t.name = u.name
               PROVE  t = u
    BY DEF Once
  <2>1. PICK f \in listed : t = table(f) BY <1>3
  <2>2. PICK g \in listed : u = table(g) BY <1>3
  <2>3. f.table = g.table BY <2>1, <2>2
  <2> QED BY <2>1, <2>2, <2>3
<1> QED BY <1>5, <1>6, <1>7

LEMMA TablesAreOfTheirTime ==
    ASSUME WellFormed, Inv, Done
    PROVE  (\A t \in ReportedTables : Faithful(t)) /\ Complete /\ Once
<1>1. dialect \in {"postgres", "sqlite"} BY DEF Inv, Dialects
<1> QED BY <1>1, PostgresTables, SqliteTablesAre

LEMMA EnumsAreAPart ==
    ASSUME NEW d, NEW c, Possible(c, d)
    PROVE  Facts(c, "enum") = Part(c, 0, "enum")
BY DEF Possible, Facts, Part

(* The enums of a report are those of one version. *)
LEMMA EnumsAreOfTheirTime ==
    ASSUME WellFormed, Inv, Done
    PROVE  \E v \in During : UNION {Placed(e) : e \in Enums} = Facts(history[v], "enum")
<1>1. CASE dialect = "postgres"
  <2>1. PICK v \in During : AnswerTo([of |-> "enum", table |-> All]) = Facts(history[v], "enum")
    BY <1>1, PostgresAnswers
  <2>2. Possible(history[v], dialect) BY DuringIsPossible
  <2>3. Facts(history[v], "enum") = Part(history[v], 0, "enum") BY <2>2, EnumsAreAPart
  <2>4. Enums = ByName(Rows(Part(history[v], 0, "enum"))) BY <1>1, <2>1, <2>3 DEF Enums
  <2>5. UNION {Placed(g) : g \in ByName(Rows(Part(history[v], 0, "enum")))}
           = Part(history[v], 0, "enum")
    BY <2>2, GroupsOfPart
  <2> QED BY <2>3, <2>4, <2>5
<1>2. CASE dialect # "postgres"
  <2>1. dialect = "sqlite" BY <1>2 DEF Inv, Dialects
  <2>2. Possible(history[start], dialect) /\ start \in During
    BY StartIsDuring, DuringIsPossible
  <2>3. Facts(history[start], "enum") = {} BY <2>1, <2>2 DEF Possible
  <2>4. Enums = {} BY <1>2 DEF Enums
  <2> QED BY <2>2, <2>3, <2>4
<1> QED BY <1>1, <1>2

(***************************************************************************)
(* The report                                                              *)
(***************************************************************************)

LEMMA TheTableFact ==
    ASSUME NEW d, NEW c, Possible(c, d), NEW n, NEW f \in Part(c, n, "table")
    PROVE  f = [of |-> "table", table |-> n, name |-> 0, at |-> 1, is |-> <<>>]
<1>1. /\ f \in Fact /\ f.of = "table" /\ f.table = n /\ f.name = 0 /\ f.at = 1 /\ f.is = <<>>
  BY DEF Possible, Part, Facts
<1>2. f = [of |-> f.of, table |-> f.table, name |-> f.name, at |-> f.at, is |-> f.is]
  BY <1>1 DEF Fact
<1> QED BY <1>1, <1>2

(* What a report says of a table, kind by kind. *)
LEMMA TableFactsAreParts ==
    ASSUME WellFormed, Inv, Done, NEW t, Faithful(t)
    PROVE  \A f : f \in TableFacts(t) <=>
              \/ f = [of |-> "table", table |-> t.name, name |-> 0, at |-> 1, is |-> <<>>]
              \/ f \in Range(t.columns)
              \/ op = "schema" /\ \E of \in {"key", "foreign", "index", "trigger"} :
                    \E v \in During : /\ PartOf(t.name, of) = Rows(Part(history[v], t.name, of))
                                      /\ f \in Part(history[v], t.name, of)
<1> DEFINE grouped(of) == UNION {Placed(g) : g \in ByName(PartOf(t.name, of))}
           one == [of |-> "table", table |-> t.name, name |-> 0, at |-> 1, is |-> <<>>]
<1>1. TableFacts(t) = {one} \cup Range(t.columns)
        \cup IF op = "codegen" THEN {}
             ELSE Placed(PartOf(t.name, "key"))
                  \cup grouped("foreign") \cup grouped("index") \cup grouped("trigger")
  BY Zenon DEF TableFacts
<1>2. op = "codegen" \/ op = "schema" BY DEF Done
<1>3. ASSUME NEW of \in {"foreign", "index", "trigger"}, NEW v \in During,
             PartOf(t.name, of) = Rows(Part(history[v], t.name, of))
      PROVE  grouped(of) = Part(history[v], t.name, of)
  <2>1. Possible(history[v], dialect) BY DuringIsPossible
  <2> QED BY <1>3, <2>1, GroupsOfPart
<1>4. ASSUME NEW v \in During,
             PartOf(t.name, "key") = Rows(Part(history[v], t.name, "key"))
      PROVE  Placed(PartOf(t.name, "key")) = Part(history[v], t.name, "key")
  <2>1. Possible(history[v], dialect) BY DuringIsPossible
  <2> QED BY <1>4, <2>1, KeyOfTable
<1>5. op = "schema" => \A of \in {"key", "foreign", "index", "trigger"} :
         \E v \in During : PartOf(t.name, of) = Rows(Part(history[v], t.name, of))
  BY DEF Faithful
<1> DEFINE said(of) == IF of = "key" THEN Placed(PartOf(t.name, "key")) ELSE grouped(of)
<1>6. ASSUME op = "schema"
      PROVE  \A f : f \in TableFacts(t) <=>
                \/ f = one \/ f \in Range(t.columns)
                \/ \E of \in {"key", "foreign", "index", "trigger"} : f \in said(of)
  <2> HIDE DEF grouped, one
  <2> QED BY <1>1, <1>6
<1>7. ASSUME op = "schema", NEW of \in {"key", "foreign", "index", "trigger"}, NEW v \in During,
             PartOf(t.name, of) = Rows(Part(history[v], t.name, of))
      PROVE  said(of) = Part(history[v], t.name, of)
  <2> HIDE DEF grouped
  <2>1. CASE of = "key" BY <1>4, <1>7, <2>1
  <2>2. CASE of # "key"
    <3>1. of \in {"foreign", "index", "trigger"} BY <2>2
    <3> QED BY <1>3, <1>7, <2>2, <3>1
  <2> QED BY <2>1, <2>2
<1> HIDE DEF said, one, grouped
<1>8. CASE op = "schema"
  <2>1. ASSUME NEW of \in {"key", "foreign", "index", "trigger"}, NEW f
        PROVE  f \in said(of) <=>
                  \E v \in During : /\ PartOf(t.name, of) = Rows(Part(history[v], t.name, of))
                                    /\ f \in Part(history[v], t.name, of)
    <3>1. PICK v \in During : PartOf(t.name, of) = Rows(Part(history[v], t.name, of))
      BY <1>5, <1>8
    <3>2. f \in said(of) => f \in Part(history[v], t.name, of) BY <1>7, <1>8, <3>1
    <3> QED BY <1>7, <1>8, <3>1, <3>2
  <2> QED BY <1>6, <1>8, <2>1 DEF one
<1>9. CASE op = "codegen" BY <1>1, <1>9 DEF one
<1> QED BY <1>2, <1>8, <1>9

LEMMA ReportedWas ==
    ASSUME WellFormed, Inv, Done, NEW f \in Reported
    PROVE  \E v \in During : f \in history[v] /\ Subject(f)
<1>0. op \in {"schema", "codegen"} BY DEF Done
<1>1. CASE \E t \in ReportedTables : f \in TableFacts(t)
  <2>1. PICK t \in ReportedTables : f \in TableFacts(t) BY <1>1
  <2>2. Faithful(t) BY TablesAreOfTheirTime
  <2>3. /\ t.name # TrackingTable /\ only \in {All, t.name}
        /\ \E v \in During : Part(history[v], t.name, "table") # {}
        /\ \E v \in During : Range(t.columns) = Part(history[v], t.name, "column")
    BY <2>2 DEF Faithful
  <2>4. ASSUME NEW v \in During, NEW of, f \in Part(history[v], t.name, of),
               of \in {"table", "column"} \/ op = "schema"
        PROVE  f \in history[v] /\ Subject(f)
    <3>1. f \in history[v] /\ f.of = of /\ f.table = t.name BY <2>4 DEF Part, Facts
    <3>2. op = "codegen" => f.of \in {"table", "column", "enum"} BY <2>4, <3>1
    <3> QED BY <2>3, <3>1, <3>2 DEF Subject
  <2>5. CASE f = [of |-> "table", table |-> t.name, name |-> 0, at |-> 1, is |-> <<>>]
    <3>1. PICK v \in During : Part(history[v], t.name, "table") # {} BY <2>3
    <3>2. PICK g \in Part(history[v], t.name, "table") : TRUE BY <3>1
    <3>3. Possible(history[v], dialect) BY DuringIsPossible
    <3>4. g = f BY <2>5, <3>3, TheTableFact
    <3> QED BY <2>4, <3>4
  <2>6. CASE f \in Range(t.columns) BY <2>3, <2>4, <2>6
  <2>7. CASE op = "schema" /\ \E of \in {"key", "foreign", "index", "trigger"} :
               \E v \in During : f \in Part(history[v], t.name, of)
    BY <2>4, <2>7
  <2> QED BY <2>1, <2>2, <2>5, <2>6, <2>7, TableFactsAreParts
<1>2. CASE f \in UNION {Placed(e) : e \in Enums}
  <2>1. PICK v \in During : f \in Facts(history[v], "enum") BY <1>2, EnumsAreOfTheirTime
  <2>2. Possible(history[v], dialect) BY DuringIsPossible
  <2>3. f \in history[v] /\ f.of = "enum" BY <2>1 DEF Facts
  <2>4. f.table = 0 BY <2>2, <2>3 DEF Possible
  <2>5. f.table # TrackingTable BY <2>4 DEF WellFormed
  <2> QED BY <2>3, <2>5 DEF Subject
<1> QED BY <1>1, <1>2 DEF Reported

LEMMA WasIsReported ==
    ASSUME WellFormed, Inv, Done, NEW f, Subject(f), \A v \in During : f \in history[v]
    PROVE  f \in Reported
<1>0. op \in {"schema", "codegen"} BY DEF Done
<1>1. start \in During /\ Possible(history[start], dialect) /\ f \in history[start]
  BY StartIsDuring, DuringIsPossible
<1>2. f.of \in {"table", "column", "key", "foreign", "index", "trigger", "enum"}
  BY <1>1 DEF Possible, Fact
<1>3. CASE f.of = "enum"
  <2>1. \A v \in During : f \in Facts(history[v], "enum") BY <1>3 DEF Facts
  <2>2. f \in UNION {Placed(e) : e \in Enums} BY <2>1, EnumsAreOfTheirTime
  <2> QED BY <2>2 DEF Reported
<1>4. CASE f.of # "enum"
  <2> DEFINE n == f.table
  <2>1. \A v \in During : f \in Part(history[v], n, f.of) BY DEF Part, Facts
  <2>2. n # TrackingTable /\ only \in {All, n} BY <1>4 DEF Subject
  <2>3. ASSUME NEW v \in During PROVE Part(history[v], n, "table") # {}
    <3>1. Possible(history[v], dialect) /\ f \in history[v] BY DuringIsPossible
    <3>2. n \in {g.table : g \in Facts(history[v], "table")} BY <1>4, <3>1 DEF Possible
    <3> QED BY <3>2 DEF Part
  <2>4. PICK t \in ReportedTables : t.name = n
    <3> HIDE DEF n
    <3> QED BY <2>2, <2>3, TablesAreOfTheirTime DEF Complete
  <2>5. Faithful(t) BY TablesAreOfTheirTime
  <2>6. f \in TableFacts(t)
    <3>1. CASE f.of = "table"
      <4>1. f = [of |-> "table", table |-> n, name |-> 0, at |-> 1, is |-> <<>>]
        BY <1>1, <2>1, <3>1, TheTableFact
      <4>2. f = [of |-> "table", table |-> t.name, name |-> 0, at |-> 1, is |-> <<>>]
        BY <2>4, <4>1
      <4> QED BY <2>5, <4>2, TableFactsAreParts
    <3>2. CASE f.of = "column"
      <4>1. f \in Range(t.columns) BY <2>1, <2>4, <2>5, <3>2 DEF Faithful
      <4> QED BY <2>5, <4>1, TableFactsAreParts
    <3>3. CASE f.of \in {"key", "foreign", "index", "trigger"}
      <4>1. op = "schema" BY <1>0, <3>3 DEF Subject
      <4>2. PICK v \in During : PartOf(n, f.of) = Rows(Part(history[v], n, f.of))
        BY <2>4, <2>5, <3>3, <4>1 DEF Faithful
      <4>3. f \in Part(history[v], n, f.of) BY <2>1
      <4>4. /\ PartOf(t.name, f.of) = Rows(Part(history[v], t.name, f.of))
            /\ f \in Part(history[v], t.name, f.of)
        <5> HIDE DEF n
        <5> QED BY <2>4, <4>2, <4>3
      <4>5. \E of \in {"key", "foreign", "index", "trigger"} :
               \E w \in During : /\ PartOf(t.name, of) = Rows(Part(history[w], t.name, of))
                                 /\ f \in Part(history[w], t.name, of)
        BY <3>3, <4>4
      <4> QED BY <2>5, <4>1, <4>5, TableFactsAreParts
    <3> QED BY <1>2, <1>4, <3>1, <3>2, <3>3
  <2> QED BY <2>6 DEF Reported
<1> QED BY <1>3, <1>4

(* migrate::schema and migrate::codegen, whatever migrations come between  *)
(* their queries: what was there throughout the call is reported, in its   *)
(* place, nothing is that was never there during it, and no table twice.   *)
THEOREM ReportsAreOfTheirTime == ASSUME WellFormed PROVE IntrospectionSpec => []ReportIsOfItsTime
<1>1. Inv => ReportIsOfItsTime
  <2> SUFFICES ASSUME Inv, Done
               PROVE  /\ {f \in history[start] : Subject(f) /\ \A v \in During : f \in history[v]}
                            \subseteq Reported
                      /\ Reported \subseteq UNION {{f \in history[v] : Subject(f)} : v \in During}
                      /\ \A t, u \in ReportedTables : t.name = u.name => t = u
    BY DEF ReportIsOfItsTime
  <2>1. {f \in history[start] : Subject(f) /\ \A v \in During : f \in history[v]} \subseteq Reported
    BY WasIsReported
  <2>2. Reported \subseteq UNION {{f \in history[v] : Subject(f)} : v \in During}
    BY ReportedWas
  <2>3. \A t, u \in ReportedTables : t.name = u.name => t = u
    BY TablesAreOfTheirTime DEF Once
  <2> QED BY <2>1, <2>2, <2>3
<1>2. IntrospectionSpec => []Inv BY SpecInv
<1> QED BY <1>1, <1>2, PTL

(***************************************************************************)
(* The types of the columns                                                *)
(***************************************************************************)

(* migrate::codegen asks Postgres for the columns first, then the enums.   *)
LEMMA CodegenAnswers ==
    ASSUME Inv, Done, dialect = "postgres", op = "codegen"
    PROVE  /\ reads[1] \in During /\ reads[2] \in During /\ reads[1] <= reads[2]
           /\ AnswerTo([of |-> "column", table |-> All]) = Facts(history[reads[1]], "column")
           /\ AnswerTo([of |-> "enum", table |-> All]) = Facts(history[reads[2]], "enum")
<1>1. Kinds = <<"column", "enum">> /\ DOMAIN Kinds = 1 .. 2 BY DEF Kinds
<1>2. Queries = [i \in 1 .. 2 |-> [of |-> Kinds[i], table |-> All]]
  BY <1>1 DEF Queries, PgQueries
<1>3. DOMAIN Queries = 1 .. 2 /\ Len(Queries) = 2 /\ DOMAIN Queries = 1 .. Len(Queries)
  <2>1. DOMAIN Queries = 1 .. 2 /\ Queries = [i \in 1 .. 2 |-> Queries[i]] BY <1>2
  <2>2. Len(Queries) = 2 BY <2>1, CountedLength
  <2> QED BY <2>1, <2>2
<1>4. /\ 1 \in DOMAIN Queries /\ Queries[1] = AskedFor("column", All)
      /\ 2 \in DOMAIN Queries /\ Queries[2] = AskedFor("enum", All)
      /\ Queries[1].of = "column" /\ Queries[2].of = "enum"
  BY <1>1, <1>2, <1>3 DEF AskedFor
<1>5. \A i, j \in DOMAIN Queries : Queries[i] = Queries[j] => i = j
  <2>1. \A i \in DOMAIN Queries : i = 1 \/ i = 2 BY <1>3
  <2> QED BY <1>4, <2>1
<1>6. AnsweredBy(1, "column", All) BY <1>3, <1>4, <1>5, AnswerIs
<1>7. AnsweredBy(2, "enum", All) BY <1>3, <1>4, <1>5, AnswerIs
<1>8. reads[1] <= reads[2]
  <2>1. DOMAIN reads = 1 .. 2 BY <1>3 DEF Done, Inv
  <2> QED BY <2>1 DEF Inv
<1> QED BY <1>6, <1>7, <1>8 DEF AnsweredBy

LEMMA PostgresColumns ==
    ASSUME NEW c, Possible(c, "postgres"), dialect = "postgres",
           AnswerTo([of |-> "column", table |-> All]) = Facts(c, "column"),
           NEW t \in ReportedTables
    PROVE  Range(t.columns) \subseteq Facts(c, "column")
<1> DEFINE kept == {f \in Facts(c, "column") : f.table # TrackingTable}
           G == Grouped(Rows(kept), "table")
<1>1. kept \subseteq Facts(c, "column") OBVIOUS
<1>2. PICK g \in G : t.columns = g BY DEF ReportedTables, PgTables
<1> HIDE DEF kept
<1>3. Apart(kept) /\ kept \subseteq Fact BY <1>1, KindsAreApart DEF Apart
<1>4. Sorted(Rows(kept), kept) BY <1>3, RowsAreSorted
<1>5. Ascending(kept, "table") BY <1>3, AscendingTables
<1>6. Sorted(g, Sharing(kept, "table", g[1]["table"])) BY <1>3, <1>4, <1>5, GroupsAreByValue
<1>7. Range(g) = Sharing(kept, "table", g[1]["table"]) BY <1>6, SortedShape
<1> QED BY <1>1, <1>2, <1>7 DEF Sharing

(* pg_ir_from_rows and pg_udt_to_ts, whatever migrations come between the  *)
(* two queries of migrate::codegen: a column whose type it cannot name is  *)
(* of an enum that was dropped between them.                               *)
THEOREM EnumColumnsAreTyped == ASSUME WellFormed PROVE IntrospectionSpec => []EnumColumnsTyped
<1>1. Inv => EnumColumnsTyped
  <2> SUFFICES ASSUME Inv, Done, op = "codegen", NEW c \in UnknownColumns
               PROVE  \E u, v \in During :
                         /\ u < v /\ c \in history[u]
                         /\ \A f \in Facts(history[v], "enum") : f.name # c.is[2]
    BY DEF EnumColumnsTyped
  <2>1. PICK t \in ReportedTables : c \in Range(t.columns) BY DEF UnknownColumns
  <2>2. c.is[2] # 0 /\ ~ \E e \in Enums : e[1].name = c.is[2]
    BY DEF UnknownColumns, HasTsType
  <2>3. CASE dialect = "postgres"
    <3> DEFINE u == reads[1]
               v == reads[2]
    <3>1. /\ u \in During /\ v \in During /\ u <= v
          /\ AnswerTo([of |-> "column", table |-> All]) = Facts(history[u], "column")
          /\ AnswerTo([of |-> "enum", table |-> All]) = Facts(history[v], "enum")
      BY <2>3, CodegenAnswers
    <3>2. /\ Possible(history[u], dialect) /\ Possible(history[v], dialect)
          /\ u \in Nat /\ v \in Nat
      BY <3>1, DuringIsPossible
    <3> HIDE DEF u, v
    <3>3. c \in Facts(history[u], "column") BY <2>1, <2>3, <3>1, <3>2, PostgresColumns
    <3>4. c \in history[u] /\ c.of = "column" BY <3>3 DEF Facts
    <3>5. \A f \in Facts(history[v], "enum") : f.name # c.is[2]
      <4>1. Facts(history[v], "enum") = Part(history[v], 0, "enum") BY <3>2, EnumsAreAPart
      <4>2. Enums = ByName(Rows(Part(history[v], 0, "enum"))) BY <2>3, <3>1, <4>1 DEF Enums
      <4>3. \A f \in Part(history[v], 0, "enum") :
               \E g \in ByName(Rows(Part(history[v], 0, "enum"))) : g[1].name = f.name
        BY <3>2, GroupsOfPart
      <4> QED BY <2>2, <4>1, <4>2, <4>3
    <3>6. \E f \in Facts(history[u], "enum") : f.name = c.is[2]
      BY <2>2, <3>2, <3>4 DEF Possible
    <3>7. u # v BY <3>5, <3>6
    <3> QED BY <3>1, <3>2, <3>4, <3>5, <3>7
  <2>4. CASE dialect # "postgres"
    <3>1. dialect = "sqlite" BY <2>4 DEF Inv, Dialects
    <3>2. PICK w \in During : Range(t.columns) = Part(history[w], t.name, "column")
      BY TablesAreOfTheirTime DEF Faithful
    <3>3. Possible(history[w], dialect) BY DuringIsPossible
    <3>4. c \in history[w] /\ c.of = "column" BY <2>1, <3>2 DEF Part, Facts
    <3> QED BY <2>2, <3>1, <3>3, <3>4 DEF Possible
  <2> QED BY <2>3, <2>4
<1>2. IntrospectionSpec => []Inv BY SpecInv
<1> QED BY <1>1, <1>2, PTL
=============================================================================
