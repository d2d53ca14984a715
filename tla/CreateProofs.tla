---------------------------- MODULE CreateProofs ----------------------------
(***************************************************************************)
(* A created file sorts after every dated file that was there when its     *)
(* call began, for any number of creators and files, any clock and any     *)
(* length of a second; and every file it leaves there is well named: until *)
(* there is a file of the last second.                                     *)
(*                                                                         *)
(* The argument: files are only added, so what a call knew when it began   *)
(* is still there at its scan.  The scan takes the latest dated file, so   *)
(* the time kept is not before the second after any of them, and probing   *)
(* only makes it later (`LaterThanKnown`).  Cutting off the fraction of a  *)
(* second keeps the order.  A time after the last second is kept only      *)
(* where a file of the last second is in the directory (`InTime`), as only *)
(* going on behind that file, or bumping its name, leads there.            *)
(***************************************************************************)
EXTENDS Create, TLAPS, WellFoundedInduction

Shape ==
    /\ TypeOK
    /\ clock < (LastSecond + 1) * Fraction
    /\ \A p \in Creator : pc[p] # "idle" => slug[p] \in Slug

InTime(t) == LastSecond \notin Dated => t < (LastSecond + 1) * Fraction

(* The time the call will name its file after is in a later second.        *)
LaterThanKnown(p) ==
    \A f \in known[p] : f.sec \in Date => (f.sec + 1) * Fraction <= ts[p]

SortInv ==
    /\ Shape
    /\ \A p \in Creator : InTime(ts[p])
    /\ \A p \in Creator : pc[p] \in {"probe", "write"} => LaterThanKnown(p)
    /\ SortsAfterKnown

(***************************************************************************)
(* Arithmetic                                                              *)
(***************************************************************************)

(* A set of dates has a latest one. *)
LEMMA LatestExists ==
    ASSUME NEW S, S \subseteq Date, S # {}
    PROVE  \E g \in S : \A s \in S : s <= g
<1> DEFINE T == {LastSecond - s : s \in S}
<1>1. T \subseteq Nat /\ T # {}
  <2>1. ASSUME NEW s \in S PROVE LastSecond - s \in Nat
    <3>1. s \in 0 .. LastSecond BY DEF Date
    <3> QED BY <3>1, PrefixAssumption
  <2> QED BY <2>1
<1>2. PICK t \in T : \A u \in T : ~ (<<u, t>> \in OpToRel(<, Nat))
  BY <1>1, NatLessThanWellFounded, WFMin, Zenon
<1>3. \A u \in T : ~ (u < t) BY <1>1, <1>2, Zenon DEF OpToRel
<1>4. PICK g \in S : t = LastSecond - g OBVIOUS
<1>5. ASSUME NEW s \in S PROVE s <= g
  <2>1. ~ (LastSecond - s < LastSecond - g) BY <1>3, <1>4
  <2>2. s \in 0 .. LastSecond /\ g \in 0 .. LastSecond BY <1>4 DEF Date
  <2> QED BY <2>1, <2>2, PrefixAssumption
<1> QED BY <1>4, <1>5

(* The order of times is that of seconds. *)
LEMMA WholeSeconds ==
    ASSUME NEW F \in Nat \ {0}, NEW s \in Nat, NEW t \in Nat, (s + 1) * F <= t
    PROVE  t \div F \in Nat /\ s < t \div F
<1> DEFINE q == t \div F
           r == t % F
<1>1. q \in Nat /\ r \in Nat /\ r < F /\ t = F * q + r OBVIOUS
<1> HIDE DEF q, r
<1>2. ASSUME q <= s PROVE FALSE
  <2>1. F * q <= F * s BY <1>1, <1>2
  <2>2. (s + 1) * F = F * s + F OBVIOUS
  <2>3. F * q \in Nat /\ F * s \in Nat BY <1>1
  <2> QED BY <1>1, <2>1, <2>2, <2>3
<1> QED BY <1>1, <1>2 DEF q

LEMMA MoreSeconds ==
    ASSUME NEW F \in Nat \ {0}, NEW s \in Nat, NEW g \in Nat, s <= g
    PROVE  (s + 1) * F <= (g + 1) * F /\ (g + 1) * F \in Nat
OBVIOUS

(* A time before the second after s is in the second s or before it. *)
LEMMA NotLater ==
    ASSUME NEW F \in Nat \ {0}, NEW s \in Nat, NEW t \in Nat
    PROVE  t \div F \in Nat /\ (t < (s + 1) * F <=> t \div F <= s)
<1> DEFINE q == t \div F
           m == t % F
<1>1. q \in Nat /\ m \in Nat /\ m < F /\ t = F * q + m OBVIOUS
<1> HIDE DEF q, m
<1>2. (s + 1) * F = F * s + F /\ F * s \in Nat /\ F * q \in Nat BY <1>1
<1>3. ASSUME q <= s PROVE t < (s + 1) * F
  <2>1. F * q <= F * s BY <1>1, <1>3
  <2> QED BY <1>1, <1>2, <2>1
<1>4. ASSUME s < q PROVE (s + 1) * F <= t
  <2>1. s + 1 <= q BY <1>1, <1>4
  <2>2. F * (s + 1) <= F * q BY <1>1, <2>1
  <2>3. F * (s + 1) = F * s + F OBVIOUS
  <2> QED BY <1>1, <1>2, <2>2, <2>3
<1> QED BY <1>1, <1>2, <1>3, <1>4 DEF q

(* What the scan keeps is after every dated file of the directory, and in  *)
(* time unless there is one of the last second.                            *)
LEMMA ScanIsLater ==
    ASSUME NEW t \in Nat, InTime(t)
    PROVE  /\ AfterLatest(t) \in Nat
           /\ \A s \in Dated : (s + 1) * Fraction <= AfterLatest(t)
           /\ InTime(AfterLatest(t))
<1> DEFINE ahead == {s \in Dated : (s + 1) * Fraction > t}
<1>1. Dated \subseteq Nat /\ LastSecond \in Nat BY PrefixAssumption DEF Dated, Date
<1>2. ahead \subseteq Date /\ ahead \subseteq Dated BY DEF Dated
<1>3. CASE ahead = {}
  <2>1. AfterLatest(t) = t BY <1>3 DEF AfterLatest
  <2>2. ASSUME NEW s \in Dated PROVE (s + 1) * Fraction <= t
    <3>1. ~ ((s + 1) * Fraction > t) BY <1>3
    <3>2. (s + 1) * Fraction \in Nat BY <1>1, FractionAssumption, MoreSeconds
    <3> QED BY <3>1, <3>2
  <2> QED BY <2>1, <2>2
<1>4. CASE ahead # {}
  <2> DEFINE g == CHOOSE s \in ahead : \A r \in ahead : r <= s
  <2>1. \E s \in ahead : \A r \in ahead : r <= s BY <1>2, <1>4, LatestExists
  <2>2. g \in ahead /\ \A r \in ahead : r <= g BY <2>1
  <2>3. AfterLatest(t) = (g + 1) * Fraction BY <1>4 DEF AfterLatest
  <2> HIDE DEF g
  <2>4. g \in Nat /\ g \in Dated /\ g <= LastSecond BY <1>1, <1>2, <2>2 DEF Dated, Date
  <2>5. AfterLatest(t) \in Nat BY <2>3, <2>4, FractionAssumption, MoreSeconds
  <2>6. ASSUME NEW s \in Dated PROVE (s + 1) * Fraction <= AfterLatest(t)
    <3>0. s \in Nat BY <1>1
    <3>1. CASE s \in ahead BY <2>2, <2>3, <2>4, <3>0, <3>1, FractionAssumption, MoreSeconds
    <3>2. CASE s \notin ahead
      <4>1. ~ ((s + 1) * Fraction > t) BY <3>2
      <4>2. (g + 1) * Fraction > t BY <2>2
      <4>3. (s + 1) * Fraction \in Nat /\ (g + 1) * Fraction \in Nat
        BY <2>4, <3>0, FractionAssumption, MoreSeconds
      <4> QED BY <2>3, <4>1, <4>2, <4>3
    <3> QED BY <3>1, <3>2
  <2>7. ASSUME LastSecond \notin Dated PROVE AfterLatest(t) < (LastSecond + 1) * Fraction
    <3>1. g + 1 <= LastSecond /\ g + 1 \in Nat BY <1>1, <2>4, <2>7
    <3>2. (LastSecond + 1) * Fraction = LastSecond * Fraction + Fraction
      BY <1>1, FractionAssumption
    <3>3. (g + 1) * Fraction <= LastSecond * Fraction
      BY <1>1, <3>1, FractionAssumption
    <3>4. LastSecond * Fraction \in Nat /\ (g + 1) * Fraction \in Nat
      BY <1>1, <3>1, FractionAssumption
    <3> QED BY <2>3, <3>2, <3>3, <3>4, FractionAssumption
  <2> QED BY <2>5, <2>6, <2>7 DEF InTime
<1> QED BY <1>3, <1>4

(* What is dated stays dated. *)
LEMMA MoreFiles ==
    ASSUME dir \subseteq dir', NEW t
    PROVE  Dated \subseteq Dated' /\ (InTime(t) => InTime(t)')
BY DEF Dated, InTime, Date

LEMMA NamesAreFiles ==
    ASSUME SortInv, NEW p \in Creator, pc[p] # "idle"
    PROVE  /\ Formatted(p) \in FileName
           /\ LastSecond \notin Dated => Formatted(p) \in ValidName /\ Formatted(p).sec \in Date
<1>0. ts[p] \in Nat /\ slug[p] \in Slug /\ LastSecond \in Nat
  BY PrefixAssumption DEF SortInv, Shape, TypeOK
<1>1. ts[p] \div Fraction \in Nat BY <1>0, FractionAssumption, NotLater
<1>2. LastSecond \notin Dated => ts[p] \div Fraction <= LastSecond
  BY <1>0, FractionAssumption, NotLater DEF SortInv, InTime
<1>3. LastSecond \notin Dated => ts[p] \div Fraction \in Date BY <1>0, <1>1, <1>2 DEF Date
<1> QED BY <1>0, <1>1, <1>3 DEF Formatted, ValidName, FileName

(* The directory with a file more, or as it is. *)
LEMMA OneMoreFile ==
    ASSUME TypeOK, NEW f \in FileName, LastSecond \notin Dated => f \in ValidName,
           dir' \in {dir, dir \cup {f}}
    PROVE  /\ dir \subseteq dir' /\ dir' \subseteq FileName
           /\ (LastSecond \notin Dated => dir \subseteq ValidName)'
           /\ Dated \subseteq Dated'
<1>1. dir \subseteq dir' /\ dir' \subseteq FileName BY DEF TypeOK
<1>2. Dated \subseteq Dated' BY <1>1, MoreFiles
<1>3. ASSUME LastSecond \notin Dated' PROVE dir' \subseteq ValidName
  BY <1>2, <1>3 DEF TypeOK
<1> QED BY <1>1, <1>2, <1>3 DEF ValidName, Date

(***************************************************************************)
(* The invariant is inductive                                              *)
(***************************************************************************)

LEMMA SortInit == ASSUME Init PROVE SortInv
<1>1. clock \in Nat BY FractionAssumption DEF Init
<1>2. clock < (LastSecond + 1) * Fraction
  <2>1. 2 * Fraction <= (LastSecond + 1) * Fraction
    <3>1. LastSecond \in Nat /\ 1 <= LastSecond BY PrefixAssumption
    <3>2. (1 + 1) * Fraction <= (LastSecond + 1) * Fraction
      BY <3>1, FractionAssumption, MoreSeconds
    <3> QED BY <3>2
  <2>2. (LastSecond + 1) * Fraction \in Nat BY PrefixAssumption, FractionAssumption
  <2> QED BY <1>1, <2>1, <2>2, FractionAssumption DEF Init
<1>3. \A p \in Creator : ts[p] = 0 /\ ts[p] \in Nat BY DEF Init
<1>4. 0 < (LastSecond + 1) * Fraction
  <2>1. (LastSecond + 1) * Fraction \in Nat BY PrefixAssumption, FractionAssumption
  <2> QED BY <1>1, <1>2, <2>1
<1>5. TypeOK BY <1>1 DEF Init, TypeOK
<1> QED BY <1>2, <1>3, <1>4, <1>5 DEF Init, SortInv, Shape, InTime, SortsAfterKnown, LaterThanKnown

(* A step that leaves the directory alone: what holds of the others stays. *)
LEMMA SortInvoke ==
    ASSUME SortInv, NEW p \in Creator, Invoke(p) PROVE SortInv'
<1> USE DEF SortInv
<1>0. UNCHANGED <<dir, clock, ts>> /\ Dated' = Dated BY DEF Invoke, file, time, Dated
<1>1. Shape'
  <2>1. PICK s \in Slug \cup BadSlug :
          /\ slug' = [slug EXCEPT ![p] = s]
          /\ IF Refused(s)
             THEN /\ outcome' = [outcome EXCEPT ![p] = "INVALID_MIGRATION_NAME"]
                  /\ UNCHANGED pc
             ELSE /\ outcome' = [outcome EXCEPT ![p] = "none"]
                  /\ pc' = [pc EXCEPT ![p] = "clock"]
    BY DEF Invoke
  <2>2. pc[p] = "idle" BY DEF Invoke
  <2>3. known' = [known EXCEPT ![p] = dir] /\ created' = [created EXCEPT ![p] = NoFile]
    BY DEF Invoke
  <2>4. \A q \in Creator : pc'[q] # "idle" => slug'[q] \in Slug
    BY <2>1, <2>2 DEF Refused, Shape, TypeOK
  <2>5. TypeOK' BY <1>0, <2>1, <2>3 DEF Shape, TypeOK
  <2> QED BY <1>0, <2>4, <2>5 DEF Shape
<1>2. ASSUME NEW q \in Creator, pc'[q] \in {"probe", "write"} PROVE LaterThanKnown(q)'
  <2>1. q # p BY <1>2 DEF Invoke, Shape, TypeOK
  <2>2. pc'[q] = pc[q] /\ known'[q] = known[q] /\ ts'[q] = ts[q] BY <2>1 DEF Invoke, Shape, TypeOK
  <2> QED BY <1>2, <2>2 DEF LaterThanKnown
<1>3. SortsAfterKnown'
  <2>1. outcome'[p] # "ok" BY DEF Invoke, Shape, TypeOK
  <2>2. \A q \in Creator \ {p} :
          outcome'[q] = outcome[q] /\ known'[q] = known[q] /\ created'[q] = created[q]
    BY DEF Invoke, Shape, TypeOK
  <2> QED BY <1>0, <2>1, <2>2 DEF SortsAfterKnown
<1> QED BY <1>0, <1>1, <1>2, <1>3 DEF InTime

LEMMA SortReadClock ==
    ASSUME SortInv, NEW p \in Creator, ReadClock(p) PROVE SortInv'
<1> USE DEF SortInv
<1>0. dir' = dir /\ Dated' = Dated /\ ts' = [ts EXCEPT ![p] = clock]
  BY DEF ReadClock, file, Dated
<1>1. Shape' BY <1>0 DEF ReadClock, Shape, TypeOK, file, time
<1>2. ASSUME NEW q \in Creator, pc'[q] \in {"probe", "write"} PROVE LaterThanKnown(q)'
  <2>1. q # p BY <1>2 DEF ReadClock, Shape, TypeOK
  <2>2. pc'[q] = pc[q] /\ known'[q] = known[q] /\ ts'[q] = ts[q] BY <2>1 DEF ReadClock, Shape, TypeOK
  <2> QED BY <1>2, <2>2 DEF LaterThanKnown
<1>3. SortsAfterKnown' BY <1>0 DEF ReadClock, SortsAfterKnown
<1>4. \A q \in Creator : InTime(ts[q])' BY <1>0 DEF InTime, Shape, TypeOK
<1> QED BY <1>1, <1>2, <1>3, <1>4

(* The scan: what the call knew is in the directory it reads. *)
LEMMA SortScan ==
    ASSUME SortInv, NEW p \in Creator, Scan(p) PROVE SortInv'
<1> USE DEF SortInv
<1>0. ts[p] \in Nat /\ InTime(ts[p]) BY DEF Shape, TypeOK
<1>1. /\ AfterLatest(ts[p]) \in Nat
      /\ \A s \in Dated : (s + 1) * Fraction <= AfterLatest(ts[p])
      /\ InTime(AfterLatest(ts[p]))
  BY <1>0, ScanIsLater
<1>2. ts' = [ts EXCEPT ![p] = AfterLatest(ts[p])] BY DEF Scan
<1>3. dir' = dir /\ Dated' = Dated BY DEF Scan, file, Dated
<1>4. Shape' BY <1>1, <1>2, <1>3 DEF Scan, Shape, TypeOK, file, time
<1>5. ASSUME NEW q \in Creator, pc'[q] \in {"probe", "write"} PROVE LaterThanKnown(q)'
  <2>1. known' = known BY DEF Scan
  <2>2. CASE q = p
    <3>1. ASSUME NEW f \in known[p], f.sec \in Date PROVE f.sec \in Dated
      BY <3>1 DEF Shape, TypeOK, Dated
    <3>2. ts'[p] = AfterLatest(ts[p]) BY <1>2 DEF Shape, TypeOK
    <3> QED BY <1>1, <2>1, <2>2, <3>1, <3>2 DEF LaterThanKnown
  <2>3. CASE q # p
    <3>1. pc'[q] = pc[q] /\ ts'[q] = ts[q] BY <1>2, <2>3 DEF Scan, Shape, TypeOK
    <3> QED BY <1>5, <2>1, <3>1 DEF LaterThanKnown
  <2> QED BY <2>2, <2>3
<1>6. SortsAfterKnown' BY <1>3 DEF Scan, SortsAfterKnown
<1>7. ASSUME NEW q \in Creator PROVE InTime(ts[q])'
  <2>1. ts'[q] = ts[q] \/ ts'[q] = AfterLatest(ts[p]) BY <1>2 DEF Shape, TypeOK
  <2> QED BY <1>1, <1>3, <2>1 DEF InTime
<1> QED BY <1>4, <1>5, <1>6, <1>7

(* A bump only makes the time later; out of the last second it leads only  *)
(* where the name in that second is taken.                                 *)
LEMMA SortTaken ==
    ASSUME SortInv, NEW p \in Creator, Taken(p) PROVE SortInv'
<1> USE DEF SortInv
<1>0. ts[p] \in Nat /\ ts[p] + Fraction \in Nat BY FractionAssumption DEF Shape, TypeOK
<1>1. dir' = dir /\ Dated' = Dated BY DEF Taken, file, Dated
<1>2. Shape' BY <1>0, <1>1 DEF Taken, Shape, TypeOK, file, time
<1>3. ASSUME NEW q \in Creator, pc'[q] \in {"probe", "write"} PROVE LaterThanKnown(q)'
  <2>1. known' = known /\ pc' = pc BY DEF Taken
  <2>2. ts[q] \in Nat /\ ts'[q] \in Nat /\ ts[q] <= ts'[q]
    BY <1>0, FractionAssumption DEF Taken, Shape, TypeOK
  <2>3. ASSUME NEW f \in known[q], f.sec \in Date PROVE (f.sec + 1) * Fraction <= ts'[q]
    <3>1. (f.sec + 1) * Fraction <= ts[q] BY <1>3, <2>1, <2>3 DEF LaterThanKnown
    <3>2. f.sec \in Nat BY <2>3 DEF Date
    <3>3. (f.sec + 1) * Fraction \in Nat BY <3>2, FractionAssumption, MoreSeconds
    <3> QED BY <2>2, <3>1, <3>3
  <2> QED BY <2>1, <2>3 DEF LaterThanKnown
<1>4. SortsAfterKnown' BY <1>1 DEF Taken, SortsAfterKnown
<1>5. ASSUME LastSecond \notin Dated PROVE ts[p] + Fraction < (LastSecond + 1) * Fraction
  <2>1. Formatted(p) \in dir /\ Formatted(p).sec = ts[p] \div Fraction
    BY DEF Taken, Formatted
  <2>2. ts[p] \div Fraction \in Nat /\ ts[p] \div Fraction <= LastSecond
    <3>1. ts[p] < (LastSecond + 1) * Fraction BY <1>5 DEF InTime
    <3> QED BY <1>0, <3>1, PrefixAssumption, FractionAssumption, NotLater
  <2>3. ts[p] \div Fraction # LastSecond
    <3>1. LastSecond \in Date BY PrefixAssumption DEF Date
    <3> QED BY <1>5, <2>1, <3>1 DEF Dated
  <2> DEFINE s == LastSecond - 1
  <2>4. s \in Nat /\ s + 1 = LastSecond /\ ts[p] \div Fraction <= s
    BY <2>2, <2>3, PrefixAssumption
  <2> HIDE DEF s
  <2>5. ts[p] < (s + 1) * Fraction BY <1>0, <2>4, FractionAssumption, NotLater
  <2>6. (LastSecond + 1) * Fraction = LastSecond * Fraction + Fraction
        /\ LastSecond * Fraction \in Nat
    BY PrefixAssumption, FractionAssumption
  <2> QED BY <1>0, <2>4, <2>5, <2>6, FractionAssumption
<1>6. ASSUME NEW q \in Creator PROVE InTime(ts[q])'
  <2>1. q # p => ts'[q] = ts[q] BY DEF Taken, Shape, TypeOK
  <2>2. ts'[p] = ts[p] + Fraction BY DEF Taken, Shape, TypeOK
  <2> QED BY <1>1, <1>5, <2>1, <2>2 DEF InTime
<1> QED BY <1>2, <1>3, <1>4, <1>6

LEMMA SortFree ==
    ASSUME SortInv, NEW p \in Creator, Free(p) PROVE SortInv'
<1> USE DEF SortInv
<1>0. dir' = dir /\ Dated' = Dated /\ ts' = ts BY DEF Free, file, Dated
<1>1. Shape' BY <1>0 DEF Free, Shape, TypeOK, file, time
<1>2. ASSUME NEW q \in Creator, pc'[q] \in {"probe", "write"} PROVE LaterThanKnown(q)'
  <2>1. known' = known /\ ts' = ts /\ pc[q] \in {"probe", "write"} BY <1>2 DEF Free, Shape, TypeOK
  <2> QED BY <2>1 DEF LaterThanKnown
<1>3. SortsAfterKnown' BY <1>0 DEF Free, SortsAfterKnown
<1> QED BY <1>0, <1>1, <1>2, <1>3 DEF InTime

(* The name keeps whole seconds of a time after every known second. *)
LEMMA SortWrite ==
    ASSUME SortInv, NEW p \in Creator, Write(p) PROVE SortInv'
<1> USE DEF SortInv
<1>0. /\ Formatted(p) \in FileName
      /\ LastSecond \notin Dated => Formatted(p) \in ValidName /\ Formatted(p).sec \in Date
  BY NamesAreFiles DEF Write
<1>1. dir' = dir \cup {Formatted(p)} /\ known' = known /\ ts' = ts BY DEF Write
<1>2. /\ dir \subseteq dir' /\ dir' \subseteq FileName /\ Dated \subseteq Dated'
      /\ (LastSecond \notin Dated => dir \subseteq ValidName)'
  BY <1>0, <1>1, OneMoreFile DEF Shape
<1>3. Shape'
  <2>1. known' \in [Creator -> SUBSET dir'] BY <1>1, <1>2 DEF Shape, TypeOK
  <2> QED BY <1>0, <1>2, <2>1 DEF Write, Shape, TypeOK, time
<1>4. ASSUME NEW q \in Creator, pc'[q] \in {"probe", "write"} PROVE LaterThanKnown(q)'
  <2>1. pc[q] \in {"probe", "write"} BY <1>4 DEF Write, Shape, TypeOK
  <2> QED BY <1>1, <2>1 DEF LaterThanKnown
<1>5. SortsAfterKnown'
  <2>1. ASSUME NEW f \in known[p], f.sec \in Date PROVE f.sec < Formatted(p).sec
    <3>1. (f.sec + 1) * Fraction <= ts[p] BY <2>1 DEF Write, LaterThanKnown
    <3>2. f.sec \in Nat /\ ts[p] \in Nat BY <2>1 DEF Shape, TypeOK, Date
    <3>3. f.sec < ts[p] \div Fraction BY <3>1, <3>2, FractionAssumption, WholeSeconds
    <3> QED BY <3>3 DEF Formatted
  <2>2. created'[p] = Formatted(p) BY DEF Write, Shape, TypeOK
  <2>3. \A q \in Creator \ {p} : outcome'[q] = outcome[q] /\ created'[q] = created[q]
    BY DEF Write, Shape, TypeOK
  <2> QED BY <1>0, <1>1, <1>2, <2>1, <2>2, <2>3 DEF SortsAfterKnown, Date
<1> QED BY <1>1, <1>2, <1>3, <1>4, <1>5 DEF InTime

LEMMA SortWriteFails ==
    ASSUME SortInv, NEW p \in Creator, WriteFails(p) PROVE SortInv'
<1> USE DEF SortInv
<1>0. /\ Formatted(p) \in FileName
      /\ LastSecond \notin Dated => Formatted(p) \in ValidName
  BY NamesAreFiles DEF WriteFails
<1>1. dir' \in {dir, dir \cup {Formatted(p)}} /\ known' = known /\ ts' = ts BY DEF WriteFails
<1>2. /\ dir \subseteq dir' /\ dir' \subseteq FileName /\ Dated \subseteq Dated'
      /\ (LastSecond \notin Dated => dir \subseteq ValidName)'
  BY <1>0, <1>1, OneMoreFile DEF Shape
<1>3. Shape'
  <2>1. known' \in [Creator -> SUBSET dir'] BY <1>1, <1>2 DEF Shape, TypeOK
  <2> QED BY <1>2, <2>1 DEF WriteFails, Shape, TypeOK, time
<1>4. ASSUME NEW q \in Creator, pc'[q] \in {"probe", "write"} PROVE LaterThanKnown(q)'
  <2>1. pc[q] \in {"probe", "write"} BY <1>4 DEF WriteFails, Shape, TypeOK
  <2> QED BY <1>1, <2>1 DEF LaterThanKnown
<1>5. SortsAfterKnown'
  <2>1. outcome'[p] # "ok" BY DEF WriteFails, Shape, TypeOK
  <2>2. \A q \in Creator \ {p} : outcome'[q] = outcome[q] BY DEF WriteFails, Shape, TypeOK
  <2>3. created' = created BY DEF WriteFails
  <2> QED BY <1>1, <1>2, <2>1, <2>2, <2>3 DEF SortsAfterKnown, Date
<1> QED BY <1>1, <1>2, <1>3, <1>4, <1>5 DEF InTime

LEMMA SortHandWrite == ASSUME SortInv, HandWrite PROVE SortInv'
<1> USE DEF SortInv
<1>1. PICK s \in HandWritten \cup Undated, g \in Slug : dir' = dir \cup {[sec |-> s, slug |-> g]}
  BY DEF HandWrite
<1>2. s \in Date \cup Undated /\ s \in Nat \cup Undated BY PrefixAssumption DEF Date
<1>3. [sec |-> s, slug |-> g] \in ValidName /\ [sec |-> s, slug |-> g] \in FileName
  BY <1>2 DEF ValidName, FileName
<1>4. /\ dir \subseteq dir' /\ dir' \subseteq FileName /\ Dated \subseteq Dated'
      /\ (LastSecond \notin Dated => dir \subseteq ValidName)'
  BY <1>1, <1>3, OneMoreFile DEF Shape
<1>5. UNCHANGED <<clock, pc, slug, ts, known, created, outcome>> BY DEF HandWrite, time
<1>6. Shape'
  <2>1. known' \in [Creator -> SUBSET dir'] BY <1>4, <1>5 DEF Shape, TypeOK
  <2> QED BY <1>4, <1>5, <2>1 DEF Shape, TypeOK
<1>7. \A q \in Creator : LaterThanKnown(q) <=> LaterThanKnown(q)' BY <1>5 DEF LaterThanKnown
<1>8. SortsAfterKnown' BY <1>4, <1>5 DEF SortsAfterKnown, Date
<1> QED BY <1>4, <1>5, <1>6, <1>7, <1>8 DEF InTime

LEMMA SortClock == ASSUME SortInv, Tick \/ SetBack PROVE SortInv'
<1> USE DEF SortInv
<1>1. UNCHANGED <<dir, pc, slug, ts, known, created, outcome>> /\ Dated' = Dated
  BY DEF Tick, SetBack, file, Dated
<1>2. clock' \in Nat /\ clock' < (LastSecond + 1) * Fraction
  <2>1. (LastSecond + 1) * Fraction \in Nat BY PrefixAssumption, FractionAssumption
  <2>2. clock \in Nat /\ clock < (LastSecond + 1) * Fraction BY DEF Shape, TypeOK
  <2>3. CASE Tick BY <2>1, <2>2, <2>3, BoundsAssumption DEF Tick
  <2>4. CASE SetBack BY <2>1, <2>2, <2>4 DEF SetBack
  <2> QED BY <2>3, <2>4
<1>3. Shape' BY <1>1, <1>2 DEF Shape, TypeOK
<1> QED BY <1>1, <1>3 DEF InTime, LaterThanKnown, SortsAfterKnown

LEMMA SortStutter == ASSUME SortInv, UNCHANGED vars PROVE SortInv'
<1>1. UNCHANGED <<dir, clock, pc, slug, ts, known, created, outcome>> /\ Dated' = Dated
  BY DEF vars, file, time, Dated
<1> QED BY <1>1 DEF SortInv, Shape, TypeOK, InTime, LaterThanKnown, SortsAfterKnown

LEMMA SortInvariant == Spec => []SortInv
<1>1. Init => SortInv BY SortInit
<1>2. SortInv /\ [Next]_vars => SortInv'
  <2> SUFFICES ASSUME SortInv, [Next]_vars PROVE SortInv' OBVIOUS
  <2>1. ASSUME NEW p \in Creator, Step(p) PROVE SortInv'
    BY <2>1, SortInvoke, SortReadClock, SortScan, SortTaken, SortFree, SortWrite,
       SortWriteFails DEF Step
  <2>2. CASE HandWrite BY <2>2, SortHandWrite
  <2>3. CASE Tick \/ SetBack BY <2>3, SortClock
  <2>4. CASE UNCHANGED vars BY <2>4, SortStutter
  <2> QED BY <2>1, <2>2, <2>3, <2>4 DEF Next
<1> QED BY <1>1, <1>2, PTL DEF Spec

(***************************************************************************)
(* Theorems                                                                *)
(***************************************************************************)

(* `TypeOK` for any number of creators, files and calls: whatever the      *)
(* clock and the other calls do, what create.rs leaves in the directory is *)
(* named as up accepts it, unless there is a file of the last second, and  *)
(* what a call found there is never removed.                               *)
THEOREM CreateTyped == Spec => []TypeOK
<1>1. SortInv => TypeOK BY DEF SortInv, Shape
<1> QED BY <1>1, SortInvariant, PTL

(* `SortsAfterKnown` for any number of creators, files, set-backs of the   *)
(* clock and calls: what create.rs:46-48 promises of the names.           *)
THEOREM CreatedSortsAfter == Spec => []SortsAfterKnown
<1>1. SortInv => SortsAfterKnown BY DEF SortInv
<1> QED BY <1>1, SortInvariant, PTL
=============================================================================
