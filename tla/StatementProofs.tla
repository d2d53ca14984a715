--------------------------- MODULE StatementProofs ---------------------------
(***************************************************************************)
(* A statement read on its own is one statement: the elements of the file  *)
(* between its first and its last character are its elements.              *)
(***************************************************************************)
EXTENDS SplitterProofs

(***************************************************************************)
(* Where elements end                                                      *)
(***************************************************************************)

ElementKinds ==
    {"separator", "line comment", "block comment", "string literal", "quoted identifier",
     "dollar quote", "blank", "code"}

(* The characters that show which kind of element begins at `p`. *)
Opens(t, p, kind) ==
    /\ kind = "separator" <=> t[p] = ";"
    /\ kind = "line comment" => Pair(t, p, "-", "-")
    /\ kind = "block comment" => Pair(t, p, "/", "*")
    /\ kind = "string literal" => t[p] = Quote
    /\ kind = "quoted identifier" => t[p] = DoubleQuoteMark
    /\ kind = "dollar quote" => t[p] = "$" /\ Reader!TagEnd(t, p) # 0
    /\ kind = "blank" => t[p] \in AsciiBlank

LEMMA KindOpens ==
    ASSUME NEW t \in Seq(STRING), NEW p \in 1..Len(t)
    PROVE  Reader!Kind(t, p) \in ElementKinds /\ Opens(t, p, Reader!Kind(t, p))
<1> DEFINE line == Pair(t, p, "-", "-")
           block == Pair(t, p, "/", "*")
           tagged == Reader!TagEnd(t, p) # 0
           kind == Reader!Kind(t, p)
<1>1. /\ t[p] = ";" => kind = "separator"
      /\ line => kind = "line comment"
      /\ block => kind = "block comment"
      /\ t[p] = Quote => kind = "string literal"
      /\ t[p] = DoubleQuoteMark => kind = "quoted identifier"
      /\ t[p] = "$" /\ tagged => kind = "dollar quote"
      /\ t[p] \notin {";", Quote, DoubleQuoteMark} /\ ~ line /\ ~ block /\ (t[p] = "$" => ~ tagged)
            => kind = IF t[p] \in AsciiBlank THEN "blank" ELSE "code"
  <2>1. /\ t[p] = ";" => kind = "separator"
        /\ line => kind = "line comment"
        /\ block => kind = "block comment"
        /\ t[p] = Quote => kind = "string literal"
        /\ t[p] = DoubleQuoteMark => kind = "quoted identifier"
        /\ t[p] = "$" /\ tagged => kind = "dollar quote"
    BY KindIs, Zenon
  <2>2. ASSUME t[p] \notin {";", Quote, DoubleQuoteMark}, ~ line, ~ block, t[p] = "$" => ~ tagged
        PROVE  kind = IF t[p] \in AsciiBlank THEN "blank" ELSE "code"
    BY <2>2, KindIs, Zenon
  <2> QED
    BY <2>1, <2>2, Zenon
<1> HIDE DEF line, block, tagged, kind
<1>2. kind \in ElementKinds
  BY <1>1 DEF ElementKinds
<1>3. /\ kind = "separator" <=> t[p] = ";"
      /\ kind = "line comment" => line
      /\ kind = "block comment" => block
      /\ kind = "string literal" => t[p] = Quote
      /\ kind = "quoted identifier" => t[p] = DoubleQuoteMark
      /\ kind = "dollar quote" => t[p] = "$" /\ tagged
      /\ kind = "blank" => t[p] \in AsciiBlank
  BY <1>1
<1> QED
  BY <1>2, <1>3, Zenon DEF Opens, line, block, tagged, kind

LEMMA OtherEndIs ==
    ASSUME NEW t, NEW p, Reader!Kind(t, p) \in {"separator", "blank", "code"}
    PROVE  Reader!ElementEnd(t, p) = p + 1
  BY DEF Reader!ElementEnd

LEMMA QuotedRange ==
    ASSUME NEW t \in Seq(STRING), NEW p \in 1..Len(t), NEW e
    PROVE  \/ Reader!QuotedEnd(t, p, e) = 0
           \/ /\ Reader!QuotedEnd(t, p, e) \in p + 2..Len(t) + 1
              /\ Reader!QuotedEnd(t, p, e) - 1 \in Closers(t, p, e)
              /\ t[Reader!QuotedEnd(t, p, e) - 1] = t[p]
              /\ \A q \in Closers(t, p, e) : Reader!QuotedEnd(t, p, e) - 1 <= q
<1> DEFINE S == Closers(t, p, e)
           k == Reader!LeastOrZero(S)
<1>1. S \subseteq p + 1..Len(t) /\ \A q \in S : t[q] = t[p]
  BY Zenon DEF Closers
<1>2. Reader!QuotedEnd(t, p, e) = IF k = 0 THEN 0 ELSE k + 1
  BY QuotedEndIs, Zenon
<1>3. CASE S = {}
  <2>1. k = 0
    BY <1>3, LeastOrZeroNone, Zenon
  <2> QED
    BY <2>1, <1>2, Zenon
<1>4. CASE S # {}
  <2>0. S \subseteq Nat
    BY <1>1
  <2>1. k \in S /\ \A q \in S : k <= q
    BY <1>4, <2>0, LeastOrZeroSome, Zenon
  <2> HIDE DEF S, k
  <2>2. k \in p + 1..Len(t) /\ t[k] = t[p]
    BY <2>1, <1>1, Zenon
  <2>3. /\ Reader!QuotedEnd(t, p, e) \in p + 2..Len(t) + 1
        /\ Reader!QuotedEnd(t, p, e) - 1 = k
    BY <1>2, <2>2
  <2> QED
    BY <2>1, <2>2, <2>3, Zenon DEF S
<1> QED
  BY <1>3, <1>4

LEMMA LineRange ==
    ASSUME NEW t \in Seq(STRING), NEW p \in 1..Len(t)
    PROVE  /\ Reader!LineEnd(t, p) \in p + 1..Len(t) + 1
           /\ \A q \in p..Reader!LineEnd(t, p) - 2 : t[q] # Newline
           /\ Reader!LineEnd(t, p) <= Len(t) => t[Reader!LineEnd(t, p) - 1] = Newline
<1> DEFINE S == {q \in p..Len(t) : t[q] = Newline}
           e == Reader!LineEnd(t, p)
<1>0. /\ Len(t) \in Nat /\ p \in Nat /\ p > 0 /\ p <= Len(t) /\ S \subseteq Nat
  OBVIOUS
<1>1. NextLine(t, p) = e
  BY <1>0, NextLineIs, Zenon
<1>2. CASE S = {}
  <2>1. \A q \in p..Len(t) : t[q] # Newline
    BY <1>2
  <2>2. e = Len(t) + 1
    BY <2>1, <1>0, <1>1, NextLineIs, Zenon
  <2> QED
    BY <2>1, <2>2, <1>0
<1>3. CASE S # {}
  <2>1. PICK m \in S : \A r \in S : m <= r
    BY <1>0, <1>3, LeastExists, Zenon
  <2>2. m \in p..Len(t) /\ t[m] = Newline
    BY <2>1
  <2>3. \A q \in p..m - 1 : t[q] # Newline
    BY <2>1, <2>2, <1>0
  <2>4. e = m + 1
    BY <2>2, <2>3, <1>0, <1>1, NextLineIs, Zenon
  <2>5. e \in p + 1..Len(t) + 1 /\ e - 1 = m /\ e - 2 = m - 1
    BY <2>2, <2>4, <1>0
  <2> QED
    BY <2>2, <2>3, <2>5, Zenon
<1> QED
  BY <1>2, <1>3

LEMMA CommentRange ==
    ASSUME NEW t \in Seq(STRING), NEW p \in 1..Len(t), Pair(t, p, "/", "*")
    PROVE  /\ p + 2 \in 1..Len(t) + 1
           /\ Reader!CommentEnd(t, p) = Body(t)[p + 2]
           /\ \/ Reader!CommentEnd(t, p) = 0
              \/ Reader!CommentEnd(t, p) \in p + 3..Len(t) + 1
<1>1. p + 1 \in 1..Len(t)
  BY PairIs
<1>2. p + 2 \in 1..Len(t) + 1 /\ p + 2 + 1 = p + 3
  BY <1>1
<1>3. Body(t)[p + 2] = 0 \/ Body(t)[p + 2] \in p + 2 + 1..Len(t) + 1
  BY <1>2, BodyIs, Zenon
<1>4. Reader!CommentEnd(t, p) = Body(t)[p + 2]
  BY CommentEndIs, Zenon
<1> QED
  BY <1>2, <1>3, <1>4, Zenon

LEMMA TagRange ==
    ASSUME NEW t \in Seq(STRING), NEW p \in 1..Len(t)
    PROVE  \/ /\ Reader!TagEnd(t, p) = 0
              /\ \A q \in p + 1..Len(t) :
                    ~ (/\ t[q] = "$" /\ At(t, p + 1) \notin Digit
                       /\ \A r \in p + 1..q - 1 : t[r] \in IdentChar)
           \/ /\ Reader!TagEnd(t, p) \in p + 1..Len(t)
              /\ t[Reader!TagEnd(t, p)] = "$" /\ At(t, p + 1) \notin Digit
              /\ \A r \in p + 1..Reader!TagEnd(t, p) - 1 : t[r] \in IdentChar
<1> DEFINE TagAt(q) == /\ t[q] = "$" /\ At(t, p + 1) \notin Digit
                       /\ \A r \in p + 1..q - 1 : t[r] \in IdentChar
           S == {q \in p + 1..Len(t) : TagAt(q)}
<1>1. Reader!TagEnd(t, p) = Reader!LeastOrZero(S)
  BY SameText, Zenon DEF Reader!TagEnd
<1> HIDE DEF TagAt
<1>2. S \subseteq Nat
  OBVIOUS
<1>3. CASE S = {}
  <2>1. Reader!TagEnd(t, p) = 0
    BY <1>1, <1>3, LeastOrZeroNone, Zenon
  <2>2. \A q \in p + 1..Len(t) : ~ TagAt(q)
    BY <1>3, Zenon
  <2> QED
    BY <2>1, <2>2, Zenon DEF TagAt
<1>4. CASE S # {}
  <2>1. Reader!TagEnd(t, p) \in S
    BY <1>1, <1>2, <1>4, LeastOrZeroSome, Zenon
  <2>2. Reader!TagEnd(t, p) \in p + 1..Len(t) /\ TagAt(Reader!TagEnd(t, p))
    BY <2>1, Zenon
  <2> QED
    BY <2>2, Zenon DEF TagAt
<1> QED
  BY <1>3, <1>4

LEMMA DollarRange ==
    ASSUME NEW t \in Seq(STRING), NEW p \in 1..Len(t), NEW n \in Nat, n > 1,
           Reader!TagEnd(t, p) = p + n - 1
    PROVE  \/ Reader!DollarEnd(t, p) = 0
           \/ /\ Reader!DollarEnd(t, p) \in p + 2 * n..Len(t) + 1
              /\ Reader!DollarEnd(t, p) - n \in Matches(t, p, n)
              /\ \A q \in Matches(t, p, n) : Reader!DollarEnd(t, p) - n <= q
<1> DEFINE S == Matches(t, p, n)
           k == Reader!LeastOrZero(S)
<1>1. S \subseteq p + n..Len(t) - n + 1
  BY Zenon DEF Matches
<1>0. p \in Nat /\ S \subseteq Nat
  BY <1>1
<1>2. Reader!DollarEnd(t, p) = IF k = 0 THEN 0 ELSE k + n
  BY <1>0, DollarEndIs, Zenon
<1>3. CASE S = {}
  <2>1. k = 0
    BY <1>3, LeastOrZeroNone, Zenon
  <2> QED
    BY <2>1, <1>2, Zenon
<1>4. CASE S # {}
  <2>1. k \in S /\ \A q \in S : k <= q
    BY <1>0, <1>4, LeastOrZeroSome, Zenon
  <2> HIDE DEF S, k
  <2>2. k \in p + n..Len(t) - n + 1
    BY <2>1, <1>1, Zenon
  <2>3. /\ Reader!DollarEnd(t, p) \in p + 2 * n..Len(t) + 1
        /\ Reader!DollarEnd(t, p) - n = k
    BY <1>2, <2>2
  <2> QED
    BY <2>1, <2>2, <2>3, Zenon DEF S
<1> QED
  BY <1>3, <1>4

(* The body of a comment ends with the slash that closes it. *)
LEMMA BodyEnds ==
    ASSUME NEW t \in Seq(STRING)
    PROVE  \A q \in 1..Len(t) + 1 : Body(t)[q] # 0 => t[Body(t)[q] - 1] = "/"
<1> DEFINE n == Len(t) + 1
           Bad == {q \in 1..n : Body(t)[q] # 0 /\ t[Body(t)[q] - 1] # "/"}
<1>1. n \in Nat /\ n = Len(t) + 1 /\ Bad \subseteq 0..n
  OBVIOUS
<1>2. SUFFICES ASSUME Bad # {} PROVE FALSE
  BY <1>2, Zenon
<1>3. PICK q \in Bad : \A r \in Bad : r <= q
  BY <1>1, <1>2, GreatestExists, Zenon
<1>4. q \in 1..n /\ Body(t)[q] # 0 /\ t[Body(t)[q] - 1] # "/"
  BY <1>3
<1> DEFINE End(r) == Body(t)[r]
           Closed(r) == End(r) # 0 => t[End(r) - 1] = "/"
           Close == Pair(t, q, "*", "/")
           Nest == Pair(t, q, "/", "*")
<1>5. \A r \in q + 1..n : Closed(r)
  <2> SUFFICES ASSUME NEW r \in q + 1..n PROVE Closed(r)
    OBVIOUS
  <2>1. r \in 1..n /\ ~ r <= q
    BY <1>4, <1>1
  <2>2. r \notin Bad
    BY <2>1, <1>3
  <2> QED
    BY <2>1, <2>2
<1>6. /\ q > Len(t) => End(q) = 0
      /\ Close => End(q) = q + 2
      /\ Nest => End(q) = IF End(q + 2) = 0 THEN 0 ELSE End(End(q + 2))
      /\ q <= Len(t) /\ ~ Close /\ ~ Nest => End(q) = End(q + 1)
  BY <1>4, BodyStep, Zenon
<1>7. \A r \in 1..n : End(r) = 0 \/ End(r) \in r + 1..n
  BY BodyIs, Zenon
<1>8. Close => q + 1 \in 1..Len(t) /\ t[q + 1] = "/"
  BY <1>4, PairIs
<1>9. Nest => q + 1 \in 1..Len(t)
  BY <1>4, PairIs
<1> HIDE DEF Close, Nest, End, n
<1>10. CASE Close
  <2>1. End(q) - 1 = q + 1
    BY <1>4, <1>6, <1>10
  <2> QED
    BY <2>1, <1>4, <1>8, <1>10, Zenon DEF End
<1>11. CASE Nest
  <2>1. q + 2 \in q + 1..n /\ q + 2 \in 1..n
    BY <1>1, <1>4, <1>9, <1>11
  <2>2. CASE End(q + 2) = 0
    BY <2>2, <1>4, <1>6, <1>11, Zenon DEF End
  <2>3. CASE End(q + 2) # 0
    <3>1. End(q + 2) \in q + 2 + 1..n
      BY <2>1, <2>3, <1>7, Zenon
    <3>2. End(q + 2) \in q + 1..n
      BY <3>1, <1>4, <1>1
    <3>3. End(q) = End(End(q + 2))
      BY <1>6, <1>11, <2>3, Zenon
    <3> QED
      BY <3>2, <3>3, <1>4, <1>5, Zenon DEF End
  <2> QED
    BY <2>2, <2>3
<1>12. CASE q <= Len(t) /\ ~ Close /\ ~ Nest
  <2>1. q + 1 \in q + 1..n
    BY <1>1, <1>4, <1>12
  <2>2. End(q) = End(q + 1)
    BY <1>6, <1>12, Zenon
  <2> QED
    BY <2>1, <2>2, <1>4, <1>5, Zenon DEF End
<1>13. CASE q > Len(t)
  BY <1>4, <1>6, <1>13, Zenon DEF End
<1>14. q \in Int /\ Len(t) \in Nat
  BY <1>4
<1>15. q <= Len(t) \/ q > Len(t)
  BY <1>14
<1> QED
  BY <1>10, <1>11, <1>12, <1>13, <1>15, Zenon

(***************************************************************************)
(* An element ends later in the text, and only a line comment ends with a  *)
(* blank if it is longer than a character.                                 *)
(***************************************************************************)

LEMMA MarksNotBlank ==
    \A mark \in {";", "-", "/", "*", "$", Quote, DoubleQuoteMark} :
        mark \notin Blank /\ mark \notin AsciiBlank
  BY CharacterAssumption DEF Special

LEMMA ElementRange ==
    ASSUME NEW t \in Seq(STRING), NEW p \in 1..Len(t), Reader!ElementEnd(t, p) # 0
    PROVE  /\ Reader!ElementEnd(t, p) \in p + 1..Len(t) + 1
           /\ \/ Reader!Kind(t, p) = "line comment"
              \/ Reader!ElementEnd(t, p) = p + 1
              \/ t[Reader!ElementEnd(t, p) - 1] \notin Blank
<1> DEFINE kind == Reader!Kind(t, p)
           e == Reader!ElementEnd(t, p)
<1>0. Len(t) \in Nat /\ p \in Nat /\ p > 0 /\ p <= Len(t)
  OBVIOUS
<1>1. kind \in ElementKinds /\ Opens(t, p, kind)
  BY KindOpens
<1>2. CASE kind \in {"separator", "blank", "code"}
  <2>1. e = p + 1
    BY <1>2, OtherEndIs
  <2> QED
    BY <2>1, <1>0
<1>3. CASE kind = "line comment"
  <2>1. e = Reader!LineEnd(t, p)
    BY <1>3, ElementEndIs, Zenon
  <2>2. Reader!LineEnd(t, p) \in p + 1..Len(t) + 1
    BY LineRange
  <2> QED
    BY <1>3, <2>1, <2>2, Zenon
<1>4. CASE kind = "block comment"
  <2>1. e = Reader!CommentEnd(t, p)
    BY <1>4, ElementEndIs, Zenon
  <2>2. Pair(t, p, "/", "*")
    BY <1>1, <1>4, Zenon DEF Opens
  <2>3. p + 2 \in 1..Len(t) + 1 /\ e = Body(t)[p + 2] /\ e \in p + 3..Len(t) + 1
    BY <2>1, <2>2, CommentRange, Zenon
  <2>4. t[e - 1] = "/"
    BY <2>3, BodyEnds, Zenon
  <2>5. t[e - 1] \notin Blank
    BY <2>4, MarksNotBlank
  <2>6. e \in p + 1..Len(t) + 1
    BY <2>3, <1>0
  <2> QED
    BY <2>5, <2>6, Zenon
<1>5. ASSUME NEW escapes, e = Reader!QuotedEnd(t, p, escapes), t[p] \in {Quote, DoubleQuoteMark}
      PROVE  e \in p + 1..Len(t) + 1 /\ t[e - 1] \notin Blank
  <2>1. e \in p + 2..Len(t) + 1 /\ t[e - 1] = t[p]
    <3>1. Reader!QuotedEnd(t, p, escapes) # 0
      BY <1>5, Zenon
    <3>2. /\ Reader!QuotedEnd(t, p, escapes) \in p + 2..Len(t) + 1
          /\ t[Reader!QuotedEnd(t, p, escapes) - 1] = t[p]
      BY <3>1, QuotedRange, Zenon
    <3> QED
      BY <3>2, <1>5, Zenon
  <2>2. t[e - 1] \notin Blank
    BY <2>1, <1>5, MarksNotBlank
  <2>3. e \in p + 1..Len(t) + 1
    BY <2>1, <1>0
  <2> QED
    BY <2>2, <2>3
<1>6. CASE kind = "string literal"
  <2>1. e = Reader!QuotedEnd(t, p, Reader!EscapeString(t, p))
    BY <1>6, ElementEndIs, Zenon
  <2>2. t[p] \in {Quote, DoubleQuoteMark}
    BY <1>1, <1>6, Zenon DEF Opens
  <2> QED
    BY <2>1, <2>2, <1>5, Zenon
<1>7. CASE kind = "quoted identifier"
  <2>1. e = Reader!QuotedEnd(t, p, FALSE)
    BY <1>7, ElementEndIs, Zenon
  <2>2. t[p] \in {Quote, DoubleQuoteMark}
    BY <1>1, <1>7, Zenon DEF Opens
  <2> QED
    BY <2>1, <2>2, <1>5, Zenon
<1>8. CASE kind = "dollar quote"
  <2>1. e = Reader!DollarEnd(t, p)
    BY <1>8, ElementEndIs, Zenon
  <2>2. Reader!TagEnd(t, p) # 0
    BY <1>1, <1>8, Zenon DEF Opens
  <2>3. Reader!TagEnd(t, p) \in p + 1..Len(t) /\ t[Reader!TagEnd(t, p)] = "$"
    BY <2>2, TagRange, Zenon
  <2> DEFINE n == Reader!TagEnd(t, p) - p + 1
  <2>4. n \in Nat /\ n > 1 /\ Reader!TagEnd(t, p) = p + n - 1
    BY <2>3, <1>0
  <2> HIDE DEF n, e
  <2>5. e \in p + 2 * n..Len(t) + 1 /\ e - n \in Matches(t, p, n)
    <3>1. Reader!DollarEnd(t, p) # 0
      BY <2>1, Zenon DEF e
    <3>2. /\ Reader!DollarEnd(t, p) \in p + 2 * n..Len(t) + 1
          /\ Reader!DollarEnd(t, p) - n \in Matches(t, p, n)
      BY <2>4, <3>1, DollarRange, Zenon
    <3> QED
      BY <2>1, <3>2, Zenon
  <2>6. \A d \in 0..n - 1 : t[e - n + d] = t[p + d]
    BY <2>5, Zenon DEF Matches
  <2>7. n - 1 \in 0..n - 1 /\ e - n + (n - 1) = e - 1 /\ p + (n - 1) = p + n - 1
    BY <2>4, <2>5, <1>0
  <2>8. t[e - 1] = "$"
    BY <2>3, <2>4, <2>6, <2>7, Zenon
  <2>9. t[e - 1] \notin Blank
    BY <2>8, MarksNotBlank
  <2>10. e \in p + 1..Len(t) + 1
    BY <2>4, <2>5, <1>0
  <2> QED
    BY <2>9, <2>10, Zenon DEF e
<1>9. \/ kind \in {"separator", "blank", "code"} \/ kind = "line comment"
      \/ kind = "block comment" \/ kind = "string literal" \/ kind = "quoted identifier"
      \/ kind = "dollar quote"
  BY <1>1, Zenon DEF ElementKinds
<1> QED
  BY <1>2, <1>3, <1>4, <1>6, <1>7, <1>8, <1>9, Zenon

(***************************************************************************)
(* `u` is the part of `t` after its first `o` characters, cut where the    *)
(* file goes on with a blank or a semicolon, or ends.                      *)
(***************************************************************************)

Part(t, u, o) ==
    /\ t \in Seq(STRING) /\ u \in Seq(STRING) /\ o \in Nat /\ o + Len(u) <= Len(t)
    /\ \A x \in 1..Len(u) : u[x] = t[o + x]
    /\ o + Len(u) # Len(t) => t[o + Len(u) + 1] \in Blank \cup {";"}

LEMMA PartIs ==
    ASSUME NEW t, NEW u, NEW o, Part(t, u, o)
    PROVE  /\ t \in Seq(STRING) /\ u \in Seq(STRING)
           /\ Len(t) \in Nat /\ Len(u) \in Nat /\ o \in Nat /\ o + Len(u) <= Len(t)
           /\ \A x \in 1..Len(u) : o + x \in 1..Len(t) /\ u[x] = t[o + x]
<1>1. t \in Seq(STRING) /\ u \in Seq(STRING) /\ o \in Nat /\ o + Len(u) <= Len(t)
      /\ \A x \in 1..Len(u) : u[x] = t[o + x]
  BY Zenon DEF Part
<1>2. Len(t) \in Nat /\ Len(u) \in Nat
  BY <1>1
<1>3. \A x \in 1..Len(u) : o + x \in 1..Len(t)
  BY <1>1, <1>2
<1> QED
  BY <1>1, <1>2, <1>3

(* The character after the part is no mark, if there is one. *)
LEMMA PartEnds ==
    ASSUME NEW t, NEW u, NEW o, Part(t, u, o), o + Len(u) + 1 \in 1..Len(t),
           NEW mark \in {"-", "/", "*", "$", Quote, DoubleQuoteMark}
    PROVE  t[o + Len(u) + 1] # mark
<1>1. o + Len(u) # Len(t)
  BY PartIs
<1>2. t[o + Len(u) + 1] \in Blank \cup {";"}
  BY <1>1, Zenon DEF Part
<1> QED
  BY <1>2, MarksNotBlank DEF Quote, DoubleQuoteMark

LEMMA AtIs ==
    ASSUME NEW t, NEW p
    PROVE  /\ p \in 1..Len(t) => At(t, p) = t[p]
           /\ p \notin 1..Len(t) => At(t, p) = ""
  BY Zenon DEF At

LEMMA PartPair ==
    ASSUME NEW t, NEW u, NEW o, Part(t, u, o), NEW x \in 1..Len(u),
           NEW a \in {"*", "/", "-"}, NEW b \in {"*", "/", "-"}
    PROVE  Pair(u, x, a, b) <=> Pair(t, o + x, a, b)
<1>1. /\ t \in Seq(STRING) /\ u \in Seq(STRING)
      /\ Len(t) \in Nat /\ Len(u) \in Nat /\ o \in Nat /\ o + Len(u) <= Len(t)
  BY PartIs, Zenon
<1>2. \A y \in 1..Len(u) : o + y \in 1..Len(t) /\ u[y] = t[o + y]
  BY PartIs
<1>3. x \in Int /\ o + x \in Int
  BY <1>1
<1>4. ASSUME Pair(u, x, a, b) PROVE Pair(t, o + x, a, b)
  <2>1. x \in 1..Len(u) /\ x + 1 \in 1..Len(u) /\ u[x] = a /\ u[x + 1] = b
    BY <1>1, <1>3, <1>4, PairIs, Zenon
  <2>2. o + (x + 1) = o + x + 1
    BY <1>1, <1>3
  <2>3. /\ o + x \in 1..Len(t) /\ t[o + x] = a
        /\ o + x + 1 \in 1..Len(t) /\ t[o + x + 1] = b
    BY <2>1, <2>2, <1>2, Zenon
  <2> QED
    BY <2>3, AtIs, Zenon DEF Pair
<1>5. ASSUME Pair(t, o + x, a, b) PROVE Pair(u, x, a, b)
  <2>1. o + x + 1 \in 1..Len(t) /\ t[o + x] = a /\ t[o + x + 1] = b
    BY <1>1, <1>3, <1>5, PairIs, Zenon
  <2>2. x # Len(u)
    <3> SUFFICES ASSUME x = Len(u) PROVE FALSE
      OBVIOUS
    <3>1. b \in {"-", "/", "*", "$", Quote, DoubleQuoteMark}
      OBVIOUS
    <3>2. o + Len(u) + 1 \in 1..Len(t) /\ t[o + Len(u) + 1] = b
      BY <2>1
    <3> QED
      BY <3>1, <3>2, PartEnds, Zenon
  <2>3. x + 1 \in 1..Len(u) /\ o + (x + 1) = o + x + 1
    BY <2>2, <1>1
  <2>4. u[x] = a /\ u[x + 1] = b
    BY <2>1, <2>3, <1>2, Zenon
  <2> QED
    BY <2>3, <2>4, AtIs, Zenon DEF Pair
<1> QED
  BY <1>4, <1>5

LEMMA PartLine ==
    ASSUME NEW t, NEW u, NEW o, Part(t, u, o), NEW x \in 1..Len(u)
    PROVE  Reader!LineEnd(u, x)
              = IF Reader!LineEnd(t, o + x) <= o + Len(u) + 1
                THEN Reader!LineEnd(t, o + x) - o ELSE Len(u) + 1
<1> DEFINE e == Reader!LineEnd(t, o + x)
           f == Reader!LineEnd(u, x)
<1>1. /\ t \in Seq(STRING) /\ u \in Seq(STRING)
      /\ Len(t) \in Nat /\ Len(u) \in Nat /\ o \in Nat /\ o + Len(u) <= Len(t)
      /\ o + x \in 1..Len(t)
  BY PartIs, Zenon
<1>2. \A y \in 1..Len(u) : o + y \in 1..Len(t) /\ u[y] = t[o + y]
  BY PartIs
<1>3. /\ e \in o + x + 1..Len(t) + 1
      /\ \A q \in o + x..e - 2 : t[q] # Newline
      /\ e <= Len(t) => t[e - 1] = Newline
  BY <1>1, LineRange, Zenon
<1>4. /\ f \in x + 1..Len(u) + 1
      /\ \A q \in x..f - 2 : u[q] # Newline
      /\ f <= Len(u) => u[f - 1] = Newline
  BY <1>1, LineRange, Zenon
<1> HIDE DEF e, f
<1>5. f <= Len(u) => o + f >= e
  <2> SUFFICES ASSUME f <= Len(u), o + f < e PROVE FALSE
    BY <1>1, <1>3, <1>4
  <2>1. f - 1 \in 1..Len(u) /\ o + (f - 1) \in o + x..e - 2
    BY <1>1, <1>3, <1>4
  <2> QED
    BY <2>1, <1>2, <1>3, <1>4
<1>6. ASSUME e <= o + Len(u) + 1, e <= Len(t) PROVE f <= e - o
  <2> SUFFICES ASSUME f > e - o PROVE FALSE
    BY <1>1, <1>3, <1>4
  <2>1. e - 1 - o \in 1..Len(u) /\ o + (e - 1 - o) = e - 1 /\ e - 1 - o \in x..f - 2
    BY <1>1, <1>3, <1>4, <1>6
  <2> QED
    BY <2>1, <1>2, <1>3, <1>4, <1>6
<1>7. f = IF e <= o + Len(u) + 1 THEN e - o ELSE Len(u) + 1
  <2> HIDE DEF e, f
  <2>1. e \in Int /\ f \in Int /\ e <= Len(t) + 1 /\ f <= Len(u) + 1
    BY <1>1, <1>3, <1>4
  <2>2. CASE e <= o + Len(u) + 1 /\ e <= Len(t)
    <3>1. f <= e - o
      BY <1>6, <2>2
    <3> QED
      BY <1>1, <1>5, <2>1, <2>2, <3>1
  <2>3. CASE e <= o + Len(u) + 1 /\ e = Len(t) + 1
    BY <1>1, <1>5, <2>1, <2>3
  <2>4. CASE e > o + Len(u) + 1
    BY <1>1, <1>5, <2>1, <2>4
  <2> QED
    BY <1>1, <2>1, <2>2, <2>3, <2>4
<1> QED
  BY <1>7 DEF e, f

(* In both, the same marks are free and left over. *)
LEMMA PartFree ==
    ASSUME NEW t, NEW u, NEW o, Part(t, u, o), NEW x \in 1..Len(u), NEW e \in BOOLEAN,
           t[o + x] \in {Quote, DoubleQuoteMark}
    PROVE  \A k \in x + 1..Len(u) + 1 :
              /\ Free(u, x, e, k) <=> Free(t, o + x, e, o + k)
              /\ OddAt(u, x, e, k) <=> OddAt(t, o + x, e, o + k)
<1> DEFINE p == o + x
           Same(k) == /\ Free(u, x, e, k) <=> Free(t, p, e, o + k)
                      /\ OddAt(u, x, e, k) <=> OddAt(t, p, e, o + k)
           Bad == {k \in x + 1..Len(u) + 1 : ~ Same(k)}
<1>1. Len(u) \in Nat /\ o \in Nat /\ u[x] = t[p] /\ p \in Nat /\ x \in Nat /\ x > 0
  BY PartIs
<1>2. \A y \in 1..Len(u) : u[y] = t[o + y]
  BY PartIs
<1>3. u[x] # Backslash /\ t[p] # Backslash
  BY <1>1, MarksDiffer
<1> SUFFICES ASSUME Bad # {} PROVE FALSE
  BY Zenon
<1> HIDE DEF Same, p
<1>4. PICK k \in Bad : \A r \in Bad : k <= r
  <2>1. Bad \subseteq Nat
    BY <1>1
  <2> QED
    BY <2>1, LeastExists, Zenon
<1>5. k \in x + 1..Len(u) + 1 /\ ~ Same(k)
  BY <1>4
<1>6. CASE k = x + 1
  <2>1. o + k = p + 1
    BY <1>1, <1>6 DEF p
  <2>2. Free(u, x, e, x + 1) /\ Free(t, p, e, p + 1)
    <3>1. Free(u, x, e, x + 1)
      BY <1>1, <1>3, FreeNext
    <3>2. Free(t, p, e, p + 1)
      BY <1>1, <1>3, FreeNext
    <3> QED
      BY <3>1, <3>2
  <2>3. OddAt(u, x, e, x + 1) /\ OddAt(t, p, e, p + 1)
    <3>1. OddAt(u, x, e, x + 1)
      BY <1>1, <1>3, OddNext
    <3>2. OddAt(t, p, e, p + 1)
      BY <1>1, <1>3, OddNext
    <3> QED
      BY <3>1, <3>2
  <2> QED
    BY <2>1, <2>2, <2>3, <1>5, <1>6, Zenon DEF Same
<1>7. CASE k # x + 1
  <2> DEFINE m == k - 1
  <2>1. /\ m \in Nat /\ m > x /\ m \in 1..Len(u) /\ o + m \in Nat /\ o + m > p
        /\ m + 1 = k /\ o + m + 1 = o + k
        /\ m \in x + 1..Len(u) + 1 /\ ~ k <= m
    BY <1>1, <1>5, <1>7 DEF p
  <2> HIDE DEF m
  <2>2. m \notin Bad
    BY <2>1, <1>4
  <2>3. Same(m)
    BY <2>1, <2>2
  <2>4. u[m] = t[o + m]
    BY <2>1, <1>2, Zenon
  <2>5. /\ Free(u, x, e, m + 1) <=> ~ (e /\ u[m] = Backslash /\ Free(u, x, e, m))
        /\ OddAt(u, x, e, m + 1) <=> ~ (u[m] = u[x] /\ Free(u, x, e, m) /\ OddAt(u, x, e, m))
    <3>1. x \in Nat /\ m \in Nat /\ m > x /\ u[x] # Backslash
      BY <1>1, <1>3, <2>1
    <3> QED
      BY <3>1, OneOn, SMTT(30)
  <2>6. /\ Free(t, p, e, o + m + 1)
              <=> ~ (e /\ t[o + m] = Backslash /\ Free(t, p, e, o + m))
        /\ OddAt(t, p, e, o + m + 1)
              <=> ~ (t[o + m] = t[p] /\ Free(t, p, e, o + m) /\ OddAt(t, p, e, o + m))
    <3>1. p \in Nat /\ o + m \in Nat /\ o + m > p /\ t[p] # Backslash
      BY <1>1, <1>3, <2>1
    <3> QED
      BY <3>1, OneOn
  <2>7. Free(u, x, e, k) <=> Free(t, p, e, o + k)
    BY <2>1, <2>3, <2>4, <2>5, <2>6, Zenon DEF Same
  <2>8. OddAt(u, x, e, k) <=> OddAt(t, p, e, o + k)
    BY <2>1, <2>3, <2>4, <2>5, <2>6, <1>1, Zenon DEF Same
  <2> QED
    BY <2>7, <2>8, <1>5, Zenon DEF Same
<1> QED
  BY <1>6, <1>7

LEMMA PartClosers ==
    ASSUME NEW t, NEW u, NEW o, Part(t, u, o), NEW x \in 1..Len(u), NEW e \in BOOLEAN,
           t[o + x] \in {Quote, DoubleQuoteMark}, NEW q \in x + 1..Len(u)
    PROVE  q \in Closers(u, x, e) <=> o + q \in Closers(t, o + x, e)
<1>1. /\ Len(u) \in Nat /\ Len(t) \in Nat /\ o \in Nat /\ o + Len(u) <= Len(t)
      /\ x \in Nat /\ u[x] = t[o + x]
  BY PartIs
<1>2. \A y \in 1..Len(u) : o + y \in 1..Len(t) /\ u[y] = t[o + y]
  BY PartIs
<1>3. q \in 1..Len(u) /\ q \in x + 1..Len(u) + 1
  BY <1>1
<1>4. u[q] = t[o + q] /\ o + q \in 1..Len(t)
  BY <1>2, <1>3, Zenon
<1>5. /\ Free(u, x, e, q) <=> Free(t, o + x, e, o + q)
      /\ OddAt(u, x, e, q) <=> OddAt(t, o + x, e, o + q)
  <2>1. \A k \in x + 1..Len(u) + 1 :
           /\ Free(u, x, e, k) <=> Free(t, o + x, e, o + k)
           /\ OddAt(u, x, e, k) <=> OddAt(t, o + x, e, o + k)
    BY PartFree
  <2> QED
    BY <1>3, <2>1, Zenon
<1>6. At(u, q + 1) # u[x] <=> At(t, o + q + 1) # t[o + x]
  <2>1. CASE q # Len(u)
    <3>1. q + 1 \in 1..Len(u) /\ o + (q + 1) = o + q + 1
      BY <1>1, <2>1
    <3>2. u[q + 1] = t[o + (q + 1)] /\ o + (q + 1) \in 1..Len(t)
      BY <3>1, <1>2
    <3>3. At(u, q + 1) = At(t, o + q + 1)
      BY <3>1, <3>2, AtIs, Zenon
    <3> QED
      BY <3>3, <1>1, Zenon
  <2>2. CASE q = Len(u)
    <3>1. q + 1 \notin 1..Len(u)
      BY <1>1, <2>2
    <3>2. t[o + x] # ""
      BY MarksAreCharacters, Zenon
    <3>3. At(u, q + 1) # u[x]
      BY <3>1, <3>2, <1>1, AtIs, Zenon
    <3>4. CASE o + q + 1 \in 1..Len(t)
      <4>1. o + Len(u) + 1 \in 1..Len(t)
        BY <3>4, <2>2
      <4>2. t[o + Len(u) + 1] # t[o + x]
        BY <4>1, PartEnds, Zenon
      <4> QED
        BY <4>2, <3>3, <3>4, <2>2, AtIs, Zenon
    <3>5. CASE o + q + 1 \notin 1..Len(t)
      BY <3>5, <3>2, <3>3, AtIs, Zenon
    <3> QED
      BY <3>4, <3>5
  <2> QED
    BY <2>1, <2>2
<1>7. o + q \in o + x + 1..Len(t)
  BY <1>1, <1>4
<1>8. /\ Reader!At(u, q + 1) = At(u, q + 1)
      /\ Reader!At(t, o + q + 1) = At(t, o + q + 1)
  BY SameText, Zenon
<1> QED
  BY <1>1, <1>4, <1>5, <1>6, <1>7, <1>8, Zenon DEF Closers

LEMMA PartQuoted ==
    ASSUME NEW t, NEW u, NEW o, Part(t, u, o), NEW x \in 1..Len(u), NEW e \in BOOLEAN,
           t[o + x] \in {Quote, DoubleQuoteMark},
           Reader!QuotedEnd(t, o + x, e) # 0,
           Reader!QuotedEnd(t, o + x, e) <= o + Len(u) + 1
    PROVE  Reader!QuotedEnd(u, x, e) = Reader!QuotedEnd(t, o + x, e) - o
<1> DEFINE r == Reader!QuotedEnd(t, o + x, e)
           k == r - 1 - o
<1>1. /\ Len(u) \in Nat /\ Len(t) \in Nat /\ o \in Nat /\ o + Len(u) <= Len(t)
      /\ x \in Nat /\ o + x \in 1..Len(t) /\ t \in Seq(STRING)
  BY PartIs
<1>2. r \in o + x + 2..Len(t) + 1 /\ r - 1 \in Closers(t, o + x, e)
  BY <1>1, QuotedRange, Zenon
<1>3. \A q \in Closers(t, o + x, e) : r - 1 <= q
  BY <1>1, QuotedRange, Zenon
<1>4. r <= o + Len(u) + 1
  OBVIOUS
<1> HIDE DEF r
<1>5. k \in x + 1..Len(u) /\ o + k = r - 1 /\ k + 1 = r - o /\ k # 0
  BY <1>1, <1>2, <1>4
<1> HIDE DEF k
<1>6. k \in Closers(u, x, e)
  BY <1>2, <1>5, PartClosers, Zenon
<1>7. Closers(u, x, e) \subseteq x + 1..Len(u)
  BY Zenon DEF Closers
<1>8. \A q \in Closers(u, x, e) : k <= q
  <2> SUFFICES ASSUME NEW q \in Closers(u, x, e) PROVE k <= q
    BY Zenon
  <2>1. q \in x + 1..Len(u)
    BY <1>7, Zenon
  <2>2. o + q \in Closers(t, o + x, e)
    BY <2>1, PartClosers, Zenon
  <2>3. r - 1 <= o + q
    BY <2>2, <1>3, Zenon
  <2> QED
    BY <2>1, <2>3, <1>1, <1>2, <1>5
<1>9. Closers(u, x, e) \subseteq Nat
  BY <1>1, <1>7
<1>10. Reader!LeastOrZero(Closers(u, x, e)) = k
  BY <1>6, <1>8, <1>9, LeastOrZeroIs, Zenon
<1>11. Reader!QuotedEnd(u, x, e) = k + 1
  BY <1>5, <1>10, QuotedEndIs, Zenon
<1> QED
  BY <1>5, <1>11, Zenon DEF r

(* A comment's body that ends within the part ends there in both. *)
LEMMA PartBody ==
    ASSUME NEW t, NEW u, NEW o, Part(t, u, o)
    PROVE  \A x \in 1..Len(u) + 1 :
              Body(t)[o + x] # 0 /\ Body(t)[o + x] <= o + Len(u) + 1
                 => Body(u)[x] = Body(t)[o + x] - o
<1> DEFINE n == Len(u) + 1
           Within(x) == Body(t)[o + x] # 0 /\ Body(t)[o + x] <= o + n
           Same(x) == Body(u)[x] = Body(t)[o + x] - o
           Bad == {x \in 1..n : Within(x) /\ ~ Same(x)}
<1>1. /\ Len(u) \in Nat /\ Len(t) \in Nat /\ o \in Nat /\ o + Len(u) <= Len(t)
      /\ t \in Seq(STRING) /\ u \in Seq(STRING) /\ n \in Nat
  BY PartIs
<1>2. SUFFICES ASSUME Bad # {} PROVE FALSE
  <2>1. \A x \in 1..n : Within(x) => Same(x)
    BY <1>2, Zenon
  <2>2. o + n = o + Len(u) + 1
    BY <1>1
  <2> QED
    BY <2>1, <2>2, Zenon
<1>3. PICK x \in Bad : \A y \in Bad : y <= x
  <2>1. Bad \subseteq 0..n
    BY <1>1
  <2> QED
    BY <1>1, <1>2, <2>1, GreatestExists, Zenon
<1>4. x \in 1..n /\ Within(x) /\ ~ Same(x)
  BY <1>3
<1>5. \A y \in 1..n : x < y /\ Within(y) => Same(y)
  <2> SUFFICES ASSUME NEW y \in 1..n, x < y, Within(y) PROVE Same(y)
    BY Zenon
  <2>1. ~ y <= x
    BY <1>1, <1>4
  <2>2. y \notin Bad
    BY <2>1, <1>3, Zenon
  <2> QED
    BY <2>2, Zenon
<1>6. /\ o + x \in 1..Len(t) + 1
      /\ Body(t)[o + x] \in o + x + 1..Len(t) + 1
      /\ x \in 1..Len(u)
  <2>1. o + x \in 1..Len(t) + 1
    BY <1>1, <1>4
  <2>2. Body(t)[o + x] \in o + x + 1..Len(t) + 1
    BY <2>1, <1>1, <1>4, BodyIs, Zenon
  <2>3. Body(t)[o + x] <= o + n
    BY <1>4
  <2> QED
    BY <2>1, <2>2, <2>3, <1>1, <1>4
<1> DEFINE CloseU == Pair(u, x, "*", "/")
           NestU == Pair(u, x, "/", "*")
           CloseT == Pair(t, o + x, "*", "/")
           NestT == Pair(t, o + x, "/", "*")
<1>7. (CloseU <=> CloseT) /\ (NestU <=> NestT)
  <2>1. x \in 1..Len(u)
    BY <1>6
  <2>2. CloseU <=> CloseT
    BY <2>1, PartPair
  <2>3. NestU <=> NestT
    BY <2>1, PartPair
  <2> QED
    BY <2>2, <2>3
<1>8. /\ CloseU => Body(u)[x] = x + 2
      /\ NestU => Body(u)[x] = IF Body(u)[x + 2] = 0 THEN 0 ELSE Body(u)[Body(u)[x + 2]]
      /\ x <= Len(u) /\ ~ CloseU /\ ~ NestU => Body(u)[x] = Body(u)[x + 1]
  BY <1>1, <1>4, BodyStep, Zenon
<1>9. /\ CloseT => Body(t)[o + x] = o + x + 2
      /\ NestT => Body(t)[o + x]
                     = IF Body(t)[o + x + 2] = 0 THEN 0 ELSE Body(t)[Body(t)[o + x + 2]]
      /\ o + x <= Len(t) /\ ~ CloseT /\ ~ NestT => Body(t)[o + x] = Body(t)[o + x + 1]
  BY <1>1, <1>6, BodyStep, Zenon
<1>10. NestU => x + 1 \in 1..Len(u)
  <2>1. x \in Int
    BY <1>6
  <2> QED
    BY <1>1, <2>1, PairIs, Zenon
<1>11. \A y \in 1..Len(t) + 1 : Body(t)[y] = 0 \/ Body(t)[y] \in y + 1..Len(t) + 1
  BY <1>1, BodyIs, Zenon
<1> HIDE DEF CloseU, NestU, CloseT, NestT, n
<1>12. CASE CloseU
  <2>1. Body(u)[x] = x + 2 /\ Body(t)[o + x] = o + x + 2
    BY <1>7, <1>8, <1>9, <1>12, Zenon
  <2>2. Body(t)[o + x] - o = x + 2
    BY <2>1, <1>1, <1>6
  <2> QED
    BY <2>1, <2>2, <1>4, Zenon
<1>13. CASE NestU
  <2> DEFINE m == Body(t)[o + x + 2]
             k == m - o
  <2>1. x + 2 \in 1..n /\ o + (x + 2) = o + x + 2 /\ o + x + 2 \in 1..Len(t) + 1
    BY <1>1, <1>6, <1>10, <1>13 DEF n
  <2>2. m # 0 /\ Body(t)[o + x] = Body(t)[m]
    BY <1>4, <1>7, <1>9, <1>13, Zenon
  <2>3. m \in o + x + 2 + 1..Len(t) + 1
    BY <2>1, <2>2, <1>11, Zenon
  <2>4. m \in 1..Len(t) + 1
    BY <2>3, <1>1, <1>6
  <2>5. Body(t)[m] \in m + 1..Len(t) + 1
    BY <2>2, <2>4, <1>4, <1>11, Zenon
  <2>6. Body(t)[m] <= o + n
    BY <2>2, <1>4, Zenon
  <2> HIDE DEF m
  <2>7. m <= o + n /\ k \in 1..n /\ x < k /\ o + k = m /\ x < x + 2
    BY <2>3, <2>5, <2>6, <1>1, <1>6
  <2>8. Body(u)[x + 2] = k
    <3>1. Within(x + 2)
      BY <2>1, <2>2, <2>7, Zenon DEF m
    <3>2. Same(x + 2)
      BY <3>1, <2>1, <2>7, <1>5, Zenon
    <3> QED
      BY <3>2, <2>1, Zenon DEF m
  <2>9. Body(u)[k] = Body(t)[m] - o
    <3>1. Within(k)
      BY <2>2, <2>6, <2>7, <1>4, Zenon
    <3>2. Same(k)
      BY <3>1, <2>7, <1>5, Zenon
    <3> QED
      BY <3>2, <2>7, Zenon
  <2>10. k # 0
    BY <2>7
  <2> HIDE DEF k
  <2>11. Body(u)[x] = Body(t)[o + x] - o
    BY <2>2, <2>8, <2>9, <2>10, <1>8, <1>13, Zenon
  <2> QED
    BY <2>11, <1>4, Zenon
<1>14. CASE ~ CloseU /\ ~ NestU
  <2>1. /\ x <= Len(u) /\ o + x <= Len(t) /\ x + 1 \in 1..n
        /\ o + (x + 1) = o + x + 1 /\ x < x + 1
    BY <1>1, <1>6 DEF n
  <2>2. Body(u)[x] = Body(u)[x + 1] /\ Body(t)[o + x] = Body(t)[o + (x + 1)]
    BY <2>1, <1>7, <1>8, <1>9, <1>14, Zenon
  <2>3. Within(x + 1)
    BY <2>2, <1>4, Zenon
  <2>4. Same(x + 1)
    BY <2>1, <2>3, <1>5, Zenon
  <2> QED
    BY <2>2, <2>4, <1>4, Zenon
<1> QED
  BY <1>12, <1>13, <1>14

LEMMA PartComment ==
    ASSUME NEW t, NEW u, NEW o, Part(t, u, o), NEW x \in 1..Len(u),
           Pair(t, o + x, "/", "*"),
           Reader!CommentEnd(t, o + x) # 0,
           Reader!CommentEnd(t, o + x) <= o + Len(u) + 1
    PROVE  Reader!CommentEnd(u, x) = Reader!CommentEnd(t, o + x) - o
<1>1. /\ t \in Seq(STRING) /\ u \in Seq(STRING) /\ o + x \in 1..Len(t)
      /\ Len(u) \in Nat /\ o \in Nat /\ x \in Nat
  BY PartIs
<1>2. Pair(u, x, "/", "*")
  BY PartPair
<1>3. x + 2 \in 1..Len(u) + 1 /\ Reader!CommentEnd(u, x) = Body(u)[x + 2]
  BY <1>1, <1>2, CommentRange, Zenon
<1>4. Reader!CommentEnd(t, o + x) = Body(t)[o + x + 2]
  BY <1>1, CommentRange, Zenon
<1>5. o + x + 2 = o + (x + 2)
  BY <1>1
<1>6. Body(u)[x + 2] = Body(t)[o + (x + 2)] - o
  <2>1. Body(t)[o + (x + 2)] # 0 /\ Body(t)[o + (x + 2)] <= o + Len(u) + 1
    BY <1>4, <1>5, Zenon
  <2> QED
    BY <1>3, <2>1, PartBody
<1> QED
  BY <1>3, <1>4, <1>5, <1>6, Zenon

(* A tag that ends within the part is one in both. *)
LEMMA PartTag ==
    ASSUME NEW t, NEW u, NEW o, Part(t, u, o), NEW x \in 1..Len(u)
    PROVE  /\ Reader!TagEnd(t, o + x) = 0 => Reader!TagEnd(u, x) = 0
           /\ Reader!TagEnd(t, o + x) # 0 /\ Reader!TagEnd(t, o + x) <= o + Len(u)
                 => Reader!TagEnd(u, x) = Reader!TagEnd(t, o + x) - o
<1>1. /\ t \in Seq(STRING) /\ u \in Seq(STRING) /\ o + x \in 1..Len(t)
      /\ Len(u) \in Nat /\ Len(t) \in Nat /\ o \in Nat /\ x \in Nat /\ o + Len(u) <= Len(t)
  BY PartIs
<1>2. \A y \in 1..Len(u) : o + y \in 1..Len(t) /\ u[y] = t[o + y]
  BY PartIs
<1> DEFINE p == o + x
           WordT(q) == \A r \in p + 1..q - 1 : t[r] \in IdentChar
           WordU(q) == \A r \in x + 1..q - 1 : u[r] \in IdentChar
           TagT(q) == t[q] = "$" /\ At(t, p + 1) \notin Digit /\ WordT(q)
           TagU(q) == u[q] = "$" /\ At(u, x + 1) \notin Digit /\ WordU(q)
<1>3. ASSUME NEW q \in x + 1..Len(u)
      PROVE  TagU(q) <=> TagT(o + q)
  <2>1. q \in 1..Len(u) /\ x + 1 \in 1..Len(u) /\ o + (x + 1) = p + 1
    BY <1>1
  <2>2. u[q] = t[o + q]
    BY <2>1, <1>2
  <2>3. At(u, x + 1) = At(t, p + 1)
    <3>1. u[x + 1] = t[o + (x + 1)] /\ o + (x + 1) \in 1..Len(t)
      BY <2>1, <1>2
    <3> QED
      BY <2>1, <3>1, AtIs, Zenon
  <2>4. WordU(q) <=> WordT(o + q)
    <3>1. ASSUME WordU(q) PROVE WordT(o + q)
      <4> SUFFICES ASSUME NEW r \in p + 1..(o + q) - 1 PROVE t[r] \in IdentChar
        OBVIOUS
      <4>1. r - o \in x + 1..q - 1 /\ r - o \in 1..Len(u) /\ o + (r - o) = r
        BY <1>1
      <4> QED
        BY <4>1, <1>2, <3>1
    <3>2. ASSUME WordT(o + q) PROVE WordU(q)
      <4> SUFFICES ASSUME NEW r \in x + 1..q - 1 PROVE u[r] \in IdentChar
        OBVIOUS
      <4>1. o + r \in p + 1..(o + q) - 1 /\ r \in 1..Len(u)
        BY <1>1
      <4> QED
        BY <4>1, <1>2, <3>2
    <3> HIDE DEF WordU, WordT
    <3> QED
      BY <3>1, <3>2
  <2> HIDE DEF WordU, WordT
  <2> QED
    BY <2>2, <2>3, <2>4, Zenon
<1>4. \/ Reader!TagEnd(t, p) = 0 /\ \A q \in p + 1..Len(t) : ~ TagT(q)
      \/ Reader!TagEnd(t, p) \in p + 1..Len(t) /\ TagT(Reader!TagEnd(t, p))
  BY <1>1, TagRange, Zenon
<1>5. \/ Reader!TagEnd(u, x) = 0 /\ \A q \in x + 1..Len(u) : ~ TagU(q)
      \/ Reader!TagEnd(u, x) \in x + 1..Len(u) /\ TagU(Reader!TagEnd(u, x))
  BY <1>1, TagRange, Zenon
<1> DEFINE e == Reader!TagEnd(t, p)
           f == Reader!TagEnd(u, x)
<1>6. ASSUME NEW q \in p + 1..Len(t), NEW r \in p + 1..Len(t), TagT(q), TagT(r)
      PROVE  q <= r
  <2>1. ~ r \in p + 1..q - 1
    BY <1>6, DollarIsNoIdent, Zenon
  <2> QED
    BY <2>1, <1>1
<1> HIDE DEF TagT, TagU, WordT, WordU, e, f
<1>10. \/ e = 0 /\ \A q \in p + 1..Len(t) : ~ TagT(q)
       \/ e \in p + 1..Len(t) /\ TagT(e)
  BY <1>4, Zenon DEF e
<1>11. \/ f = 0 /\ \A q \in x + 1..Len(u) : ~ TagU(q)
       \/ f \in x + 1..Len(u) /\ TagU(f)
  BY <1>5, Zenon DEF f
<1>12. 0 \notin p + 1..Len(t) /\ 0 \notin x + 1..Len(u)
  BY <1>1
<1> HIDE DEF p
<1>7. f # 0 => f \in x + 1..Len(u) /\ o + f \in p + 1..Len(t) /\ TagT(o + f)
  <2> SUFFICES ASSUME f # 0
               PROVE  f \in x + 1..Len(u) /\ o + f \in p + 1..Len(t) /\ TagT(o + f)
    OBVIOUS
  <2>1. f \in x + 1..Len(u) /\ TagU(f)
    BY <1>11, Zenon
  <2>2. o + f \in p + 1..Len(t)
    BY <2>1, <1>1 DEF p
  <2> QED
    BY <2>1, <2>2, <1>3, Zenon
<1>8. e = 0 => f = 0
  BY <1>7, <1>10, <1>12, Zenon
<1>9. ASSUME e # 0, e <= o + Len(u) PROVE f = e - o
  <2>1. e \in p + 1..Len(t) /\ TagT(e)
    BY <1>10, <1>9, Zenon
  <2>2. e - o \in x + 1..Len(u) /\ o + (e - o) = e
    BY <2>1, <1>1, <1>9 DEF p
  <2>3. TagU(e - o)
    BY <2>1, <2>2, <1>3, Zenon
  <2>4. f # 0
    BY <2>2, <2>3, <1>11, <1>12, Zenon
  <2>5. f \in x + 1..Len(u) /\ o + f \in p + 1..Len(t) /\ TagT(o + f)
    BY <2>4, <1>7, Zenon
  <2>6. o + f <= e /\ e <= o + f
    BY <2>1, <2>5, <1>6, Zenon
  <2> QED
    BY <2>1, <2>5, <2>6, <1>1
<1> QED
  BY <1>8, <1>9, Zenon DEF e, f, p

LEMMA PartDollar ==
    ASSUME NEW t, NEW u, NEW o, Part(t, u, o), NEW x \in 1..Len(u),
           Reader!TagEnd(t, o + x) # 0, Reader!DollarEnd(t, o + x) # 0,
           Reader!DollarEnd(t, o + x) <= o + Len(u) + 1
    PROVE  /\ Reader!TagEnd(u, x) # 0
           /\ Reader!DollarEnd(u, x) = Reader!DollarEnd(t, o + x) - o
<1> DEFINE p == o + x
           n == Reader!TagEnd(t, p) - p + 1
           r == Reader!DollarEnd(t, p)
           k == r - n - o
<1>1. /\ t \in Seq(STRING) /\ u \in Seq(STRING) /\ p \in 1..Len(t)
      /\ Len(u) \in Nat /\ Len(t) \in Nat /\ o \in Nat /\ x \in Nat /\ o + Len(u) <= Len(t)
  BY PartIs
<1>2. \A y \in 1..Len(u) : o + y \in 1..Len(t) /\ u[y] = t[o + y]
  BY PartIs
<1>3. Reader!TagEnd(t, p) \in p + 1..Len(t)
  BY <1>1, TagRange, Zenon
<1>4. n \in Nat /\ n > 1 /\ Reader!TagEnd(t, p) = p + n - 1
  BY <1>1, <1>3
<1> HIDE DEF n, p
<1>5. /\ r \in p + 2 * n..Len(t) + 1 /\ r - n \in Matches(t, p, n)
      /\ \A q \in Matches(t, p, n) : r - n <= q
  <2>1. r # 0
    BY DEF p
  <2> QED
    BY <1>1, <1>4, <2>1, DollarRange, Zenon
<1>6. r <= o + Len(u) + 1 /\ p = o + x
  BY DEF p
<1> HIDE DEF r
<1>7. /\ k \in x + n..Len(u) - n + 1 /\ o + k = r - n /\ k + n = r - o /\ k # 0
      /\ p + n - 1 <= o + Len(u) /\ x + n - 1 # 0
  BY <1>1, <1>4, <1>5, <1>6
<1>8. Reader!TagEnd(u, x) = x + n - 1
  <2>1. /\ Reader!TagEnd(t, p) # 0 /\ Reader!TagEnd(t, p) <= o + Len(u)
        /\ Reader!TagEnd(t, p) - o = x + n - 1
    BY <1>1, <1>3, <1>4, <1>6, <1>7
  <2>2. Reader!TagEnd(t, p) # 0 /\ Reader!TagEnd(t, p) <= o + Len(u)
           => Reader!TagEnd(u, x) = Reader!TagEnd(t, p) - o
    BY PartTag DEF p
  <2> QED
    BY <2>1, <2>2, Zenon
<1>9. ASSUME NEW q \in x + n..Len(u) - n + 1, NEW d \in 0..n - 1
      PROVE  u[q + d] = t[(o + q) + d] /\ u[x + d] = t[p + d]
  <2>1. /\ q + d \in 1..Len(u) /\ o + (q + d) = (o + q) + d
        /\ x + d \in 1..Len(u) /\ o + (x + d) = p + d
    BY <1>1, <1>4, <1>6
  <2>2. u[q + d] = t[o + (q + d)] /\ u[x + d] = t[o + (x + d)]
    BY <2>1, <1>2
  <2> QED
    BY <2>1, <2>2, Zenon
<1>10. ASSUME NEW q \in x + n..Len(u) - n + 1
       PROVE  q \in Matches(u, x, n) <=> o + q \in Matches(t, p, n)
  <2>1. o + q \in p + n..Len(t) - n + 1
    BY <1>1, <1>4, <1>6
  <2>2. (\A d \in 0..n - 1 : u[q + d] = u[x + d])
           <=> \A d \in 0..n - 1 : t[(o + q) + d] = t[p + d]
    BY <1>9, Zenon
  <2> QED
    BY <2>1, <2>2, Zenon DEF Matches
<1> HIDE DEF k
<1>11. k \in Matches(u, x, n)
  BY <1>5, <1>7, <1>10, Zenon
<1>12. Matches(u, x, n) \subseteq x + n..Len(u) - n + 1
  BY Zenon DEF Matches
<1>13. \A q \in Matches(u, x, n) : k <= q
  <2> SUFFICES ASSUME NEW q \in Matches(u, x, n) PROVE k <= q
    BY Zenon
  <2>1. q \in x + n..Len(u) - n + 1
    BY <1>12, Zenon
  <2>2. r - n <= o + q
    BY <2>1, <1>5, <1>10, Zenon
  <2> QED
    BY <2>1, <2>2, <1>1, <1>4, <1>5, <1>7
<1>14. Matches(u, x, n) \subseteq Nat
  BY <1>1, <1>4, <1>12
<1>15. Reader!LeastOrZero(Matches(u, x, n)) = k
  BY <1>11, <1>13, <1>14, LeastOrZeroIs, Zenon
<1>16. Reader!DollarEnd(u, x) = k + n
  BY <1>1, <1>4, <1>7, <1>8, <1>15, DollarEndIs, Zenon
<1>17. Reader!TagEnd(u, x) # 0
  BY <1>7, <1>8, Zenon
<1> QED
  BY <1>7, <1>16, <1>17, Zenon DEF r, p

(* What makes a quote an escape string is within the part. *)
LEMMA PartEscapes ==
    ASSUME NEW t, NEW u, NEW o, Part(t, u, o), NEW x \in 1..Len(u),
           At(t, o) \notin IdentChar
    PROVE  Reader!EscapeString(u, x) <=> Reader!EscapeString(t, o + x)
<1>1. /\ Len(u) \in Nat /\ o \in Nat /\ x \in Nat
      /\ \A y \in 1..Len(u) : o + y \in 1..Len(t) /\ u[y] = t[o + y]
  BY PartIs
<1>2. \A y \in 1..Len(u) : At(u, y) = At(t, o + y)
  BY <1>1, AtIs, Zenon
<1>3. At(u, 0) = ""
  <2>1. 0 \notin 1..Len(u)
    BY <1>1
  <2> QED
    BY <2>1, AtIs, Zenon
<1>4. At(u, 0) \notin IdentChar
  <2>1. "" # "_"
    OBVIOUS
  <2> QED
    BY <1>3, <2>1, NoCharacterAssumption, Zenon DEF IdentChar
<1>5. {"E", "e"} \subseteq IdentChar
  BY CharacterAssumption DEF IdentChar
<1>6. /\ Reader!EscapeString(u, x)
            <=> At(u, x - 1) \in {"E", "e"} /\ At(u, x - 2) \notin IdentChar
      /\ Reader!EscapeString(t, o + x)
            <=> At(t, (o + x) - 1) \in {"E", "e"} /\ At(t, (o + x) - 2) \notin IdentChar
  BY SameText, Zenon DEF Reader!EscapeString
<1>7. CASE x = 1
  <2>1. x - 1 = 0 /\ (o + x) - 1 = o
    BY <1>1, <1>7
  <2>2. At(u, x - 1) \notin IdentChar /\ At(t, (o + x) - 1) \notin IdentChar
    BY <2>1, <1>4, Zenon
  <2> HIDE <1>7
  <2> QED
    BY <2>2, <1>5, <1>6, Zenon
<1>8. CASE x = 2
  <2>1. x - 1 = 1 /\ x - 2 = 0 /\ (o + x) - 1 = o + 1 /\ (o + x) - 2 = o /\ 1 \in 1..Len(u)
    BY <1>1, <1>8
  <2>2. At(u, x - 1) = At(t, (o + x) - 1)
    BY <2>1, <1>2, Zenon
  <2>3. At(u, x - 2) \notin IdentChar /\ At(t, (o + x) - 2) \notin IdentChar
    BY <2>1, <1>4, Zenon
  <2> QED
    BY <2>2, <2>3, <1>6, Zenon
<1>9. CASE x # 1 /\ x # 2
  <2>1. /\ x - 1 \in 1..Len(u) /\ x - 2 \in 1..Len(u)
        /\ (o + x) - 1 = o + (x - 1) /\ (o + x) - 2 = o + (x - 2)
    BY <1>1, <1>9
  <2>2. At(u, x - 1) = At(t, (o + x) - 1) /\ At(u, x - 2) = At(t, (o + x) - 2)
    BY <2>1, <1>2, Zenon
  <2> QED
    BY <2>2, <1>6, Zenon
<1> QED
  BY <1>7, <1>8, <1>9

(***************************************************************************)
(* An element of the file is an element of the part, unless the part ends  *)
(* before it; then it is a line comment, and ends with the part.           *)
(***************************************************************************)

Reaches(t, u, o, x) ==
    /\ Reader!ElementEnd(t, o + x) # 0
    /\ \/ Reader!Kind(t, o + x) = "line comment"
       \/ Reader!ElementEnd(t, o + x) <= o + Len(u) + 1

PartEnd(u, o, e) == IF e <= o + Len(u) + 1 THEN e - o ELSE Len(u) + 1

LEMMA PartKind ==
    ASSUME NEW t, NEW u, NEW o, Part(t, u, o), NEW x \in 1..Len(u), Reaches(t, u, o, x)
    PROVE  Reader!Kind(u, x) = Reader!Kind(t, o + x)
<1> DEFINE p == o + x
           Line(s, q) == Pair(s, q, "-", "-")
           Block(s, q) == Pair(s, q, "/", "*")
           Tag(s, q) == Reader!TagEnd(s, q) # 0
           Ground(s, q) == IF s[q] \in AsciiBlank THEN "blank" ELSE "code"
           Kind(s, q) == Reader!Kind(s, q)
<1>1. /\ t \in Seq(STRING) /\ u \in Seq(STRING) /\ p \in 1..Len(t) /\ u[x] = t[p]
  BY PartIs
<1>2. (Line(u, x) <=> Line(t, p)) /\ (Block(u, x) <=> Block(t, p))
  <2>1. Line(u, x) <=> Line(t, p)
    BY PartPair
  <2>2. Block(u, x) <=> Block(t, p)
    BY PartPair
  <2> QED
    BY <2>1, <2>2, Zenon
<1>3. ASSUME NEW s \in Seq(STRING), NEW q \in 1..Len(s)
      PROVE  /\ s[q] = ";" => Kind(s, q) = "separator"
             /\ Line(s, q) => Kind(s, q) = "line comment"
             /\ Block(s, q) => Kind(s, q) = "block comment"
             /\ s[q] = Quote => Kind(s, q) = "string literal"
             /\ s[q] = DoubleQuoteMark => Kind(s, q) = "quoted identifier"
             /\ s[q] = "$" /\ Tag(s, q) => Kind(s, q) = "dollar quote"
             /\ /\ s[q] \notin {";", Quote, DoubleQuoteMark}
                /\ ~ Line(s, q) /\ ~ Block(s, q)
                /\ s[q] = "$" => ~ Tag(s, q)
                => Kind(s, q) = Ground(s, q)
  BY KindIs
<1>4. t[p] = "$" => (Tag(u, x) <=> Tag(t, p))
  <2> SUFFICES ASSUME t[p] = "$" PROVE Tag(u, x) <=> Tag(t, p)
    OBVIOUS
  <2>1. ~ Tag(t, p) => ~ Tag(u, x)
    BY PartTag
  <2>2. ASSUME Tag(t, p) PROVE Tag(u, x)
    <3>1. Kind(t, p) = "dollar quote"
      BY <1>1, <2>2, KindIs, Zenon
    <3>2. Reader!ElementEnd(t, p) = Reader!DollarEnd(t, p)
      BY <3>1, ElementEndIs, Zenon
    <3>3. Reader!ElementEnd(t, p) # 0 /\ Reader!ElementEnd(t, p) <= o + Len(u) + 1
      <4>1. "dollar quote" # "line comment"
        OBVIOUS
      <4> QED
        BY <3>1, <4>1, Zenon DEF Reaches
    <3>4. Reader!DollarEnd(t, p) # 0 /\ Reader!DollarEnd(t, p) <= o + Len(u) + 1
      BY <3>2, <3>3, Zenon
    <3> QED
      BY <2>2, <3>4, PartDollar
  <2> QED
    BY <2>1, <2>2
<1> HIDE DEF p, Line, Block, Tag, Ground, Kind
<1>5. Ground(u, x) = Ground(t, p)
  BY <1>1, Zenon DEF Ground
<1>6. /\ u[x] = ";" => Kind(u, x) = "separator"
      /\ Line(u, x) => Kind(u, x) = "line comment"
      /\ Block(u, x) => Kind(u, x) = "block comment"
      /\ u[x] = Quote => Kind(u, x) = "string literal"
      /\ u[x] = DoubleQuoteMark => Kind(u, x) = "quoted identifier"
      /\ u[x] = "$" /\ Tag(u, x) => Kind(u, x) = "dollar quote"
      /\ /\ u[x] \notin {";", Quote, DoubleQuoteMark}
         /\ ~ Line(u, x) /\ ~ Block(u, x)
         /\ u[x] = "$" => ~ Tag(u, x)
         => Kind(u, x) = Ground(u, x)
  BY <1>1, <1>3, Zenon
<1>7. /\ t[p] = ";" => Kind(t, p) = "separator"
      /\ Line(t, p) => Kind(t, p) = "line comment"
      /\ Block(t, p) => Kind(t, p) = "block comment"
      /\ t[p] = Quote => Kind(t, p) = "string literal"
      /\ t[p] = DoubleQuoteMark => Kind(t, p) = "quoted identifier"
      /\ t[p] = "$" /\ Tag(t, p) => Kind(t, p) = "dollar quote"
      /\ /\ t[p] \notin {";", Quote, DoubleQuoteMark}
         /\ ~ Line(t, p) /\ ~ Block(t, p)
         /\ t[p] = "$" => ~ Tag(t, p)
         => Kind(t, p) = Ground(t, p)
  BY <1>1, <1>3, Zenon
<1>8. Kind(u, x) = Kind(t, p)
  <2>1. u[x] = t[p]
    BY <1>1
  <2>2. CASE t[p] = ";"
    BY <2>1, <2>2, <1>6, <1>7, Zenon
  <2>3. CASE Line(t, p)
    <3>1. Kind(t, p) = "line comment"
      BY <2>3, <1>7
    <3>2. Line(u, x)
      BY <2>1, <2>3, <1>2, Zenon
    <3>3. Kind(u, x) = "line comment"
      BY <3>2, <1>6
    <3> QED
      BY <3>1, <3>3
  <2>4. CASE Block(t, p)
    <3>1. Kind(t, p) = "block comment"
      BY <2>4, <1>7
    <3>2. Block(u, x)
      BY <2>1, <2>4, <1>2, Zenon
    <3>3. Kind(u, x) = "block comment"
      BY <3>2, <1>6
    <3> QED
      BY <3>1, <3>3
  <2>5. CASE t[p] = Quote
    <3>1. Kind(t, p) = "string literal"
      BY <2>5, <1>7
    <3>2. u[x] = Quote
      BY <2>1, <2>5, <1>2, Zenon
    <3>3. Kind(u, x) = "string literal"
      BY <3>2, <1>6
    <3> QED
      BY <3>1, <3>3
  <2>6. CASE t[p] = DoubleQuoteMark
    <3>1. Kind(t, p) = "quoted identifier"
      BY <2>6, <1>7
    <3>2. u[x] = DoubleQuoteMark
      BY <2>1, <2>6, <1>2, Zenon
    <3>3. Kind(u, x) = "quoted identifier"
      BY <3>2, <1>6
    <3> QED
      BY <3>1, <3>3
  <2>7. CASE t[p] = "$" /\ Tag(t, p)
    BY <2>1, <2>7, <1>4, <1>6, <1>7, Zenon
  <2>8. CASE /\ t[p] \notin {";", Quote, DoubleQuoteMark}
             /\ ~ Line(t, p) /\ ~ Block(t, p)
             /\ t[p] = "$" => ~ Tag(t, p)
    <3>1. Kind(t, p) = Ground(t, p)
      BY <2>8, <1>7, Zenon
    <3>2. /\ u[x] \notin {";", Quote, DoubleQuoteMark}
          /\ ~ Line(u, x) /\ ~ Block(u, x)
          /\ u[x] = "$" => ~ Tag(u, x)
      BY <2>1, <2>8, <1>2, <1>4, Zenon
    <3>3. Kind(u, x) = Ground(u, x)
      BY <3>2, <1>6, Zenon
    <3> QED
      BY <3>1, <3>3, <1>5, Zenon
  <2> QED
    BY <2>2, <2>3, <2>4, <2>5, <2>6, <2>7, <2>8, Zenon
<1> QED
  BY <1>8, Zenon DEF Kind, p

LEMMA PartElement ==
    ASSUME NEW t, NEW u, NEW o, Part(t, u, o), NEW x \in 1..Len(u),
           At(t, o) \notin IdentChar, Reaches(t, u, o, x)
    PROVE  /\ Reader!Kind(u, x) = Reader!Kind(t, o + x)
           /\ Reader!ElementEnd(u, x) = PartEnd(u, o, Reader!ElementEnd(t, o + x))
<1> DEFINE p == o + x
           kind == Reader!Kind(t, p)
           e == Reader!ElementEnd(t, p)
           f == Reader!ElementEnd(u, x)
           Fits(r) == r <= o + Len(u) + 1
<1>1. /\ t \in Seq(STRING) /\ u \in Seq(STRING) /\ p \in 1..Len(t)
      /\ Len(u) \in Nat /\ o \in Nat /\ x \in Nat
  BY PartIs
<1>2. Reader!Kind(u, x) = kind
  BY PartKind
<1>3. kind \in ElementKinds /\ Opens(t, p, kind)
  BY <1>1, KindOpens, Zenon
<1>4. SUFFICES f = PartEnd(u, o, e)
  BY <1>2, <1>4, Zenon
<1>5. e # 0 /\ (kind = "line comment" \/ Fits(e))
  BY Zenon DEF Reaches
<1>6. ASSUME Fits(e), f = e - o PROVE f = PartEnd(u, o, e)
  BY <1>6, Zenon DEF PartEnd
<1> HIDE DEF kind, e, f, Fits
<1>7. CASE kind \in {"separator", "blank", "code"}
  <2>1. e = p + 1 /\ f = x + 1
    <3>1. e = p + 1
      BY <1>7, OtherEndIs DEF kind, e
    <3>2. Reader!Kind(u, x) \in {"separator", "blank", "code"}
      BY <1>2, <1>7, Zenon
    <3>3. f = x + 1
      BY <3>2, OtherEndIs DEF f
    <3> QED
      BY <3>1, <3>3
  <2>2. Fits(e) /\ f = e - o
    BY <2>1, <1>1 DEF Fits
  <2> QED
    BY <2>2, <1>6
<1>8. CASE kind = "line comment"
  <2>1. e = Reader!LineEnd(t, p) /\ f = Reader!LineEnd(u, x)
    BY <1>2, <1>8, ElementEndIs, Zenon DEF kind, e, f
  <2>2. Reader!LineEnd(u, x)
           = IF Reader!LineEnd(t, p) <= o + Len(u) + 1
             THEN Reader!LineEnd(t, p) - o ELSE Len(u) + 1
    BY PartLine, Zenon
  <2> QED
    BY <2>1, <2>2, Zenon DEF PartEnd
<1>9. CASE kind = "block comment"
  <2>1. e = Reader!CommentEnd(t, p) /\ f = Reader!CommentEnd(u, x)
    BY <1>2, <1>9, ElementEndIs, Zenon DEF kind, e, f
  <2>2. Fits(e) /\ Pair(t, p, "/", "*")
    BY <1>3, <1>5, <1>9 DEF Opens
  <2>3. Reader!CommentEnd(t, p) # 0 /\ Reader!CommentEnd(t, p) <= o + Len(u) + 1
    BY <2>1, <2>2, <1>5, Zenon DEF Fits
  <2>4. Reader!CommentEnd(u, x) = Reader!CommentEnd(t, p) - o
    BY <2>2, <2>3, PartComment
  <2> QED
    BY <2>1, <2>2, <2>4, <1>6, Zenon
<1>10. ASSUME NEW b \in BOOLEAN, Fits(e), t[p] \in {Quote, DoubleQuoteMark},
              e = Reader!QuotedEnd(t, p, b), f = Reader!QuotedEnd(u, x, b)
       PROVE  f = PartEnd(u, o, e)
  <2>1. Reader!QuotedEnd(t, p, b) # 0 /\ Reader!QuotedEnd(t, p, b) <= o + Len(u) + 1
    BY <1>5, <1>10, Zenon DEF Fits
  <2>2. Reader!QuotedEnd(u, x, b) = Reader!QuotedEnd(t, p, b) - o
    BY <2>1, <1>10, PartQuoted
  <2> QED
    BY <2>2, <1>6, <1>10, Zenon
<1>11. CASE kind = "string literal"
  <2>1. /\ e = Reader!QuotedEnd(t, p, Reader!EscapeString(t, p))
        /\ f = Reader!QuotedEnd(u, x, Reader!EscapeString(u, x))
    BY <1>2, <1>11, ElementEndIs, Zenon DEF kind, e, f
  <2>2. Reader!EscapeString(u, x) <=> Reader!EscapeString(t, p)
    BY PartEscapes, Zenon
  <2>3. Reader!EscapeString(u, x) \in BOOLEAN /\ Reader!EscapeString(t, p) \in BOOLEAN
    BY Zenon DEF Reader!EscapeString
  <2>4. Reader!EscapeString(u, x) = Reader!EscapeString(t, p)
    BY <2>2, <2>3, SameBoolean
  <2>5. Fits(e) /\ t[p] \in {Quote, DoubleQuoteMark}
    BY <1>3, <1>5, <1>11 DEF Opens
  <2> QED
    BY <2>1, <2>3, <2>4, <2>5, <1>10
<1>12. CASE kind = "quoted identifier"
  <2>1. e = Reader!QuotedEnd(t, p, FALSE) /\ f = Reader!QuotedEnd(u, x, FALSE)
    BY <1>2, <1>12, ElementEndIs, Zenon DEF kind, e, f
  <2>2. Fits(e) /\ t[p] \in {Quote, DoubleQuoteMark}
    BY <1>3, <1>5, <1>12 DEF Opens
  <2> QED
    BY <2>1, <2>2, <1>10
<1>13. CASE kind = "dollar quote"
  <2>1. e = Reader!DollarEnd(t, p) /\ f = Reader!DollarEnd(u, x)
    BY <1>2, <1>13, ElementEndIs, Zenon DEF kind, e, f
  <2>2. Fits(e) /\ Reader!TagEnd(t, p) # 0
    BY <1>3, <1>5, <1>13 DEF Opens
  <2>3. Reader!DollarEnd(t, p) # 0 /\ Reader!DollarEnd(t, p) <= o + Len(u) + 1
    BY <2>1, <2>2, <1>5, Zenon DEF Fits
  <2>4. Reader!DollarEnd(u, x) = Reader!DollarEnd(t, p) - o
    BY <2>2, <2>3, PartDollar
  <2> QED
    BY <2>1, <2>2, <2>4, <1>6, Zenon
<1>14. \/ kind \in {"separator", "blank", "code"} \/ kind = "line comment"
       \/ kind = "block comment" \/ kind = "string literal" \/ kind = "quoted identifier"
       \/ kind = "dollar quote"
  BY <1>3, Zenon DEF ElementKinds
<1> QED
  BY <1>7, <1>8, <1>9, <1>11, <1>12, <1>13, <1>14, Zenon

(***************************************************************************)
(* Elements that follow each other, none of them a separator               *)
(***************************************************************************)

Chain(t, S, e) ==
    /\ S \subseteq 1..e
    /\ \A q \in S : \/ q = e
                    \/ /\ Reader!Kind(t, q) # "separator"
                       /\ Reader!ElementEnd(t, q) \in S
                       /\ q < Reader!ElementEnd(t, q)

Unbroken(t, s, e) == \E S : s \in S /\ Chain(t, S, e)

LEMMA ChainBegins ==
    ASSUME NEW t, NEW e \in Nat, 0 < e
    PROVE  Unbroken(t, e, e)
<1>1. e \in {e} /\ Chain(t, {e}, e)
  BY DEF Chain
<1> QED
  BY <1>1, Zenon DEF Unbroken

LEMMA WithNext ==
    ASSUME NEW e \in Nat, NEW f \in Nat, e < f, NEW S, S \subseteq 1..e
    PROVE  S \cup {f} \subseteq 1..f
  OBVIOUS

LEMMA ChainGrows ==
    ASSUME NEW t, NEW s, NEW e \in Nat, Unbroken(t, s, e),
           Reader!Kind(t, e) # "separator", NEW f \in Nat, f = Reader!ElementEnd(t, e), e < f
    PROVE  Unbroken(t, s, f)
<1>1. PICK S : s \in S /\ Chain(t, S, e)
  BY Zenon DEF Unbroken
<1> DEFINE T == S \cup {f}
<1>2. S \subseteq 1..e
  BY <1>1, Zenon DEF Chain
<1>3. T \subseteq 1..f
  BY <1>2, WithNext, Zenon
<1>4. ASSUME NEW q \in T
      PROVE  \/ q = f
             \/ /\ Reader!Kind(t, q) # "separator"
                /\ Reader!ElementEnd(t, q) \in T
                /\ q < Reader!ElementEnd(t, q)
  <2>1. CASE q = e
    BY <2>1, Zenon
  <2>2. CASE q # f /\ q # e
    <3>1. q \in S
      BY <2>2
    <3> QED
      BY <3>1, <2>2, <1>1, Zenon DEF Chain
  <2> QED
    BY <2>1, <2>2
<1>5. s \in T /\ Chain(t, T, f)
  BY <1>1, <1>3, <1>4, Zenon DEF Chain
<1> QED
  BY <1>5, Zenon DEF Unbroken

(***************************************************************************)
(* A text is uncut if a chain of elements leads through it.                *)
(***************************************************************************)

WholeStep(t, g, p) ==
    \/ p > Len(t)
    \/ /\ Reader!Kind(t, p) # "separator"
       /\ Reader!ElementEnd(t, p) # 0
       /\ g[Reader!ElementEnd(t, p)]

Whole(t) == CHOOSE g : g = [p \in 1..Len(t) + 1 |-> WholeStep(t, g, p)]

LEMMA UncutIs ==
    ASSUME NEW t
    PROVE  Uncut(t) = Whole(t)[1]
  BY Zenon DEF Uncut, Whole, WholeStep

LEMMA UnbrokenStep ==
    ASSUME NEW t \in Seq(STRING), NEW p \in 1..Len(t)
    PROVE  Unbroken(t, p, Len(t) + 1)
              <=> /\ Reader!Kind(t, p) # "separator"
                  /\ Reader!ElementEnd(t, p) # 0
                  /\ Unbroken(t, Reader!ElementEnd(t, p), Len(t) + 1)
<1> DEFINE n == Len(t) + 1
           kind == Reader!Kind(t, p)
           e == Reader!ElementEnd(t, p)
<1>1. n \in Nat /\ p # n /\ p \in 1..n /\ Len(t) \in Nat /\ p \in Nat
  OBVIOUS
<1>2. e # 0 => e \in p + 1..n
  BY ElementRange
<1> HIDE DEF n, kind, e
<1>3. ASSUME Unbroken(t, p, n) PROVE kind # "separator" /\ e # 0 /\ Unbroken(t, e, n)
  <2>1. PICK S : p \in S /\ Chain(t, S, n)
    BY <1>3, Zenon DEF Unbroken
  <2>2. kind # "separator" /\ e \in S /\ p < e
    BY <2>1, <1>1, Zenon DEF Chain, kind, e
  <2>3. e # 0
    BY <2>2, <1>1
  <2> QED
    BY <2>1, <2>2, <2>3, Zenon DEF Unbroken
<1>4. ASSUME kind # "separator", e # 0, Unbroken(t, e, n) PROVE Unbroken(t, p, n)
  <2>1. PICK S : e \in S /\ Chain(t, S, n)
    BY <1>4, Zenon DEF Unbroken
  <2> DEFINE T == S \cup {p}
  <2>2. S \subseteq 1..n /\ p < e
    BY <2>1, <1>1, <1>2, <1>4 DEF Chain
  <2>3. T \subseteq 1..n /\ p \in T
    BY <2>2, <1>1
  <2>4. ASSUME NEW q \in T
        PROVE  \/ q = n
               \/ /\ Reader!Kind(t, q) # "separator"
                  /\ Reader!ElementEnd(t, q) \in T
                  /\ q < Reader!ElementEnd(t, q)
    <3>1. CASE q = p
      BY <3>1, <2>1, <2>2, <1>4, Zenon DEF kind, e
    <3>2. CASE q # p
      <4>1. q \in S
        BY <3>2
      <4> QED
        BY <4>1, <2>1, Zenon DEF Chain
    <3> QED
      BY <3>1, <3>2
  <2>5. Chain(t, T, n)
    BY <2>3, <2>4, Zenon DEF Chain
  <2> QED
    BY <2>3, <2>5, Zenon DEF Unbroken
<1> QED
  BY <1>3, <1>4, Zenon DEF n, kind, e

LEMMA WholeIs ==
    ASSUME NEW t \in Seq(STRING)
    PROVE  \A p \in 1..Len(t) + 1 : Whole(t)[p] <=> WholeStep(t, Whole(t), p)
<1> DEFINE n == Len(t) + 1
           g == [p \in 1..n |-> Unbroken(t, p, n)]
           h == [p \in 1..n |-> WholeStep(t, g, p)]
<1>1. n \in Nat /\ n > 0 /\ Len(t) \in Nat
  OBVIOUS
<1>2. ASSUME NEW p \in 1..n PROVE Unbroken(t, p, n) <=> WholeStep(t, g, p)
  <2>1. CASE p = n
    <3>1. p > Len(t)
      BY <2>1, <1>1
    <3>2. Unbroken(t, p, n)
      BY <2>1, <1>1, ChainBegins, Zenon
    <3> QED
      BY <3>1, <3>2, Zenon DEF WholeStep
  <2>2. CASE p # n
    <3>1. p \in 1..Len(t) /\ ~ p > Len(t)
      BY <2>2, <1>1
    <3> DEFINE e == Reader!ElementEnd(t, p)
    <3>2. e # 0 => e \in 1..n
      <4>1. e # 0 => e \in p + 1..n
        BY <3>1, ElementRange, Zenon
      <4> QED
        BY <4>1, <3>1, <1>1
    <3>3. e # 0 => g[e] = Unbroken(t, e, n)
      BY <3>2, Zenon
    <3>4. Unbroken(t, p, n)
             <=> Reader!Kind(t, p) # "separator" /\ e # 0 /\ Unbroken(t, e, n)
      BY <3>1, UnbrokenStep, Zenon
    <3> HIDE DEF g
    <3> QED
      BY <3>1, <3>3, <3>4, Zenon DEF WholeStep
  <2> QED
    BY <2>1, <2>2
<1>3. \A p \in 1..n : Unbroken(t, p, n) = WholeStep(t, g, p)
  <2> SUFFICES ASSUME NEW p \in 1..n PROVE Unbroken(t, p, n) = WholeStep(t, g, p)
    BY Zenon
  <2>1. Unbroken(t, p, n) \in BOOLEAN
    BY Zenon DEF Unbroken
  <2>2. WholeStep(t, g, p) \in BOOLEAN
    BY Zenon DEF WholeStep
  <2> QED
    BY <2>1, <2>2, <1>2, SameBoolean
<1>4. g = [p \in 1..n |-> WholeStep(t, g, p)]
  BY <1>3, Zenon
<1>5. Whole(t) = [p \in 1..n |-> WholeStep(t, Whole(t), p)]
  BY <1>4, Zenon DEF Whole
<1> QED
  BY <1>5, Zenon

LEMMA ChainIsUncut ==
    ASSUME NEW t \in Seq(STRING), Unbroken(t, 1, Len(t) + 1)
    PROVE  Uncut(t)
<1> DEFINE n == Len(t) + 1
<1>1. n \in Nat /\ Len(t) \in Nat
  OBVIOUS
<1>2. PICK S : 1 \in S /\ Chain(t, S, n)
  BY Zenon DEF Unbroken
<1>3. S \subseteq 1..n
  BY <1>2, Zenon DEF Chain
<1> DEFINE Bad == {q \in S : ~ Whole(t)[q]}
<1>4. Bad = {}
  <2> SUFFICES ASSUME Bad # {} PROVE FALSE
    OBVIOUS
  <2>1. Bad \subseteq 0..n
    <3>1. 1..n \subseteq 0..n
      BY <1>1
    <3> QED
      BY <3>1, <1>3, Zenon
  <2>2. PICK q \in Bad : \A r \in Bad : r <= q
    BY <1>1, <2>1, GreatestExists, Zenon
  <2>3. q \in S /\ q \in 1..n /\ ~ Whole(t)[q]
    BY <2>2, <1>3
  <2>4. ~ WholeStep(t, Whole(t), q)
    BY <2>3, WholeIs, Zenon
  <2>5. q # n
    <3> SUFFICES ASSUME q = n PROVE FALSE
      OBVIOUS
    <3>1. q > Len(t)
      BY <1>1
    <3> QED
      BY <3>1, <2>4, Zenon DEF WholeStep
  <2> DEFINE e == Reader!ElementEnd(t, q)
  <2>6. Reader!Kind(t, q) # "separator" /\ e \in S /\ q < e
    BY <2>3, <2>5, <1>2, Zenon DEF Chain
  <2> HIDE DEF e
  <2>7. e \in 1..n /\ e # 0 /\ ~ e <= q
    BY <2>3, <2>6, <1>3
  <2>8. e \notin Bad
    BY <2>2, <2>7, Zenon
  <2>9. Whole(t)[e]
    BY <2>6, <2>8, Zenon
  <2> QED
    BY <2>4, <2>6, <2>7, <2>9, Zenon DEF WholeStep, e
<1>5. Whole(t)[1]
  BY <1>2, <1>4, Zenon
<1> QED
  BY <1>5, UncutIs, Zenon

(***************************************************************************)
(* The trimmed chunk between two cuts of a file                            *)
(***************************************************************************)

Chunk(t, s, p, z) ==
    /\ t \in Seq(STRING) /\ s \in Nat /\ p \in Nat
    /\ 0 < s /\ s < p /\ p <= Len(t) + 1
    /\ p = Len(t) + 1 \/ t[p] = ";"
    /\ z \in Trimmed(t, s, p - 1)

LEMMA ChunkIs ==
    ASSUME NEW t, NEW s, NEW p, NEW z, Chunk(t, s, p, z)
    PROVE  /\ t \in Seq(STRING) /\ Len(t) \in Nat /\ s \in Nat /\ p \in Nat
           /\ 0 < s /\ s < p /\ p <= Len(t) + 1
           /\ z[1] \in s..p - 1 /\ z[2] \in s..p - 1 /\ z[1] <= z[2]
           /\ \A q \in s..p - 1 : q < z[1] \/ z[2] < q => t[q] \in Blank
<1>1. /\ t \in Seq(STRING) /\ s \in Nat /\ p \in Nat
      /\ 0 < s /\ s < p /\ p <= Len(t) + 1 /\ z \in Trimmed(t, s, p - 1)
  BY Zenon DEF Chunk
<1>2. Len(t) \in Nat /\ p - 1 \in Int
  BY <1>1
<1>3. /\ z[1] \in s..p - 1 /\ z[2] \in s..p - 1 /\ z[1] <= z[2]
      /\ \A q \in s..p - 1 : t[q] \notin Blank => q \in z[1]..z[2]
  BY <1>1, <1>2, TrimmedIs, Zenon
<1>4. \A q \in s..p - 1 : q < z[1] \/ z[2] < q => t[q] \in Blank
  <2> SUFFICES ASSUME NEW q \in s..p - 1, q < z[1] \/ z[2] < q PROVE t[q] \in Blank
    BY Zenon
  <2>1. q \notin z[1]..z[2]
    BY <1>1, <1>3
  <2> QED
    BY <2>1, <1>3, Zenon
<1> QED
  BY <1>1, <1>2, <1>3, <1>4, Zenon

LEMMA PieceIs ==
    ASSUME NEW t \in Seq(STRING), NEW a \in 1..Len(t), NEW b \in 1..Len(t), a <= b
    PROVE  /\ SubSeq(t, a, b) \in Seq(STRING) /\ Len(SubSeq(t, a, b)) = b - a + 1
           /\ \A x \in 1..Len(SubSeq(t, a, b)) : SubSeq(t, a, b)[x] = t[(a - 1) + x]
  OBVIOUS

LEMMA ChunkPart ==
    ASSUME NEW t, NEW s, NEW p, NEW z, Chunk(t, s, p, z)
    PROVE  /\ Part(t, SubSeq(t, z[1], z[2]), z[1] - 1)
           /\ Len(SubSeq(t, z[1], z[2])) = z[2] - z[1] + 1
<1> DEFINE a == z[1]
           b == z[2]
           u == SubSeq(t, a, b)
<1>1. /\ t \in Seq(STRING) /\ Len(t) \in Nat /\ s \in Nat /\ p \in Nat
      /\ 0 < s /\ s < p /\ p <= Len(t) + 1
      /\ a \in s..p - 1 /\ b \in s..p - 1 /\ a <= b
  BY ChunkIs, Zenon
<1>2. \A q \in s..p - 1 : q < a \/ b < q => t[q] \in Blank
  BY ChunkIs, Zenon
<1>3. p = Len(t) + 1 \/ t[p] = ";"
  BY Zenon DEF Chunk
<1> HIDE DEF a, b
<1>4. /\ u \in Seq(STRING) /\ Len(u) = b - a + 1
      /\ \A x \in 1..Len(u) : u[x] = t[(a - 1) + x]
  <2>1. a \in 1..Len(t) /\ b \in 1..Len(t) /\ a <= b
    BY <1>1
  <2> QED
    BY <1>1, <2>1, PieceIs, Zenon DEF u
<1> HIDE DEF u
<1>5. a - 1 \in Nat /\ (a - 1) + Len(u) = b /\ b <= Len(t)
  BY <1>1, <1>4
<1>6. b # Len(t) => t[b + 1] \in Blank \cup {";"}
  <2> SUFFICES ASSUME b # Len(t) PROVE t[b + 1] \in Blank \cup {";"}
    OBVIOUS
  <2>1. CASE b + 1 = p
    <3>1. p # Len(t) + 1
      BY <2>1, <1>1
    <3> QED
      BY <3>1, <2>1, <1>3, Zenon
  <2>2. CASE b + 1 # p
    <3>1. b + 1 \in s..p - 1 /\ b < b + 1
      BY <2>2, <1>1
    <3> QED
      BY <3>1, <1>2
  <2> QED
    BY <2>1, <2>2
<1>7. Part(t, u, a - 1)
  BY <1>1, <1>4, <1>5, <1>6, Zenon DEF Part
<1> QED
  BY <1>4, <1>7, Zenon DEF u, a, b

(* No identifier runs into the statement. *)
LEMMA ChunkApart ==
    ASSUME NEW t, NEW s, NEW p, NEW z, Chunk(t, s, p, z), At(t, s - 1) \notin IdentChar
    PROVE  At(t, z[1] - 1) \notin IdentChar
<1> DEFINE a == z[1]
<1>1. /\ Len(t) \in Nat /\ s \in Nat /\ p \in Nat /\ 0 < s /\ p <= Len(t) + 1 /\ a \in s..p - 1
  BY ChunkIs, Zenon
<1>2. \A q \in s..p - 1 : q < a => t[q] \in Blank
  BY ChunkIs, Zenon
<1> HIDE DEF a
<1>3. CASE a = s
  BY <1>3, Zenon DEF a
<1>4. CASE a # s
  <2>1. a - 1 \in s..p - 1 /\ a - 1 < a /\ a - 1 \in 1..Len(t)
    BY <1>1, <1>4
  <2>2. t[a - 1] \in Blank
    BY <2>1, <1>2
  <2>3. t[a - 1] \notin IdentChar
    BY <2>2, CharacterAssumption DEF IdentChar, Special
  <2> QED
    BY <2>1, <2>3, AtIs, Zenon DEF a
<1> QED
  BY <1>3, <1>4

(* The blanks before the statement are elements of their own. *)
LEMMA ChunkChain ==
    ASSUME NEW t, NEW s, NEW p, NEW z, Chunk(t, s, p, z), NEW S, s \in S, Chain(t, S, p)
    PROVE  z[1] \in S
<1> DEFINE a == z[1]
           Bad == {q \in s..a : q \notin S}
<1>1. /\ t \in Seq(STRING) /\ Len(t) \in Nat /\ s \in Nat /\ p \in Nat
      /\ 0 < s /\ p <= Len(t) + 1 /\ a \in s..p - 1
  BY ChunkIs, Zenon
<1>2. \A q \in s..p - 1 : q < a => t[q] \in Blank
  BY ChunkIs, Zenon
<1> HIDE DEF a
<1>3. Bad = {}
  <2> SUFFICES ASSUME Bad # {} PROVE FALSE
    OBVIOUS
  <2>1. Bad \subseteq Nat
    BY <1>1
  <2>2. PICK q \in Bad : \A r \in Bad : q <= r
    BY <2>1, LeastExists, Zenon
  <2>3. q \in s..a /\ q \notin S /\ q # s
    BY <2>2
  <2> DEFINE r == q - 1
  <2>4. /\ r \in s..a /\ ~ q <= r /\ r + 1 = q
        /\ r \in s..p - 1 /\ r < a /\ r \in 1..Len(t) /\ r # p
    BY <2>3, <1>1
  <2> HIDE DEF r
  <2>5. r \in S
    BY <2>2, <2>4, Zenon
  <2>6. t[r] \in Blank
    BY <2>4, <1>2
  <2>7. Reader!Kind(t, r) \in ElementKinds /\ Opens(t, r, Reader!Kind(t, r))
    BY <1>1, <2>4, KindOpens, Zenon
  <2>8. /\ t[r] \notin {";", Quote, DoubleQuoteMark, "$"}
        /\ ~ Pair(t, r, "-", "-") /\ ~ Pair(t, r, "/", "*")
    <3>1. t[r] \notin {";", "-", "/", "*", "$", Quote, DoubleQuoteMark}
      BY <2>6, MarksNotBlank
    <3>2. r \in Int
      BY <2>4
    <3>3. ~ Pair(t, r, "-", "-")
      BY <3>1, <3>2, <1>1, PairIs
    <3>4. ~ Pair(t, r, "/", "*")
      BY <3>1, <3>2, <1>1, PairIs
    <3> QED
      BY <3>1, <3>3, <3>4
  <2>9. Reader!Kind(t, r) \in {"separator", "blank", "code"}
    BY <2>7, <2>8, Zenon DEF ElementKinds, Opens
  <2>10. Reader!ElementEnd(t, r) = q
    BY <2>4, <2>9, OtherEndIs
  <2>11. q \in S
    BY <2>4, <2>5, <2>10, Zenon DEF Chain
  <2> QED
    BY <2>3, <2>11
<1>4. a \in s..a
  BY <1>1
<1> QED
  BY <1>3, <1>4, Zenon DEF a

LEMMA ChunkIsUncut ==
    ASSUME NEW t, NEW s, NEW p, NEW z, Chunk(t, s, p, z),
           At(t, s - 1) \notin IdentChar, Unbroken(t, s, p)
    PROVE  Uncut(SubSeq(t, z[1], z[2]))
<1> DEFINE a == z[1]
           b == z[2]
           o == a - 1
           u == SubSeq(t, a, b)
           n == Len(u)
<1>1. /\ t \in Seq(STRING) /\ Len(t) \in Nat /\ s \in Nat /\ p \in Nat
      /\ 0 < s /\ s < p /\ p <= Len(t) + 1
      /\ a \in s..p - 1 /\ b \in s..p - 1 /\ a <= b
  BY ChunkIs, Zenon
<1>2. \A q \in s..p - 1 : q < a \/ b < q => t[q] \in Blank
  BY ChunkIs, Zenon
<1>3. Part(t, u, o) /\ n = b - a + 1
  BY ChunkPart, Zenon
<1>4. At(t, o) \notin IdentChar
  BY ChunkApart, Zenon
<1>5. PICK S : s \in S /\ Chain(t, S, p)
  BY Zenon DEF Unbroken
<1>6. a \in S
  BY <1>5, ChunkChain, Zenon
<1>7. S \subseteq 1..p
  BY <1>5, Zenon DEF Chain
<1>8. u \in Seq(STRING)
  BY <1>3, Zenon DEF Part
<1> HIDE DEF u, a, b
<1>9. n \in Nat /\ n > 0 /\ o \in Nat /\ o + n = b /\ o + 1 = a
  BY <1>1, <1>3
<1> HIDE DEF n, o
<1> DEFINE T == {x \in 1..n : o + x \in S} \cup {n + 1}
           f(x) == Reader!ElementEnd(u, x)
<1>10. ASSUME NEW x \in 1..n, o + x \in S
       PROVE  Reader!Kind(u, x) # "separator" /\ f(x) \in T /\ x < f(x)
  <2> DEFINE q == o + x
             e == Reader!ElementEnd(t, q)
             kind == Reader!Kind(t, q)
  <2>1. q # p /\ q \in 1..Len(t) /\ q <= b
    BY <1>1, <1>9
  <2>2. kind # "separator" /\ e \in S /\ q < e
    BY <2>1, <1>5, <1>10, Zenon DEF Chain
  <2> HIDE DEF kind, e
  <2>3. e \in Nat /\ e # 0 /\ e <= p
    BY <2>1, <2>2, <1>7, <1>1
  <2>4. kind = "line comment" \/ e = q + 1 \/ t[e - 1] \notin Blank
    <3>1. Reader!ElementEnd(t, q) # 0
      BY <2>3, Zenon DEF e
    <3> QED
      BY <2>1, <3>1, <1>1, ElementRange, Zenon DEF e, kind
  <2>5. kind = "line comment" \/ e <= o + n + 1
    <3> SUFFICES ASSUME ~ e <= o + n + 1 PROVE kind = "line comment"
      BY Zenon
    <3>1. e - 1 \in s..p - 1 /\ b < e - 1 /\ e # q + 1
      BY <2>1, <2>3, <1>1, <1>9
    <3>2. t[e - 1] \in Blank
      BY <3>1, <1>2
    <3> QED
      BY <3>1, <3>2, <2>4, Zenon
  <2>6. Reaches(t, u, o, x)
    BY <2>3, <2>5, Zenon DEF Reaches, kind, e, n
  <2>7. x \in 1..Len(u)
    BY Zenon DEF n
  <2>8. Reader!Kind(u, x) = kind /\ f(x) = PartEnd(u, o, e)
    <3>1. Part(t, u, o)
      BY <1>3
    <3>2. Reader!Kind(u, x) = Reader!Kind(t, q)
      BY <2>6, <2>7, <3>1, <1>4, PartElement
    <3>3. Reader!ElementEnd(u, x) = PartEnd(u, o, Reader!ElementEnd(t, q))
      BY <2>6, <2>7, <3>1, <1>4, PartElement
    <3> QED
      BY <3>2, <3>3, Zenon DEF kind, e
  <2> HIDE DEF f
  <2>9. f(x) = IF e <= o + n + 1 THEN e - o ELSE n + 1
    BY <2>8, Zenon DEF PartEnd, n
  <2>10. f(x) \in T /\ x < f(x)
    <3>1. CASE e <= b
      <4>1. f(x) = e - o /\ e - o \in 1..n /\ o + (e - o) = e /\ x < e - o
        BY <3>1, <2>1, <2>2, <2>3, <2>9, <1>9
      <4> QED
        BY <4>1, <2>2, Zenon
    <3>2. CASE ~ e <= b
      <4>1. f(x) = n + 1 /\ x < n + 1
        BY <3>2, <2>3, <2>9, <1>1, <1>9
      <4> QED
        BY <4>1, Zenon
    <3> QED
      BY <3>1, <3>2
  <2> QED
    BY <2>2, <2>8, <2>10, Zenon DEF f
<1>11. T \subseteq 1..n + 1 /\ 1 \in T
  BY <1>6, <1>9
<1>12. ASSUME NEW x \in T
       PROVE  \/ x = n + 1
              \/ Reader!Kind(u, x) # "separator" /\ f(x) \in T /\ x < f(x)
  BY <1>10, Zenon
<1>13. Unbroken(u, 1, n + 1)
  <2> HIDE DEF T
  <2> QED
    BY <1>11, <1>12, Zenon DEF Unbroken, Chain
<1>14. Uncut(u)
  BY <1>8, <1>13, ChainIsUncut, Zenon DEF n
<1> QED
  BY <1>14, Zenon DEF u, a, b

(***************************************************************************)
(* Reading a file: what lies between the beginning of the chunk and the    *)
(* next element is unbroken, and no identifier runs into a chunk.          *)
(***************************************************************************)

Cut(t, p, b) ==
    /\ p \in 1..Len(t) + 1
    /\ b # 0 => /\ b \in Nat /\ 0 < b /\ b < p
                /\ Unbroken(t, b, p) /\ At(t, b - 1) \notin IdentChar
    /\ b = 0 /\ p <= Len(t) => At(t, p - 1) \notin IdentChar

LEMMA NoIdent ==
    /\ "" \notin IdentChar
    /\ \A ch : ch \in AsciiBlank \cup Blank \cup {";", "/", Newline} => ch \notin IdentChar
<1>1. "" # "_"
  OBVIOUS
<1>2. "" \notin IdentChar
  BY <1>1, NoCharacterAssumption, Zenon DEF IdentChar
<1>3. \A ch : ch \in AsciiBlank \cup Blank \cup {";", "/", Newline} => ch \notin IdentChar
  BY CharacterAssumption DEF IdentChar, Special
<1> QED
  BY <1>2, <1>3

LEMMA Positions ==
    ASSUME NEW n \in Nat, NEW p \in 1..n
    PROVE  /\ p \in Nat /\ 0 < p /\ p <= p /\ p <= n
           /\ p + 1 \in 1..n + 1 /\ (p + 1) - 1 = p
           /\ \A b \in Nat : b < p => b <= p
           /\ \A e \in p + 1..n + 1 : e \in 1..n + 1 /\ e - 1 \in 1..n
  OBVIOUS

LEMMA LengthIs ==
    ASSUME NEW t \in Seq(STRING)
    PROVE  Len(t) \in Nat
  OBVIOUS

LEMMA CutBegins ==
    ASSUME NEW t \in Seq(STRING)
    PROVE  Cut(t, 1, 0)
<1>1. 1 \in 1..Len(t) + 1 /\ 1 - 1 \notin 1..Len(t)
  OBVIOUS
<1>2. At(t, 1 - 1) \notin IdentChar
  BY <1>1, AtIs, NoIdent, Zenon
<1> QED
  BY <1>1, <1>2, Zenon DEF Cut

LEMMA CutSeparates ==
    ASSUME NEW t \in Seq(STRING), NEW p \in 1..Len(t), t[p] = ";"
    PROVE  Cut(t, p + 1, 0)
<1>1. p + 1 \in 1..Len(t) + 1 /\ (p + 1) - 1 = p
  BY LengthIs, Positions, Zenon
<1>2. At(t, p) \notin IdentChar
  BY AtIs, NoIdent, Zenon
<1> QED
  BY <1>1, <1>2, Zenon DEF Cut

LEMMA CutGrows ==
    ASSUME NEW t \in Seq(STRING), NEW p \in 1..Len(t), NEW b \in Nat, 0 < b, b <= p,
           At(t, b - 1) \notin IdentChar, Unbroken(t, b, p),
           Reader!Kind(t, p) # "separator", Reader!ElementEnd(t, p) # 0
    PROVE  Cut(t, Reader!ElementEnd(t, p), b)
<1> DEFINE e == Reader!ElementEnd(t, p)
<1>1. e \in p + 1..Len(t) + 1
  BY ElementRange, Zenon
<1> HIDE DEF e
<1>2. e \in 1..Len(t) + 1 /\ e \in Nat /\ p < e /\ b < e /\ p \in Nat /\ b # 0
  BY <1>1
<1>3. Unbroken(t, b, e)
  BY <1>2, ChainGrows, Zenon DEF e
<1> QED
  BY <1>2, <1>3, Zenon DEF Cut, e

LEMMA CutSkips ==
    ASSUME NEW t \in Seq(STRING), NEW p \in 1..Len(t), NEW b, Cut(t, p, b),
           Reader!Kind(t, p) \in {"blank", "line comment", "block comment"},
           Reader!ElementEnd(t, p) # 0
    PROVE  Cut(t, Reader!ElementEnd(t, p), b)
<1> DEFINE e == Reader!ElementEnd(t, p)
           kind == Reader!Kind(t, p)
<1>1. CASE b # 0
  <2>1. b \in Nat /\ 0 < b /\ b < p /\ Unbroken(t, b, p) /\ At(t, b - 1) \notin IdentChar
    BY <1>1, Zenon DEF Cut
  <2>2. b <= p
    BY <2>1, LengthIs, Positions, Zenon
  <2>3. kind # "separator"
    OBVIOUS
  <2> QED
    BY <2>1, <2>2, <2>3, CutGrows, Zenon
<1>2. CASE b = 0
  <2>1. e \in p + 1..Len(t) + 1
    BY ElementRange, Zenon
  <2>2. kind \in ElementKinds /\ Opens(t, p, kind)
    BY KindOpens
  <2>3. ASSUME e <= Len(t) PROVE t[e - 1] \in AsciiBlank \cup Blank \cup {";", "/", Newline}
    <3>1. CASE kind = "blank"
      <4>1. e = p + 1
        BY <3>1, OtherEndIs
      <4>2. e - 1 = p
        BY <4>1, LengthIs, Positions, Zenon
      <4>3. t[p] \in AsciiBlank
        BY <2>2, <3>1, Zenon DEF Opens
      <4> QED
        BY <4>2, <4>3, Zenon
    <3>2. CASE kind = "line comment"
      <4>1. e = Reader!LineEnd(t, p)
        BY <3>2, ElementEndIs, Zenon
      <4>2. t[e - 1] = Newline
        BY <4>1, <2>3, LineRange, Zenon
      <4> QED
        BY <4>2, Zenon
    <3>3. CASE kind = "block comment"
      <4>1. e = Reader!CommentEnd(t, p) /\ Pair(t, p, "/", "*")
        BY <3>3, <2>2, ElementEndIs, Zenon DEF Opens
      <4>2. p + 2 \in 1..Len(t) + 1 /\ e = Body(t)[p + 2]
        BY <4>1, CommentRange, Zenon
      <4>3. t[e - 1] = "/"
        BY <4>2, BodyEnds, Zenon
      <4> QED
        BY <4>3, Zenon
    <3> QED
      BY <3>1, <3>2, <3>3
  <2>4. e - 1 \in 1..Len(t) /\ e \in 1..Len(t) + 1
    BY <2>1, LengthIs, Positions, Zenon
  <2>5. At(t, e - 1) = t[e - 1]
    BY <2>4, AtIs, Zenon
  <2>6. e <= Len(t) => At(t, e - 1) \notin IdentChar
    BY <2>3, <2>5, NoIdent, Zenon
  <2> QED
    BY <2>4, <2>6, <1>2, Zenon DEF Cut
<1> QED
  BY <1>1, <1>2

LEMMA CutTakes ==
    ASSUME NEW t \in Seq(STRING), NEW p \in 1..Len(t), NEW b, Cut(t, p, b),
           Reader!Kind(t, p)
              \in {"string literal", "quoted identifier", "dollar quote", "code"},
           Reader!ElementEnd(t, p) # 0
    PROVE  Cut(t, Reader!ElementEnd(t, p), IF b = 0 THEN p ELSE b)
<1>1. Reader!Kind(t, p) # "separator"
  OBVIOUS
<1>2. CASE b # 0
  <2>1. b \in Nat /\ 0 < b /\ b < p /\ Unbroken(t, b, p) /\ At(t, b - 1) \notin IdentChar
    BY <1>2, Zenon DEF Cut
  <2>2. b <= p
    BY <2>1, LengthIs, Positions, Zenon
  <2>3. Cut(t, Reader!ElementEnd(t, p), b)
    BY <2>1, <2>2, <1>1, CutGrows, Zenon
  <2> QED
    BY <2>3, <1>2, Zenon
<1>3. CASE b = 0
  <2>1. p \in Nat /\ 0 < p /\ p <= p /\ p <= Len(t)
    BY LengthIs, Positions, Zenon
  <2>2. Unbroken(t, p, p)
    BY <2>1, ChainBegins, Zenon
  <2>3. At(t, p - 1) \notin IdentChar
    BY <2>1, <1>3, Zenon DEF Cut
  <2>4. Cut(t, Reader!ElementEnd(t, p), p)
    BY <2>1, <2>2, <2>3, <1>1, CutGrows, Zenon
  <2> QED
    BY <2>4, <1>3, Zenon
<1> QED
  BY <1>2, <1>3

(***************************************************************************)
(* The statements of a file                                                *)
(***************************************************************************)

CutInv == Cut(text, ReadPos, ReadBegin)

UncutIn(t, list) == \A k \in DOMAIN list : Uncut(SubSeq(t, list[k][1], list[k][2]))

LEMMA EachIs == EachIsOneStatement <=> UncutIn(text, out)
  BY Zenon DEF EachIsOneStatement, UncutIn

LEMMA AppendUncut ==
    ASSUME NEW t, NEW S, NEW list \in Seq(S), UncutIn(t, list),
           NEW z \in S, Uncut(SubSeq(t, z[1], z[2]))
    PROVE  UncutIn(t, Append(list, z))
<1>1. /\ DOMAIN Append(list, z) = 1..Len(list) + 1 /\ DOMAIN list = 1..Len(list)
      /\ Len(list) \in Nat
      /\ Append(list, z)[Len(list) + 1] = z
      /\ \A k \in 1..Len(list) : Append(list, z)[k] = list[k]
  OBVIOUS
<1>2. ASSUME NEW k \in 1..Len(list) + 1
      PROVE  Uncut(SubSeq(t, Append(list, z)[k][1], Append(list, z)[k][2]))
  <2>1. CASE k = Len(list) + 1
    BY <1>1, <2>1, Zenon
  <2>2. CASE k # Len(list) + 1
    <3>1. k \in 1..Len(list)
      BY <1>1, <2>2
    <3> QED
      BY <3>1, <1>1, Zenon DEF UncutIn
  <2> QED
    BY <2>1, <2>2
<1> QED
  BY <1>1, <1>2, Zenon DEF UncutIn

LEMMA Cuts ==
    ASSUME NEW n \in Nat, NEW p \in 1..n + 1
    PROVE  /\ p \in Nat /\ p <= n + 1 /\ p - 1 \in Int
           /\ \A b \in Nat : 0 < b => b..p - 1 \subseteq 1..n
  OBVIOUS

(* What the reader adds where it cuts. *)
LEMMA FlushUncut ==
    ASSUME TypeOK, CutInv, UncutIn(text, out), NEW p, p = ReadPos,
           p = Len(text) + 1 \/ text[p] = ";", Reader!Flush(p)
    PROVE  UncutIn(text, out')
<1> DEFINE b == ReadBegin
           chunk == Trimmed(text, b, p - 1)
           S == (1..Len(text)) \X (1..Len(text))
<1>1. text \in Seq(STRING) /\ out \in Seq(S)
  BY Zenon DEF TypeOK
<1>2. Cut(text, p, b)
  BY Zenon DEF CutInv
<1>3. \/ UNCHANGED out
      \/ b # 0 /\ \E z \in chunk : out' = Append(out, z)
  BY SameText, Zenon DEF Reader!Flush
<1> HIDE DEF b
<1>4. CASE UNCHANGED out
  BY <1>4, Zenon
<1>5. CASE b # 0 /\ \E z \in chunk : out' = Append(out, z)
  <2>1. PICK z \in chunk : out' = Append(out, z)
    BY <1>5
  <2>2. p \in 1..Len(text) + 1 /\ b \in Nat /\ 0 < b /\ b < p /\ Unbroken(text, b, p)
        /\ At(text, b - 1) \notin IdentChar
    BY <1>2, <1>5, Zenon DEF Cut
  <2>3. p \in Nat /\ p <= Len(text) + 1 /\ p - 1 \in Int /\ Len(text) \in Nat
    BY <1>1, <2>2, LengthIs, Cuts, Zenon
  <2>4. Chunk(text, b, p, z)
    BY <1>1, <2>1, <2>2, <2>3, Zenon DEF Chunk
  <2>5. Uncut(SubSeq(text, z[1], z[2]))
    BY <2>2, <2>4, ChunkIsUncut, Zenon
  <2>6. z \in S
    <3>1. z = <<z[1], z[2]>> /\ z[1] \in b..p - 1 /\ z[2] \in b..p - 1
      BY <2>2, <2>3, TrimmedIs, ZenonT(60)
    <3>2. b..p - 1 \subseteq 1..Len(text)
      BY <2>2, <2>3, Cuts, Zenon
    <3> HIDE DEF chunk
    <3> QED
      BY <3>1, <3>2, Zenon
  <2> HIDE DEF S
  <2>7. UncutIn(text, Append(out, z))
    BY <1>1, <2>5, <2>6, AppendUncut, Zenon
  <2> QED
    BY <2>1, <2>7, Zenon
<1> QED
  BY <1>3, <1>4, <1>5

LEMMA CutInit == Init => CutInv /\ UncutIn(text, out)
<1> SUFFICES ASSUME Init PROVE CutInv /\ UncutIn(text, out)
  OBVIOUS
<1>1. Reader!Init
  BY ReadsInit
<1>2. text \in Seq(STRING) /\ ReadPos = 1 /\ ReadBegin = 0 /\ out = <<>>
  BY <1>1, Zenon DEF Reader!Init
<1>3. CutInv
  BY <1>2, CutBegins, Zenon DEF CutInv
<1>4. DOMAIN out = {}
  BY <1>2
<1>5. UncutIn(text, out)
  BY <1>4, Zenon DEF UncutIn
<1> QED
  BY <1>3, <1>5

LEMMA CutStep ==
    ASSUME TypeOK, CutInv, UncutIn(text, out), [Reader!Next]_readVars
    PROVE  CutInv' /\ UncutIn(text, out)'
<1> DEFINE p == ReadPos
           b == ReadBegin
           kind == Reader!Kind(text, p)
           e == Reader!ElementEnd(text, p)
<1>1. text \in Seq(STRING) /\ Cut(text, p, b)
  BY Zenon DEF TypeOK, CutInv
<1>2. ASSUME Reader!Reading PROVE p \in 1..Len(text)
  <2>1. p \in 1..Len(text) + 1 /\ p <= Len(text)
    BY <1>1, <1>2, Zenon DEF Cut, Reader!Reading
  <2> HIDE DEF p
  <2>2. Len(text) \in Nat
    BY <1>1
  <2> QED
    BY <2>1, <2>2
<1>3. CASE Reader!Separate
  <2>1. /\ Reader!Reading /\ kind = "separator" /\ Reader!Flush(p)
        /\ ReadPos' = p + 1 /\ ReadBegin' = 0 /\ text' = text
    BY <1>3, Zenon DEF Reader!Separate
  <2>2. p \in 1..Len(text)
    BY <1>2, <2>1
  <2>3. text[p] = ";"
    BY <1>1, <2>1, <2>2, KindOpens, Zenon DEF Opens
  <2>4. Cut(text, p + 1, 0)
    BY <1>1, <2>2, <2>3, CutSeparates, Zenon
  <2>5. UncutIn(text, out')
    BY <2>1, <2>3, FlushUncut, Zenon
  <2> QED
    BY <2>1, <2>4, <2>5, Zenon DEF CutInv
<1>4. CASE Reader!Skip
  <2>1. /\ Reader!Reading /\ kind \in {"blank", "line comment", "block comment"} /\ e # 0
        /\ ReadPos' = e /\ UNCHANGED <<text, ReadBegin, out>>
    BY <1>4, Zenon DEF Reader!Skip
  <2>2. Cut(text, e, b)
    BY <1>1, <1>2, <2>1, CutSkips, Zenon
  <2> QED
    BY <2>1, <2>2, Zenon DEF CutInv
<1>5. CASE Reader!Take
  <2>1. /\ Reader!Reading /\ e # 0
        /\ kind \in {"string literal", "quoted identifier", "dollar quote", "code"}
        /\ ReadPos' = e /\ ReadBegin' = IF b = 0 THEN p ELSE b
        /\ UNCHANGED <<text, out>>
    BY <1>5, Zenon DEF Reader!Take
  <2>2. Cut(text, e, IF b = 0 THEN p ELSE b)
    BY <1>1, <1>2, <2>1, CutTakes, Zenon
  <2> QED
    BY <2>1, <2>2, Zenon DEF CutInv
<1>6. CASE Reader!Refuse
  <2>1. out' = <<>> /\ UNCHANGED <<text, ReadPos, ReadBegin>>
    BY <1>6, Zenon DEF Reader!Refuse
  <2>2. DOMAIN out' = {}
    <3>1. DOMAIN <<>> = {}
      OBVIOUS
    <3> QED
      BY <2>1, <3>1, Zenon
  <2> QED
    BY <2>1, <2>2, Zenon DEF CutInv, UncutIn
<1>7. CASE Reader!Accept
  <2>1. p = Len(text) + 1 /\ Reader!Flush(p) /\ UNCHANGED <<text, ReadPos, ReadBegin>>
    BY <1>7, Zenon DEF Reader!Accept
  <2>2. UncutIn(text, out')
    BY <2>1, FlushUncut, Zenon
  <2> QED
    BY <2>1, <2>2, Zenon DEF CutInv
<1>8. CASE UNCHANGED readVars
  BY <1>8, Zenon DEF readVars, CutInv, UncutIn
<1> QED
  BY <1>3, <1>4, <1>5, <1>6, <1>7, <1>8, Zenon DEF Reader!Next

(* A statement is never cut in two, and holds no separator: read as a file *)
(* of its own, it is one statement (split_statements).                     *)
THEOREM StatementsAreWhole == Spec => []EachIsOneStatement
<1>1. Spec => [](TypeOK /\ ChunkInv)
  BY ChunkInit, ChunkStep, SplitterTyped, PTL DEF Spec
<1>2. Spec => ElementInv /\ CutInv /\ UncutIn(text, out)
  BY ReadsInit, CutInit DEF Spec
<1>3. /\ TypeOK /\ ChunkInv /\ ElementInv /\ CutInv /\ UncutIn(text, out) /\ [Next]_vars
      => ElementInv' /\ CutInv' /\ UncutIn(text, out)'
  BY ReadsStep, CutStep
<1>4. UncutIn(text, out) => EachIsOneStatement
  BY EachIs
<1> QED
  BY <1>1, <1>2, <1>3, <1>4, PTL DEF Spec
=============================================================================
