--------------------------- MODULE SplitterProofs ---------------------------
(***************************************************************************)
(* Theorems about split_statements, for any file over any alphabet that    *)
(* keeps the classes of characters apart.                                  *)
(***************************************************************************)
EXTENDS Splitter, SequenceTheorems, WellFoundedInduction, TLAPS

(***************************************************************************)
(* Least and greatest positions                                            *)
(***************************************************************************)

LEMMA LeastExists ==
    ASSUME NEW S, S \subseteq Nat, S # {}
    PROVE  \E q \in S : \A r \in S : q <= r
<1>1. PICK q \in S : \A r \in S : ~ (<<r, q>> \in OpToRel(<, Nat))
  BY NatLessThanWellFounded, WFMin, Zenon
<1>2. \A r \in S : ~ (r < q)
  BY <1>1, Zenon DEF OpToRel
<1> QED
  BY <1>2

LEMMA GreatestExists ==
    ASSUME NEW n \in Nat, NEW S, S \subseteq 0..n, S # {}
    PROVE  \E q \in S : \A r \in S : r <= q
<1> DEFINE M == {n - r : r \in S}
<1>1. M \subseteq Nat /\ M # {}
  <2>1. \A r \in S : n - r \in Nat
    OBVIOUS
  <2> QED
    BY <2>1
<1>2. PICK m \in M : \A k \in M : m <= k
  BY <1>1, LeastExists
<1>3. PICK q \in S : m = n - q
  OBVIOUS
<1>4. \A r \in S : r <= q
  BY <1>2, <1>3
<1> QED
  BY <1>4

LEMMA Wider ==
    ASSUME NEW a \in Int, NEW b \in Int, a <= b, NEW S, S \subseteq 1..a - 1
    PROVE  S \subseteq 1..b - 1
  OBVIOUS

(* A character other than "no character" is within the text. *)
LEMMA AtInside ==
    ASSUME NEW t, NEW p, At(t, p) # ""
    PROVE  p \in 1..Len(t) /\ At(t, p) = t[p]
  BY Zenon DEF At

LEMMA MarksAreCharacters ==
    \A mark \in {"*", "/", "-", "$", ";", "E", "e", Newline, Quote, DoubleQuoteMark, Backslash} : mark # ""
  BY Zenon DEF Newline, Quote, DoubleQuoteMark, Backslash

(***************************************************************************)
(* Tags and chunks                                                         *)
(***************************************************************************)

LEMMA SeqOver ==
    ASSUME NEW S, NEW T, NEW t \in Seq(S), \A k \in 1..Len(t) : t[k] \in T
    PROVE  t \in Seq(T)
<1>1. t \in [1..Len(t) -> S] /\ Len(t) \in Nat
  OBVIOUS
<1>2. t \in [1..Len(t) -> T]
  BY <1>1
<1> QED
  BY <1>1, <1>2, SeqDef

(* A dollar tag ends with the first dollar sign after the one that opens   *)
(* it, and is an identifier.                                               *)
LEMMA DollarTagIs ==
    ASSUME text \in Seq(STRING), NEW p \in Nat, NEW t \in ReadDollarTag(p)
    PROVE  \E q \in p + 1..Len(text) :
              /\ text[q] = "$" /\ \A r \in p + 1..q - 1 : text[r] # "$"
              /\ t = SubSeq(text, p + 1, q - 1)
              /\ Len(t) = q - p - 1
              /\ t \in Seq(IdentChar)
              /\ t = <<>> \/ t[1] \notin Digit
<1> DEFINE ends == {q \in p + 1..Len(text) : text[q] = "$"}
           q == CHOOSE q \in ends : \A r \in ends : q <= r
<1>1. ends # {}
  BY DEF ReadDollarTag
<1>2. ends \subseteq Nat
  OBVIOUS
<1>3. \E x \in ends : \A r \in ends : x <= r
  BY <1>1, <1>2, LeastExists
<1>4. q \in ends /\ \A r \in ends : q <= r
  BY <1>3
<1>5. /\ t = SubSeq(text, p + 1, q - 1)
      /\ IsIdent(t) /\ (t = <<>> \/ t[1] \notin Digit)
  BY <1>1 DEF ReadDollarTag
<1> HIDE DEF q
<1>6. q \in p + 1..Len(text) /\ text[q] = "$"
  BY <1>4
<1>7. \A r \in p + 1..q - 1 : text[r] # "$"
  BY <1>4, <1>6
<1>8. t \in Seq(STRING) /\ Len(t) = q - p - 1
  BY <1>5, <1>6, SubSeqProperties
<1>9. t \in Seq(IdentChar)
  <2>1. \A k \in 1..Len(t) : t[k] \in IdentChar
    <3>1. DOMAIN t = 1..Len(t)
      BY <1>8
    <3> QED
      BY <3>1, <1>5 DEF IsIdent
  <2> QED
    BY <1>8, <2>1, SeqOver
<1> QED
  BY <1>5, <1>6, <1>7, <1>8, <1>9

(* Trimming leaves nothing of blanks only... *)
LEMMA TrimmedEmpty ==
    ASSUME NEW t, NEW lo \in Nat, NEW hi \in Int, Trimmed(t, lo, hi) = {}
    PROVE  \A q \in lo..hi : t[q] \in Blank
<1> SUFFICES ASSUME NEW p \in lo..hi, t[p] \notin Blank PROVE FALSE
  OBVIOUS
<1> DEFINE S == {q \in lo..hi : t[q] \notin Blank}
<1>1. S \subseteq 0..hi /\ S # {} /\ hi \in Nat
  OBVIOUS
<1>2. PICK a \in S : \A r \in S : a <= r
  <2>1. S \subseteq Nat BY <1>1
  <2> QED BY <1>1, <2>1, LeastExists
<1>3. PICK b \in S : \A r \in S : r <= b
  BY <1>1, GreatestExists
<1>4. <<a, b>> \in Trimmed(t, lo, hi)
  BY <1>2, <1>3 DEF Trimmed
<1> QED
  BY <1>4

(* ...and otherwise what lies between the first and the last that is not. *)
LEMMA TrimmedIs ==
    ASSUME NEW t, NEW lo \in Nat, NEW hi \in Int, NEW s \in Trimmed(t, lo, hi)
    PROVE  /\ s = <<s[1], s[2]>>
           /\ s[1] \in lo..hi /\ s[2] \in lo..hi /\ s[1] <= s[2]
           /\ t[s[1]] \notin Blank /\ t[s[2]] \notin Blank
           /\ \A q \in lo..hi : t[q] \notin Blank => q \in s[1]..s[2]
  BY DEF Trimmed

(***************************************************************************)
(* Types                                                                   *)
(***************************************************************************)

(* The fields of a state belong to its variant. *)
Shape(s) ==
    /\ s \in State
    /\ s.depth > 0 <=> s.kind = "BlockComment"
    /\ s.backslash_escapes => s.kind = "SingleQuote"
    /\ s.tag # <<>> => s.kind = "DollarQuote"

(* Where the scanner is in `text`. *)
Scanned ==
    /\ i \in 1..Len(text) + 2
    /\ start \in 0..Len(text)
    /\ from \in 1..Len(text) + 1
    /\ taken \subseteq 1..Len(text) + 1

Produced ==
    /\ out \in Seq((1..Len(text)) \X (1..Len(text)))
    /\ result \in {"none", "ok"} \cup Error

LEMMA TypeParts == TypeOK <=> text \in Seq(STRING) /\ Shape(state) /\ Scanned /\ Produced
  BY DEF TypeOK, Shape, Scanned, Produced

LEMMA VariantFields ==
    ASSUME NEW k, NEW d, NEW b, NEW t
    PROVE  /\ Variant(k, d, b, t).kind = k
           /\ Variant(k, d, b, t).depth = d
           /\ Variant(k, d, b, t).backslash_escapes = b
           /\ Variant(k, d, b, t).tag = t
  BY DEF Variant

LEMMA VariantType ==
    ASSUME NEW k \in Kinds, NEW d \in Nat, NEW b \in BOOLEAN, NEW t \in Seq(IdentChar)
    PROVE  Variant(k, d, b, t) \in State
  BY Zenon DEF Variant, State

LEMMA StateFields ==
    ASSUME NEW s \in State
    PROVE  /\ s = Variant(s.kind, s.depth, s.backslash_escapes, s.tag)
           /\ s.kind \in Kinds /\ s.depth \in Nat /\ s.backslash_escapes \in BOOLEAN
           /\ s.tag \in Seq(IdentChar)
  BY DEF Variant, State

LEMMA VariantShape ==
    ASSUME NEW k \in Kinds, NEW d \in Nat, NEW b \in BOOLEAN, NEW t \in Seq(IdentChar),
           d > 0 <=> k = "BlockComment",
           b => k = "SingleQuote",
           t # <<>> => k = "DollarQuote"
    PROVE  Shape(Variant(k, d, b, t))
<1> DEFINE s == Variant(k, d, b, t)
<1>1. s \in State
  BY VariantType
<1>2. s.kind = k /\ s.depth = d /\ s.backslash_escapes = b /\ s.tag = t
  BY VariantFields
<1> HIDE DEF s
<1>3. s.depth > 0 <=> s.kind = "BlockComment"
  BY <1>2
<1>4. s.backslash_escapes => s.kind = "SingleQuote"
  <2>1. CASE b
    BY <2>1, <1>2
  <2>2. CASE ~ b
    BY <2>2, <1>2
  <2> QED
    BY <2>1, <2>2
<1>5. s.tag # <<>> => s.kind = "DollarQuote"
  BY <1>2, Zenon
<1>6. Shape(s)
  BY <1>1, <1>3, <1>4, <1>5, Zenon DEF Shape
<1> QED
  BY <1>6 DEF s

(* Every variant has its shape. *)
LEMMA Shapes ==
    /\ Shape(Normal) /\ Shape(LineComment) /\ Shape(DoubleQuote)
    /\ \A d \in Nat \ {0} : Shape(BlockComment(d))
    /\ \A b \in BOOLEAN : Shape(SingleQuote(b))
    /\ \A t \in Seq(IdentChar) : Shape(DollarQuote(t))
<1>1. /\ {"Normal", "LineComment", "BlockComment", "SingleQuote", "DoubleQuote", "DollarQuote"}
              = Kinds
      /\ 0 \in Nat /\ ~ (0 > 0) /\ FALSE \in BOOLEAN /\ <<>> \in Seq(IdentChar)
      /\ \A d \in Nat \ {0} : d > 0
  BY DEF Kinds
<1>2. Shape(Normal) /\ Shape(LineComment) /\ Shape(DoubleQuote)
  BY <1>1, VariantShape, Zenon DEF Normal, LineComment, DoubleQuote
<1>3. ASSUME NEW d \in Nat \ {0} PROVE Shape(BlockComment(d))
  BY <1>1, VariantShape, Zenon DEF BlockComment
<1>4. ASSUME NEW b \in BOOLEAN PROVE Shape(SingleQuote(b))
  BY <1>1, VariantShape, Zenon DEF SingleQuote
<1>5. ASSUME NEW t \in Seq(IdentChar) PROVE Shape(DollarQuote(t))
  BY <1>1, VariantShape, Zenon DEF DollarQuote
<1> QED
  BY <1>2, <1>3, <1>4, <1>5

LEMMA TypeInit == Init => TypeOK
<1> SUFFICES ASSUME Init PROVE TypeOK
  OBVIOUS
<1>1. text \in Seq(STRING)
  BY TextsAssumption DEF Init
<1>2. Shape(state)
  BY Shapes DEF Init
<1>3. Scanned /\ Produced
  BY <1>1 DEF Init, Scanned, Produced
<1> QED
  BY <1>1, <1>2, <1>3, TypeParts

(* What push adds is a statement within the file. *)
LEMMA PushType ==
    ASSUME TypeOK, NEW end \in 1..Len(text) + 1, Push(end)
    PROVE  out' \in Seq((1..Len(text)) \X (1..Len(text)))
<1>1. CASE UNCHANGED out
  BY <1>1 DEF TypeOK
<1>2. CASE start # 0 /\ \E s \in Trimmed(text, start, end - 1) : out' = Append(out, s)
  <2>1. PICK s \in Trimmed(text, start, end - 1) : out' = Append(out, s)
    BY <1>2
  <2>2. start \in 1..Len(text) /\ end - 1 \in 0..Len(text)
    BY <1>2 DEF TypeOK
  <2>3. s \in (1..Len(text)) \X (1..Len(text))
    BY <2>1, <2>2 DEF Trimmed
  <2> QED
    BY <2>1, <2>3 DEF TypeOK
<1> QED
  BY <1>1, <1>2 DEF Push

LEMMA TypeStep == TypeOK /\ [Next]_vars => TypeOK'
<1> SUFFICES ASSUME TypeOK, [Next]_vars PROVE TypeOK'
  OBVIOUS
<1>0. text \in Seq(STRING) /\ Shape(state) /\ Scanned /\ Produced /\ Len(text) \in Nat
  BY TypeParts
<1>a. text' = text
  BY DEF Next, vars, Semicolon, OpenComment, OpenQuote, OpenDollarQuote, Plain, InLineComment,
         InBlockComment, InSingleQuote, InDoubleQuote, InDollarQuote, Refuse, Accept
<1>b. ASSUME Shape(state'), Scanned', Produced' PROVE TypeOK'
  BY <1>0, <1>a, <1>b, TypeParts DEF TypeOK, Shape, Scanned, Produced
<1>t. ASSUME NEW n \in Nat, Take(n), i <= Len(text), n > 0,
             i + n <= Len(text) + 2, from' \in 1..Len(text) + 1
      PROVE  Scanned'
  BY <1>0, <1>a, <1>t DEF Take, Scanned
<1>p. ASSUME NEW n \in Nat, Pass(n), i <= Len(text),
             i + n <= Len(text) + 2, from' \in 1..Len(text) + 1
      PROVE  Scanned'
  BY <1>0, <1>a, <1>p DEF Pass, Scanned
<1>o. UNCHANGED <<out, result>> => Produced'
  BY <1>0, <1>a DEF Produced
<1>f. Len(text) \in Nat /\ from \in 1..Len(text) + 1 /\ i \in 1..Len(text) + 2
  BY <1>0 DEF Scanned
<1>1. ASSUME Semicolon PROVE TypeOK'
  <2>1. Produced'
    <3>1. i \in 1..Len(text) + 1
      <4>1. i <= Len(text)
        BY <1>1, Zenon DEF Semicolon, In
      <4> QED
        BY <4>1, <1>f
    <3>2. Push(i)
      BY <1>1, Zenon DEF Semicolon
    <3>3. result' = result
      BY <1>1 DEF Semicolon, Leave
    <3> QED
      BY <3>1, <3>2, <3>3, <1>0, <1>a, PushType DEF Produced
  <2>2. Scanned'
    <3>1. i <= Len(text) /\ i' = i + 1 /\ from' = i + 1 /\ start' = 0 /\ taken' = taken
      BY <1>1, <1>f DEF Semicolon, Leave, In
    <3> QED
      BY <3>1, <1>0, <1>a DEF Scanned
  <2>3. Shape(state')
    BY <1>1, Shapes DEF Semicolon, Leave
  <2> QED
    BY <2>1, <2>2, <2>3, <1>b
<1>2. ASSUME OpenComment PROVE TypeOK'
  <2>1. Shape(state') /\ from' = i
    BY <1>2, Shapes DEF OpenComment, Enter
  <2>2. Pass(2) /\ i <= Len(text) /\ Produced'
    BY <1>2, <1>o DEF OpenComment, In
  <2> QED
    BY <2>1, <2>2, <1>f, <1>p, <1>b
<1>3. ASSUME OpenQuote PROVE TypeOK'
  <2>1. Shape(state') /\ from' = i
    BY <1>3, Shapes DEF OpenQuote, Enter, BackslashEscapes
  <2>2. Take(1) /\ i <= Len(text) /\ Produced'
    BY <1>3, <1>o DEF OpenQuote, In
  <2> QED
    BY <2>1, <2>2, <1>f, <1>t, <1>b
<1>4. ASSUME OpenDollarQuote PROVE TypeOK'
  <2>1. PICK t \in ReadDollarTag(i) :
            /\ Enter(DollarQuote(t))
            /\ Take(Len(t) + 2)
    BY <1>4 DEF OpenDollarQuote
  <2>2. t \in Seq(IdentChar) /\ i + Len(t) + 1 <= Len(text)
    BY <1>0, <1>f, DollarTagIs
  <2>3. Len(t) + 2 \in Nat /\ Len(t) + 2 > 0 /\ i + Len(t) + 2 <= Len(text) + 2
    BY <2>2, <1>0, <1>f
  <2>4. Shape(state') /\ from' = i
    BY <2>1, <2>2, Shapes DEF Enter
  <2>5. i <= Len(text) /\ Produced'
    BY <1>4, <1>o DEF OpenDollarQuote, In
  <2> QED
    BY <2>1, <2>3, <2>4, <2>5, <1>f, <1>t, <1>b
<1>5. ASSUME Plain PROVE TypeOK'
  <2>1. Shape(state') /\ from' = i'
    BY <1>5, Shapes DEF Plain, Leave
  <2>2. (Pass(1) \/ Take(1)) /\ i <= Len(text) /\ Produced'
    BY <1>5, <1>o DEF Plain, In
  <2>3. i' = i + 1
    BY <2>2 DEF Pass, Take
  <2> QED
    BY <2>1, <2>2, <2>3, <1>f, <1>t, <1>p, <1>b
<1>6. ASSUME InLineComment PROVE TypeOK'
  <2>1. Pass(1) /\ i <= Len(text) /\ Produced' /\ (Leave \/ Stay)
    BY <1>6, <1>o DEF InLineComment, In
  <2>2. i' = i + 1
    BY <2>1 DEF Pass
  <2>3. Shape(state') /\ from' \in 1..Len(text) + 1
    <3>1. Shape(state')
      BY <2>1, <1>0, Shapes DEF Leave, Stay
    <3>2. i <= Len(text) /\ (from' = from \/ from' = i + 1)
      BY <2>1, <2>2 DEF Leave, Stay
    <3> QED
      BY <3>1, <3>2, <1>0, <1>f
  <2> QED
    BY <2>1, <2>3, <1>f, <1>p, <1>b
<1>7. ASSUME InBlockComment PROVE TypeOK'
  <2>1. i <= Len(text) /\ Produced' /\ state.kind = "BlockComment"
    BY <1>7, <1>o DEF InBlockComment, In
  <2>2. CASE Sees("*", "/")
    <3>0. ~ Sees("/", "*")
      BY <2>2 DEF Sees, Pair
    <3>1. Pass(2) /\ i' = i + 2
      BY <1>7, <2>2 DEF InBlockComment, Pass
    <3>2. i + 1 <= Len(text)
      BY <2>2, <1>f DEF Sees, Pair, At
    <3>3. Shape(state') /\ from' \in 1..Len(text) + 1
      <4>1. CASE state.depth = 1
        <5>1. state' = Normal /\ from' = i + 2
          <6>1. Leave
            BY <1>7, <2>2, <3>0, <4>1 DEF InBlockComment
          <6> QED
            BY <6>1, <3>1 DEF Leave
        <5> QED
          BY <5>1, <3>2, <1>0, <1>f, Shapes
      <4>2. CASE state.depth # 1
        <5>1. state' = BlockComment(state.depth - 1) /\ from' = from
          BY <1>7, <2>2, <3>0, <4>2 DEF InBlockComment
        <5> QED
          <6>1. state.depth - 1 \in Nat \ {0}
            BY <2>1, <4>2, <1>0, StateFields DEF Shape
          <6> QED
            BY <5>1, <6>1, <1>f, Shapes
      <4> QED
        BY <4>1, <4>2
    <3> QED
      BY <2>1, <3>1, <3>3, <1>f, <1>p, <1>b
  <2>3. CASE ~ Sees("*", "/") /\ Sees("/", "*")
    <3>1. Pass(2) /\ from' = from /\ Shape(state')
      <4>1. Pass(2) /\ from' = from /\ state' = BlockComment(state.depth + 1)
        BY <1>7, <2>3 DEF InBlockComment
      <4>2. state.depth + 1 \in Nat \ {0}
        BY <1>0, StateFields DEF Shape
      <4> QED
        BY <4>1, <4>2, Shapes
    <3> QED
      BY <2>1, <3>1, <1>f, <1>p, <1>b
  <2>4. CASE ~ Sees("*", "/") /\ ~ Sees("/", "*")
    <3>1. Pass(1) /\ from' = from /\ Shape(state')
      BY <1>7, <2>4, <1>0 DEF InBlockComment, Stay
    <3> QED
      BY <2>1, <3>1, <1>f, <1>p, <1>b
  <2> QED
    BY <2>2, <2>3, <2>4
<1>q. ASSUME NEW mark \in {Quote, DoubleQuoteMark}, InQuotes(mark), i <= Len(text), Produced'
      PROVE  TypeOK'
  <2>1. CASE Sees(mark, mark)
    <3>1. Take(2) /\ from' = from /\ Shape(state')
      BY <1>q, <2>1, <1>0 DEF InQuotes, Stay
    <3> QED
      BY <1>q, <3>1, <1>f, <1>t, <1>b
  <2>2. CASE ~ Sees(mark, mark)
    <3>1. Take(1) /\ i' = i + 1 /\ (Leave \/ Stay)
      BY <1>q, <2>2 DEF InQuotes, Take
    <3>2. Shape(state') /\ from' \in 1..Len(text) + 1
      <4>1. Shape(state')
        BY <3>1, <1>0, Shapes DEF Leave, Stay
      <4>2. i <= Len(text) /\ (from' = from \/ from' = i + 1)
        BY <1>q, <3>1 DEF Leave, Stay
      <4> QED
        BY <4>1, <4>2, <1>0, <1>f
    <3> QED
      BY <1>q, <3>1, <3>2, <1>f, <1>t, <1>b
  <2> QED
    BY <2>1, <2>2
<1>8. ASSUME InSingleQuote PROVE TypeOK'
  <2>1. i <= Len(text) /\ Produced'
    BY <1>8, <1>o DEF InSingleQuote, In
  <2>2. CASE Take(2) /\ Stay
    <3>1. Shape(state') /\ from' = from
      BY <2>2, <1>0 DEF Stay
    <3> QED
      BY <2>1, <2>2, <3>1, <1>f, <1>t, <1>b
  <2>3. CASE InQuotes(Quote)
    BY <2>1, <2>3, <1>q
  <2> QED
    BY <1>8, <2>2, <2>3 DEF InSingleQuote
<1>9. ASSUME InDoubleQuote PROVE TypeOK'
  BY <1>9, <1>o, <1>q DEF InDoubleQuote, In
<1>10. ASSUME InDollarQuote PROVE TypeOK'
  <2> DEFINE closer == <<"$">> \o state.tag \o <<"$">>
  <2>0. i <= Len(text) /\ Produced'
    BY <1>10, <1>o DEF InDollarQuote, In
  <2>1. Len(closer) \in Nat /\ Len(closer) > 0 /\ closer[Len(closer)] = "$" /\ DOMAIN closer = 1..Len(closer)
    <3>1. state.tag \in Seq(IdentChar)
      BY <1>0 DEF Shape, State
    <3> QED
      BY <3>1
  <2>a. IF \A k \in DOMAIN closer : At(text, i + k - 1) = closer[k]
           THEN Take(Len(closer)) /\ Leave
           ELSE Take(1) /\ Stay
    BY <1>10 DEF InDollarQuote
  <2> HIDE DEF closer
  <2>2. CASE \A k \in DOMAIN closer : At(text, i + k - 1) = closer[k]
    <3>1. At(text, i + Len(closer) - 1) = "$"
      BY <2>1, <2>2
    <3>2. i + Len(closer) - 1 <= Len(text)
      BY <3>1, <2>1, <1>f DEF At
    <3>3. Take(Len(closer)) /\ Leave /\ i' = i + Len(closer)
      BY <2>a, <2>2 DEF Take
    <3>4. Shape(state') /\ from' \in 1..Len(text) + 1
      <4>1. Shape(state') /\ from' = i + Len(closer)
        BY <3>3, Shapes DEF Leave
      <4> QED
        BY <4>1, <2>1, <3>2, <1>0, <1>f
    <3> QED
      BY <2>0, <2>1, <3>2, <3>3, <3>4, <1>0, <1>f, <1>t, <1>b
  <2>3. CASE ~ \A k \in DOMAIN closer : At(text, i + k - 1) = closer[k]
    <3>1. Take(1) /\ from' = from /\ Shape(state')
      BY <2>a, <2>3, <1>0 DEF Stay
    <3> QED
      BY <2>0, <3>1, <1>f, <1>t, <1>b
  <2> QED
    BY <2>2, <2>3
<1>11. ASSUME Refuse PROVE TypeOK'
  <2>1. state.kind \in Kinds
    BY <1>0 DEF Shape, State
  <2>2. result' \in Error /\ out' = <<>>
    BY <1>11, <2>1 DEF Refuse, Unterminated, Error, Kinds
  <2>3. Shape(state') /\ Scanned'
    BY <1>11, <1>0, <1>a DEF Refuse, Scanned
  <2>4. Produced'
    BY <2>2 DEF Produced
  <2> QED
    BY <2>3, <2>4, <1>b
<1>12. ASSUME Accept PROVE TypeOK'
  <2>1. Produced'
    BY <1>0, <1>12, <1>a, PushType DEF Accept, Produced
  <2>2. Shape(state') /\ Scanned'
    BY <1>12, <1>0, <1>a DEF Accept, Scanned
  <2> QED
    BY <2>1, <2>2, <1>b
<1>13. ASSUME UNCHANGED vars PROVE TypeOK'
  BY <1>13 DEF vars, TypeOK
<1> QED
  BY <1>1, <1>2, <1>3, <1>4, <1>5, <1>6, <1>7, <1>8, <1>9, <1>10, <1>11, <1>12, <1>13
     DEF Next

(* The scanner never runs more than one character past the end of a file,  *)
(* its state is one of the variants, and every statement lies within the   *)
(* file.                                                                   *)
THEOREM SplitterTyped == Spec => []TypeOK
  BY TypeInit, TypeStep, PTL DEF Spec

(***************************************************************************)
(* Nothing is lost                                                         *)
(*                                                                         *)
(* What was scanned as SQL is in a statement already, or blank, or at or   *)
(* after the start of the chunk, all of which lies after the statements.   *)
(***************************************************************************)

BeginsWithSql(k) ==
    \E p \in taken : p <= out[k][1] /\ \A q \in p..out[k][1] - 1 : text[q] \in Blank

InStatement(p) == \E k \in DOMAIN out : p \in out[k][1]..out[k][2]

Open == result = "none" /\ start # 0

(* The scan has passed the statements, and they end before the open chunk. *)
Behind(k) == out[k][2] < i /\ (Open => out[k][2] < start)

Accounted(p) == (Open /\ start <= p) \/ text[p] \in Blank \/ InStatement(p)

ChunkInv ==
    /\ StatementsApart
    /\ state.kind # "SingleQuote" => i <= Len(text) + 1
    /\ taken \subseteq 1..i - 1
    /\ start # 0 => start \in taken
    /\ \A k \in DOMAIN out : Behind(k) /\ BeginsWithSql(k)
    /\ result \notin Error => \A p \in taken : Accounted(p)

LEMMA OutIs ==
    ASSUME TypeOK
    PROVE  /\ Len(out) \in Nat /\ DOMAIN out = 1..Len(out)
           /\ \A k \in DOMAIN out : out[k][1] \in 1..Len(text) /\ out[k][2] \in 1..Len(text)
  BY DEF TypeOK

LEMMA ChunkInit == Init => ChunkInv
<1> SUFFICES ASSUME Init PROVE ChunkInv
  OBVIOUS
<1>1. Len(text) \in Nat /\ i = 1 /\ start = 0 /\ taken = {} /\ DOMAIN out = {}
  BY TextsAssumption DEF Init
<1> QED
  BY <1>1 DEF ChunkInv, StatementsApart

(* A step that only moves on. *)
LEMMA PassKeeps ==
    ASSUME TypeOK, ChunkInv, result = "none",
           UNCHANGED <<text, out, result, start, taken>>,
           i' \in Nat, i <= i',
           state'.kind # "SingleQuote" => i' <= Len(text) + 1
    PROVE  ChunkInv'
<1>1. StatementsApart'
  BY DEF ChunkInv, StatementsApart
<1>b. \A k \in DOMAIN out : BeginsWithSql(k)'
  BY DEF ChunkInv, BeginsWithSql
<1>2. taken' \subseteq 1..i' - 1
  <2>1. taken' = taken /\ taken \subseteq 1..i - 1 /\ i \in Nat
    BY DEF ChunkInv, TypeOK
  <2>2. i \in Int /\ i' \in Int
    BY <2>1
  <2> QED
    BY <2>1, <2>2, Wider, Zenon
<1>3. \A k \in DOMAIN out : Behind(k)'
  BY OutIs DEF ChunkInv, Behind, Open, TypeOK
<1>4. \A p \in taken : Accounted(p)'
  BY DEF ChunkInv, Accounted, Open, InStatement, Error
<1> QED
  BY <1>1, <1>b, <1>2, <1>3, <1>4 DEF ChunkInv

(* A step that takes what it passes for SQL. *)
LEMMA TakeKeeps ==
    ASSUME TypeOK, ChunkInv, result = "none",
           NEW n \in Nat, n > 0, Take(n),
           UNCHANGED <<text, out, result>>,
           state'.kind # "SingleQuote" => i' <= Len(text) + 1
    PROVE  ChunkInv'
<1>0. /\ i \in Nat /\ i > 0 /\ i' = i + n /\ start \in Nat
      /\ taken' = taken \cup (i..i + n - 1)
      /\ start' = IF start = 0 THEN i ELSE start
  BY DEF Take, TypeOK
<1>1. StatementsApart'
  BY DEF ChunkInv, StatementsApart
<1>2. taken' \subseteq 1..i' - 1 /\ start' \in taken'
  BY <1>0 DEF ChunkInv, TypeOK
<1>3. \A k \in DOMAIN out : Behind(k)'
  BY <1>0, OutIs DEF ChunkInv, Behind, Open
<1>4. ASSUME NEW p \in taken' PROVE Accounted(p)'
  <2>1. CASE p \in taken
    <3>1. Accounted(p)
      BY <2>1 DEF ChunkInv, Error
    <3> QED
      BY <3>1, <1>0 DEF Accounted, Open, InStatement
  <2>2. CASE p \in i..i + n - 1
    <3>1. start' <= p /\ start' # 0
      <4>1. start # 0 => start < i
        BY <1>0 DEF ChunkInv
      <4> QED
        BY <4>1, <2>2, <1>0
    <3> QED
      BY <3>1, <1>0 DEF Accounted, Open
  <2> QED
    BY <2>1, <2>2, <1>0
<1>5. \A k \in DOMAIN out : BeginsWithSql(k)'
  <2> SUFFICES ASSUME NEW k \in DOMAIN out PROVE BeginsWithSql(k)'
    OBVIOUS
  <2>1. PICK p \in taken : p <= out[k][1] /\ \A q \in p..out[k][1] - 1 : text[q] \in Blank
    BY DEF ChunkInv, BeginsWithSql
  <2> QED
    BY <2>1, <1>0 DEF BeginsWithSql
<1> QED
  BY <1>0, <1>1, <1>2, <1>3, <1>4, <1>5 DEF ChunkInv

LEMMA AppendIs ==
    ASSUME NEW S, NEW q \in Seq(S), NEW s, NEW p, p = Append(q, s), NEW n, n = Len(q) + 1
    PROVE  /\ DOMAIN p = 1..n /\ p[n] = s /\ n \in DOMAIN p /\ n \notin DOMAIN q
           /\ \A k \in DOMAIN q : k \in DOMAIN p /\ p[k] = q[k] /\ k < n
           /\ \A k \in DOMAIN p : k = n \/ k \in DOMAIN q
  OBVIOUS

(* A step that ends the chunk, and all that was taken lies before. *)
LEMMA PushKeeps ==
    ASSUME TypeOK, ChunkInv, result = "none",
           Push(i), i <= Len(text) + 1,
           UNCHANGED <<text, taken>>,
           i' \in Nat, i <= i', i' <= Len(text) + 1,
           start' = 0 \/ (start' = start /\ result' = "ok"),
           result' \in {"none", "ok"}
    PROVE  ChunkInv'
<1>0. /\ Len(text) \in Nat /\ i \in Nat /\ start \in Nat /\ ~ Open'
      /\ start # 0 => start < i /\ start \in taken
      /\ taken \subseteq 1..i - 1
  BY DEF ChunkInv, TypeOK, Open
<1>1. taken' \subseteq 1..i' - 1 /\ (start' # 0 => start' \in taken')
  <2>1. taken' = taken
    OBVIOUS
  <2>2. i \in Int /\ i' \in Int
    BY <1>0
  <2>3. taken' \subseteq 1..i' - 1
    BY <2>1, <2>2, <1>0, Wider, Zenon
  <2> QED
    BY <2>1, <2>3, <1>0
<1>2. CASE UNCHANGED out /\ (start = 0 \/ Trimmed(text, start, i - 1) = {})
  <2>1. StatementsApart' /\ (\A k \in DOMAIN out : BeginsWithSql(k)')
    BY <1>2 DEF ChunkInv, StatementsApart, BeginsWithSql
  <2>2. \A k \in DOMAIN out : Behind(k)'
    BY <1>2, <1>0, OutIs DEF ChunkInv, Behind
  <2>3. ASSUME NEW p \in taken PROVE Accounted(p)'
    <3>1. Accounted(p)
      BY DEF ChunkInv, Error
    <3>2. CASE Open /\ start <= p
      <4>1. start \in Nat /\ i - 1 \in Int /\ Trimmed(text, start, i - 1) = {} /\ p \in start..i - 1
        BY <1>2, <1>0, <3>2 DEF Open
      <4>2. text[p] \in Blank
        BY <4>1, TrimmedEmpty
      <4> QED
        BY <4>2 DEF Accounted
    <3>3. CASE ~ (Open /\ start <= p)
      BY <3>1, <3>3, <1>2 DEF Accounted, InStatement
    <3> QED
      BY <3>2, <3>3
  <2> QED
    BY <1>0, <1>1, <1>2, <2>1, <2>2, <2>3 DEF ChunkInv
<1>3. CASE start # 0 /\ \E s \in Trimmed(text, start, i - 1) : out' = Append(out, s)
  <2>1. PICK s \in Trimmed(text, start, i - 1) : out' = Append(out, s)
    BY <1>3
  <2>2. /\ s[1] \in start..i - 1 /\ s[2] \in start..i - 1 /\ s[1] <= s[2]
        /\ text[s[1]] \notin Blank /\ text[s[2]] \notin Blank
        /\ \A q \in start..i - 1 : text[q] \notin Blank => q \in s[1]..s[2]
    <3>1. i - 1 \in Int /\ start \in Nat
      BY <1>0
    <3> QED
      BY <3>1, TrimmedIs
  <2> DEFINE n == Len(out) + 1
  <2>3. /\ DOMAIN out' = 1..n /\ out'[n] = s /\ n \in DOMAIN out' /\ n \notin DOMAIN out
        /\ \A k \in DOMAIN out : k \in DOMAIN out' /\ out'[k] = out[k] /\ k < n
        /\ \A k \in DOMAIN out' : k = n \/ k \in DOMAIN out
    <3>1. out \in Seq((1..Len(text)) \X (1..Len(text)))
      BY DEF TypeOK
    <3>2. \A p, m : p = Append(out, s) /\ m = Len(out) + 1 =>
              /\ DOMAIN p = 1..m /\ p[m] = s /\ m \in DOMAIN p /\ m \notin DOMAIN out
              /\ \A k \in DOMAIN out : k \in DOMAIN p /\ p[k] = out[k] /\ k < m
              /\ \A k \in DOMAIN p : k = m \/ k \in DOMAIN out
      BY <3>1, AppendIs
    <3> QED
      BY <2>1, <3>2, Zenon
  <2>4. \A k \in DOMAIN out : out[k][1] \in Nat /\ out[k][2] \in Nat /\ out[k][2] < start /\ out[k][2] < i
    BY <1>3, OutIs DEF ChunkInv, Behind, Open
  <2> HIDE DEF n
  <2>5. StatementsApart'
    <3>1. ASSUME NEW k \in DOMAIN out'
          PROVE  /\ out'[k][1] <= out'[k][2]
                 /\ text[out'[k][1]] \notin Blank /\ text[out'[k][2]] \notin Blank
      BY <2>2, <2>3 DEF ChunkInv, StatementsApart
    <3>2. ASSUME NEW k \in DOMAIN out', NEW l \in DOMAIN out', k < l
          PROVE  out'[k][2] < out'[l][1]
      <4>1. CASE l \in DOMAIN out
        <5>1. k \in DOMAIN out
          BY <3>2, <4>1, <2>3, OutIs
        <5> QED
          BY <3>2, <4>1, <5>1, <2>3 DEF ChunkInv, StatementsApart
      <4>2. CASE l = n
        <5>1. k \in DOMAIN out
          BY <3>2, <4>2, <2>3, OutIs
        <5> QED
          BY <4>2, <5>1, <2>2, <2>3, <2>4, <1>0
      <4> QED
        BY <4>1, <4>2, <2>3
    <3> QED
      BY <3>1, <3>2 DEF StatementsApart
  <2>6. ASSUME NEW k \in DOMAIN out' PROVE Behind(k)'
    <3>1. out'[k][2] \in Nat /\ out'[k][2] < i
      BY <2>2, <2>3, <2>4, <1>0
    <3> QED
      BY <3>1, <1>0 DEF Behind
  <2>7. ASSUME NEW k \in DOMAIN out' PROVE BeginsWithSql(k)'
    <3>1. CASE k \in DOMAIN out
      <4>1. BeginsWithSql(k)
        BY <3>1 DEF ChunkInv
      <4> QED
        BY <3>1, <4>1, <2>3 DEF BeginsWithSql
    <3>2. CASE k = n
      <4>1. start \in taken /\ start <= s[1]
        BY <1>0, <1>3, <2>2
      <4>2. \A q \in start..s[1] - 1 : text[q] \in Blank
        BY <2>2, <1>0
      <4> QED
        BY <3>2, <4>1, <4>2, <2>3 DEF BeginsWithSql
    <3> QED
      BY <3>1, <3>2, <2>3
  <2>8. ASSUME NEW p \in taken PROVE Accounted(p)'
    <3>1. Accounted(p)
      BY DEF ChunkInv, Error
    <3>2. CASE Open /\ start <= p
      <4>1. p \in start..i - 1
        BY <1>0, <3>2
      <4>2. text[p] \in Blank \/ p \in s[1]..s[2]
        BY <4>1, <2>2
      <4> QED
        BY <4>2, <2>3 DEF Accounted, InStatement
    <3>3. CASE ~ (Open /\ start <= p)
      BY <3>1, <3>3, <2>3 DEF Accounted, InStatement
    <3> QED
      BY <3>2, <3>3
  <2> QED
    BY <1>0, <1>1, <2>5, <2>6, <2>7, <2>8 DEF ChunkInv
<1> QED
  BY <1>2, <1>3 DEF Push

LEMMA ChunkStep == TypeOK /\ ChunkInv /\ [Next]_vars => ChunkInv'
<1> SUFFICES ASSUME TypeOK, ChunkInv, [Next]_vars PROVE ChunkInv'
  OBVIOUS
<1>0. /\ Len(text) \in Nat /\ i \in 1..Len(text) + 2
      /\ state.kind # "SingleQuote" => i <= Len(text) + 1
  BY DEF TypeOK, ChunkInv
<1>k. /\ Normal.kind = "Normal" /\ LineComment.kind = "LineComment"
      /\ DoubleQuote.kind = "DoubleQuote"
      /\ \A d : BlockComment(d).kind = "BlockComment"
      /\ \A t : DollarQuote(t).kind = "DollarQuote"
  BY DEF Normal, LineComment, DoubleQuote, BlockComment, DollarQuote, Variant
<1>p. ASSUME NEW n \in Nat, Pass(n), result = "none", UNCHANGED <<text, out, result>>,
             i + n <= Len(text) + 1
      PROVE  ChunkInv'
  <2>1. i' = i + n /\ start' = start /\ taken' = taken
    BY <1>p DEF Pass
  <2> QED
    BY <2>1, <1>0, <1>p, PassKeeps
<1>t. ASSUME NEW n \in Nat, Take(n), n > 0, result = "none", UNCHANGED <<text, out, result>>,
             state'.kind = "SingleQuote" \/ i + n <= Len(text) + 1
      PROVE  ChunkInv'
  <2>1. i' = i + n
    BY <1>t DEF Take
  <2> QED
    BY <2>1, <1>0, <1>t, TakeKeeps
<1>1. ASSUME Semicolon PROVE ChunkInv'
  <2>1. /\ result = "none" /\ i <= Len(text) /\ i' = i + 1 /\ start' = 0 /\ taken' = taken
        /\ text' = text /\ result' = result
    BY <1>1, <1>0 DEF Semicolon, In, Leave
  <2>2. Push(i)
    BY <1>1, Zenon DEF Semicolon
  <2>3. i' \in Nat /\ i <= i' /\ i' <= Len(text) + 1 /\ i <= Len(text) + 1
    BY <2>1, <1>0
  <2> QED
    BY <2>1, <2>2, <2>3, PushKeeps
<1>2. ASSUME OpenComment PROVE ChunkInv'
  <2>1. i + 1 <= Len(text)
    BY <1>2, <1>0 DEF OpenComment, Sees, Pair, At
  <2>2. Pass(2) /\ result = "none" /\ UNCHANGED <<text, out, result>>
    BY <1>2 DEF OpenComment, In
  <2>3. i + 2 <= Len(text) + 1
    BY <2>1, <1>0
  <2> QED
    BY <2>2, <2>3, <1>p
<1>3. ASSUME OpenQuote PROVE ChunkInv'
  <2>1. Take(1) /\ result = "none" /\ UNCHANGED <<text, out, result>> /\ i + 1 <= Len(text) + 1
    BY <1>3, <1>0 DEF OpenQuote, In
  <2> QED
    BY <2>1, <1>t
<1>4. ASSUME OpenDollarQuote PROVE ChunkInv'
  <2>1. PICK t \in ReadDollarTag(i) : Take(Len(t) + 2)
    BY <1>4 DEF OpenDollarQuote
  <2>2. t \in Seq(IdentChar) /\ i + Len(t) + 1 <= Len(text)
    BY <1>0, DollarTagIs DEF TypeOK
  <2>3. Len(t) + 2 \in Nat /\ Len(t) + 2 > 0 /\ i + (Len(t) + 2) <= Len(text) + 1
    BY <2>2, <1>0
  <2>4. result = "none" /\ UNCHANGED <<text, out, result>>
    BY <1>4 DEF OpenDollarQuote, In
  <2> QED
    BY <2>1, <2>3, <2>4, <1>t
<1>5. ASSUME Plain PROVE ChunkInv'
  <2>1. /\ Pass(1) \/ Take(1)
        /\ result = "none" /\ UNCHANGED <<text, out, result>> /\ i <= Len(text)
    BY <1>5 DEF Plain, In
  <2>2. i + 1 <= Len(text) + 1
    BY <2>1, <1>0
  <2> QED
    BY <2>1, <2>2, <1>p, <1>t
<1>6. ASSUME InLineComment PROVE ChunkInv'
  <2>1. Pass(1) /\ result = "none" /\ UNCHANGED <<text, out, result>> /\ i + 1 <= Len(text) + 1
    BY <1>6, <1>0 DEF InLineComment, In
  <2> QED
    BY <2>1, <1>p
<1>7. ASSUME InBlockComment PROVE ChunkInv'
  <2>1. result = "none" /\ UNCHANGED <<text, out, result>> /\ i + 1 <= Len(text) + 1
    BY <1>7, <1>0 DEF InBlockComment, In
  <2>2. CASE Sees("*", "/") \/ Sees("/", "*")
    <3>1. Pass(2)
      BY <1>7, <2>2 DEF InBlockComment
    <3>2. i + 1 <= Len(text)
      BY <2>2, <1>0 DEF Sees, Pair, At
    <3>3. i + 2 <= Len(text) + 1
      BY <3>2, <1>0
    <3> QED
      BY <2>1, <3>1, <3>3, <1>p
  <2>3. CASE ~ (Sees("*", "/") \/ Sees("/", "*"))
    <3>1. Pass(1)
      BY <1>7, <2>3 DEF InBlockComment
    <3> QED
      BY <2>1, <3>1, <1>p
  <2> QED
    BY <2>2, <2>3
<1>q. ASSUME NEW mark \in {Quote, DoubleQuoteMark}, InQuotes(mark), i <= Len(text),
             result = "none", UNCHANGED <<text, out, result>>
      PROVE  ChunkInv'
  <2>1. CASE Sees(mark, mark)
    <3>1. Take(2)
      BY <1>q, <2>1 DEF InQuotes
    <3>2. i + 1 <= Len(text)
      <4>1. At(text, i + 1) # ""
        BY <2>1, <1>q, MarksAreCharacters, Zenon DEF Sees, Pair
      <4>2. i + 1 \in 1..Len(text)
        BY <4>1, AtInside, Zenon
      <4> QED
        BY <4>2, <1>0
    <3>3. i + 2 <= Len(text) + 1
      BY <3>2, <1>0
    <3> QED
      BY <1>q, <3>1, <3>3, <1>t
  <2>2. CASE ~ Sees(mark, mark)
    <3>1. Take(1) /\ i + 1 <= Len(text) + 1
      BY <1>q, <1>0, <2>2 DEF InQuotes
    <3> QED
      BY <1>q, <3>1, <1>t
  <2> QED
    BY <2>1, <2>2
<1>8. ASSUME InSingleQuote PROVE ChunkInv'
  <2>1. /\ result = "none" /\ UNCHANGED <<text, out, result>> /\ i <= Len(text)
        /\ state.kind = "SingleQuote"
    BY <1>8 DEF InSingleQuote, In
  <2>2. CASE Take(2) /\ Stay
    <3>1. state'.kind = "SingleQuote"
      BY <2>1, <2>2 DEF Stay
    <3> QED
      BY <2>1, <2>2, <3>1, <1>t
  <2>3. CASE InQuotes(Quote)
    BY <2>1, <2>3, <1>q
  <2> QED
    BY <1>8, <2>2, <2>3 DEF InSingleQuote
<1>9. ASSUME InDoubleQuote PROVE ChunkInv'
  <2>1. InQuotes(DoubleQuoteMark) /\ result = "none" /\ UNCHANGED <<text, out, result>> /\ i <= Len(text)
    BY <1>9 DEF InDoubleQuote, In
  <2> QED
    BY <2>1, <1>q
<1>10. ASSUME InDollarQuote PROVE ChunkInv'
  <2> DEFINE closer == <<"$">> \o state.tag \o <<"$">>
  <2>0. result = "none" /\ UNCHANGED <<text, out, result>> /\ i + 1 <= Len(text) + 1
    BY <1>10, <1>0 DEF InDollarQuote, In
  <2>1. Len(closer) \in Nat /\ Len(closer) > 0 /\ closer[Len(closer)] = "$" /\ DOMAIN closer = 1..Len(closer)
    <3>1. state.tag \in Seq(IdentChar)
      BY TypeParts DEF Shape, State
    <3> QED
      BY <3>1
  <2>2. IF \A k \in DOMAIN closer : At(text, i + k - 1) = closer[k]
           THEN Take(Len(closer)) /\ Leave
           ELSE Take(1) /\ Stay
    BY <1>10 DEF InDollarQuote
  <2> HIDE DEF closer
  <2>3. CASE \A k \in DOMAIN closer : At(text, i + k - 1) = closer[k]
    <3>1. At(text, i + Len(closer) - 1) = "$"
      BY <2>1, <2>3
    <3>2. i + Len(closer) - 1 <= Len(text)
      BY <3>1, <2>1, <1>0 DEF At
    <3>3. i + Len(closer) <= Len(text) + 1
      BY <3>2, <2>1, <1>0
    <3> QED
      BY <2>0, <2>1, <2>2, <2>3, <3>3, <1>t
  <2>4. CASE ~ \A k \in DOMAIN closer : At(text, i + k - 1) = closer[k]
    BY <2>0, <2>2, <2>4, <1>t
  <2> QED
    BY <2>3, <2>4
<1>11. ASSUME Refuse PROVE ChunkInv'
  <2>1. /\ out' = <<>> /\ result' = Unterminated /\ ~ Open'
        /\ UNCHANGED <<text, i, state, start, taken>>
    <3>1. state.kind \in Kinds
      BY TypeParts DEF Shape, State
    <3>2. result' \in Error
      BY <1>11, <3>1 DEF Refuse, Unterminated, Error, Kinds
    <3> QED
      BY <1>11, <3>2 DEF Refuse, Error, Open
  <2>2. result' \in Error
    BY TypeStep, <1>11, <2>1 DEF TypeOK, Refuse, Unterminated, Error, State, Kinds
  <2>3. DOMAIN out' = {}
    BY <2>1
  <2> QED
    BY <2>1, <2>2, <2>3 DEF ChunkInv, StatementsApart
<1>12. ASSUME Accept PROVE ChunkInv'
  <2>1. /\ result = "none" /\ result' = "ok" /\ i = Len(text) + 1
        /\ UNCHANGED <<text, i, start, taken>>
    BY <1>12, <1>0 DEF Accept, AtEnd
  <2>2. Push(Len(text) + 1)
    BY <1>12, Zenon DEF Accept
  <2>3. Push(i) /\ i' \in Nat /\ i <= i' /\ i' <= Len(text) + 1
    BY <2>1, <2>2, <1>0
  <2> QED
    BY <2>1, <2>3, PushKeeps
<1>13. ASSUME UNCHANGED vars PROVE ChunkInv'
  BY <1>13 DEF vars, ChunkInv, StatementsApart, Behind, BeginsWithSql, Accounted, Open, InStatement
<1> QED
  BY <1>1, <1>2, <1>3, <1>4, <1>5, <1>6, <1>7, <1>8, <1>9, <1>10, <1>11, <1>12, <1>13
     DEF Next

(* The statements are handed over in order and do not overlap; every       *)
(* character scanned as SQL is in one of them, but for blanks at their     *)
(* ends; and each begins with SQL.                                         *)
THEOREM SplittingLosesNothing == Spec => []NothingLost
<1>1. TypeOK /\ ChunkInv => NothingLost
  BY DEF ChunkInv, NothingLost, Accounted, InStatement, BeginsWithSql, Open, Error
<1> QED
  BY <1>1, ChunkInit, ChunkStep, SplitterTyped, PTL DEF Spec

(***************************************************************************)
(* Where elements end                                                      *)
(***************************************************************************)

LEMMA LeastOrZeroIs ==
    ASSUME NEW S, NEW m \in S, S \subseteq Nat, \A r \in S : m <= r
    PROVE  Reader!LeastOrZero(S) = m
<1>1. \A q \in S : (\A r \in S : q <= r) => q = m
  OBVIOUS
<1> QED
  BY <1>1 DEF Reader!LeastOrZero

LEMMA LeastOrZeroNone == Reader!LeastOrZero({}) = 0
  BY DEF Reader!LeastOrZero

LEMMA LeastOrZeroSome ==
    ASSUME NEW S, S \subseteq Nat, S # {}
    PROVE  /\ Reader!LeastOrZero(S) \in S
           /\ \A r \in S : Reader!LeastOrZero(S) <= r
<1>1. \E q \in S : \A r \in S : q <= r
  BY LeastExists
<1> QED
  BY <1>1 DEF Reader!LeastOrZero

LEMMA GreatestIs ==
    ASSUME NEW S, NEW m \in S, S \subseteq Nat, \A r \in S : r <= m
    PROVE  Reader!Greatest(S) = m
<1>1. \A q \in S : (\A r \in S : q >= r) => q = m
  OBVIOUS
<1> QED
  BY <1>1 DEF Reader!Greatest

LEMMA GreatestBelow ==
    ASSUME NEW p \in Nat, NEW k \in Nat, NEW S, S \subseteq p..k - 1, S # {}
    PROVE  Reader!Greatest(S) \in S /\ \A r \in S : r <= Reader!Greatest(S)
<1>1. k - 1 \in Nat /\ S \subseteq 0..k - 1 /\ S \subseteq Nat
  <2>1. PICK r \in S : TRUE
    OBVIOUS
  <2>2. p <= k - 1
    BY <2>1
  <2>3. k - 1 \in Nat
    BY <2>2
  <2>4. \A x \in S : x \in 0..k - 1 /\ x \in Nat
    OBVIOUS
  <2> QED
    BY <2>3, <2>4
<1>2. \E q \in S : \A r \in S : r <= q
  BY <1>1, GreatestExists
<1>3. PICK m \in S : \A r \in S : r <= m
  BY <1>2
<1>4. Reader!Greatest(S) = m
  BY <1>1, <1>3, GreatestIs
<1> QED
  BY <1>3, <1>4

(* Statements reads the same text, by the same names. *)
LEMMA SameText ==
    /\ Reader!Backslash = Backslash /\ Reader!Quote = Quote
    /\ Reader!DoubleQuoteMark = DoubleQuoteMark /\ Reader!Newline = Newline
    /\ Reader!IdentChar = IdentChar
    /\ \A t, p : Reader!At(t, p) = At(t, p)
    /\ \A t, p, a, b : Reader!Pair(t, p, a, b) <=> Pair(t, p, a, b)
    /\ \A t, lo, hi : Reader!Trimmed(t, lo, hi) = Trimmed(t, lo, hi)
<1>1. \A t, p : Reader!At(t, p) = At(t, p)
  BY Zenon DEF At, Reader!At
<1>2. \A t, p, a, b : Reader!Pair(t, p, a, b) <=> Pair(t, p, a, b)
  BY <1>1, Zenon DEF Pair, Reader!Pair
<1>3. \A t, lo, hi : Reader!Trimmed(t, lo, hi) = Trimmed(t, lo, hi)
  BY Zenon DEF Trimmed, Reader!Trimmed
<1>4. /\ Reader!Backslash = Backslash /\ Reader!Quote = Quote
      /\ Reader!DoubleQuoteMark = DoubleQuoteMark /\ Reader!Newline = Newline
  BY DEF Backslash, Quote, DoubleQuoteMark, Newline,
         Reader!Backslash, Reader!Quote, Reader!DoubleQuoteMark, Reader!Newline
<1>5. Reader!IdentChar = IdentChar
  BY Zenon DEF IdentChar, Reader!IdentChar
<1> QED
  BY <1>1, <1>2, <1>3, <1>4, <1>5

(* A character is escaped just when the one before it is a backslash that  *)
(* is not.                                                                 *)
LEMMA EscapedNext ==
    ASSUME NEW t, NEW p \in Nat, t[p] # Backslash
    PROVE  /\ ~ Reader!EscapedIn(t, p, p + 1)
           /\ \A k \in Nat : k > p =>
                 (Reader!EscapedIn(t, p, k + 1)
                     <=> t[k] = Backslash /\ ~ Reader!EscapedIn(t, p, k))
<1> DEFINE S(k) == {j \in p..k - 1 : t[j] # Backslash}
           b(k) == Reader!Greatest(S(k))
<1>1. \A k : Reader!EscapedIn(t, p, k) <=> (k - 1 - b(k)) % 2 = 1
  BY Zenon DEF Reader!EscapedIn, Backslash, Reader!Backslash
<1>2. ASSUME NEW k \in Nat, k > p
      PROVE  b(k) \in p..k - 1 /\ b(k) \in S(k) /\ \A r \in S(k) : r <= b(k)
  <2>1. p \in S(k) /\ S(k) \subseteq p..k - 1
    BY <1>2
  <2> HIDE DEF S
  <2>2. b(k) \in S(k) /\ \A r \in S(k) : r <= b(k)
    BY <2>1, GreatestBelow
  <2> QED
    BY <2>1, <2>2
<1>3. ~ Reader!EscapedIn(t, p, p + 1)
  <2>1. b(p + 1) = p
    <3> HIDE DEF b
    <3> QED
      BY <1>2
  <2> HIDE DEF b
  <2> QED
    BY <1>1, <2>1
<1>4. ASSUME NEW k \in Nat, k > p
      PROVE  Reader!EscapedIn(t, p, k + 1)
                <=> t[k] = Backslash /\ ~ Reader!EscapedIn(t, p, k)
  <2>1. b(k) \in p..k - 1 /\ b(k + 1) \in p..k
    <3> HIDE DEF b, S
    <3>1. k + 1 \in Nat /\ k + 1 > p
      BY <1>4
    <3>2. b(k + 1) \in p..(k + 1) - 1
      BY <3>1, <1>2
    <3> QED
      BY <3>2, <1>2, <1>4
  <2>2. CASE t[k] = Backslash
    <3>1. S(k + 1) = S(k)
      BY <2>2, <1>4
    <3>2. b(k + 1) = b(k)
      BY <3>1
    <3> HIDE DEF b, S
    <3>3. (k - b(k)) % 2 = 1 <=> ~ ((k - 1 - b(k)) % 2 = 1)
      BY <2>1
    <3>4. (k + 1) - 1 - b(k + 1) = k - b(k)
      BY <2>1, <3>2
    <3> QED
      BY <1>1, <2>2, <3>3, <3>4
  <2>3. CASE t[k] # Backslash
    <3>1. k \in S(k + 1) /\ S(k + 1) \subseteq Nat /\ \A r \in S(k + 1) : r <= k
      BY <2>3, <1>4
    <3> HIDE DEF S
    <3>2. b(k + 1) = k
      BY <3>1, GreatestIs
    <3> HIDE DEF b
    <3>3. ((k + 1) - 1 - b(k + 1)) % 2 = 0
      BY <3>2
    <3> QED
      BY <1>1, <2>3, <3>3
  <2> QED
    BY <2>2, <2>3
<1> QED
  BY <1>3, <1>4

(* The parts of QuotedEnd.  The mark at `k` may close when `before` is odd *)
(* many positions before it.                                               *)
Free(t, p, escapes, k) == ~ (escapes /\ Reader!EscapedIn(t, p, k))

Before(t, p, escapes, k) ==
    Reader!Greatest({j \in p..k - 1 : j = p \/ t[j] # t[p] \/ ~ Free(t, p, escapes, j)})

OddAt(t, p, escapes, k) == (k - Before(t, p, escapes, k)) % 2 = 1

Closers(t, p, escapes) ==
    {q \in p + 1..Len(t) :
        /\ t[q] = t[p] /\ Free(t, p, escapes, q) /\ OddAt(t, p, escapes, q)
        /\ Reader!At(t, q + 1) # t[p]}

LEMMA QuotedEndIs ==
    ASSUME NEW t, NEW p, NEW escapes
    PROVE  Reader!QuotedEnd(t, p, escapes)
              = IF Reader!LeastOrZero(Closers(t, p, escapes)) = 0 THEN 0
                ELSE Reader!LeastOrZero(Closers(t, p, escapes)) + 1
  BY Zenon DEF Reader!QuotedEnd, Free, Before, OddAt, Closers

(* A free mark changes the parity, anything else starts a new run. *)
LEMMA OddNext ==
    ASSUME NEW t, NEW p \in Nat, NEW e
    PROVE  /\ OddAt(t, p, e, p + 1)
           /\ \A k \in Nat : k > p =>
                 (OddAt(t, p, e, k + 1)
                     <=> ~ (t[k] = t[p] /\ Free(t, p, e, k) /\ OddAt(t, p, e, k)))
<1> DEFINE S(k) == {j \in p..k - 1 : j = p \/ t[j] # t[p] \/ ~ Free(t, p, e, j)}
           b(k) == Reader!Greatest(S(k))
<1>1. \A k : OddAt(t, p, e, k) <=> (k - b(k)) % 2 = 1
  BY DEF OddAt, Before
<1>2. ASSUME NEW k \in Nat, k > p
      PROVE  b(k) \in p..k - 1 /\ b(k) \in S(k) /\ \A r \in S(k) : r <= b(k)
  <2>1. p \in S(k) /\ S(k) \subseteq p..k - 1
    BY <1>2
  <2> HIDE DEF S
  <2>2. b(k) \in S(k) /\ \A r \in S(k) : r <= b(k)
    BY <2>1, GreatestBelow
  <2> QED
    BY <2>1, <2>2
<1>3. OddAt(t, p, e, p + 1)
  <2>1. b(p + 1) = p
    <3> HIDE DEF b
    <3> QED
      BY <1>2
  <2> HIDE DEF b
  <2> QED
    BY <1>1, <2>1
<1>4. ASSUME NEW k \in Nat, k > p
      PROVE  OddAt(t, p, e, k + 1)
                <=> ~ (t[k] = t[p] /\ Free(t, p, e, k) /\ OddAt(t, p, e, k))
  <2>1. b(k) \in p..k - 1 /\ b(k + 1) \in p..k
    <3> HIDE DEF b, S
    <3>1. k + 1 \in Nat /\ k + 1 > p
      BY <1>4
    <3>2. b(k + 1) \in p..(k + 1) - 1
      BY <3>1, <1>2
    <3> QED
      BY <3>2, <1>2, <1>4
  <2>2. CASE t[k] = t[p] /\ Free(t, p, e, k)
    <3>1. S(k + 1) = S(k)
      BY <2>2, <1>4
    <3>2. b(k + 1) = b(k)
      BY <3>1
    <3> HIDE DEF b, S
    <3>3. (k + 1 - b(k)) % 2 = 1 <=> ~ ((k - b(k)) % 2 = 1)
      BY <2>1
    <3>4. OddAt(t, p, e, k + 1) <=> (k + 1 - b(k)) % 2 = 1
      <4>1. OddAt(t, p, e, k + 1) <=> ((k + 1) - b(k + 1)) % 2 = 1
        BY <1>1
      <4>2. (k + 1) - b(k + 1) = k + 1 - b(k)
        BY <2>1, <3>2
      <4> QED
        BY <4>1, <4>2, Zenon
    <3>5. OddAt(t, p, e, k) <=> (k - b(k)) % 2 = 1
      BY <1>1
    <3> QED
      BY <2>2, <3>3, <3>4, <3>5
  <2>3. CASE ~ (t[k] = t[p] /\ Free(t, p, e, k))
    <3>1. k \in S(k + 1) /\ S(k + 1) \subseteq Nat /\ \A r \in S(k + 1) : r <= k
      BY <2>3, <1>4
    <3> HIDE DEF S
    <3>2. b(k + 1) = k
      BY <3>1, GreatestIs
    <3> HIDE DEF b
    <3>3. ((k + 1) - b(k + 1)) % 2 = 1
      BY <3>2
    <3> QED
      BY <1>1, <2>3, <3>3
  <2> QED
    BY <2>2, <2>3
<1> QED
  BY <1>3, <1>4

(* A line comment ends with its line or with the file. *)
LEMMA NextLineIs ==
    ASSUME NEW t \in Seq(STRING), NEW p \in Nat, p > 0
    PROVE  /\ NextLine(t, p) = Reader!LineEnd(t, p)
           /\ (\A q \in p..Len(t) : t[q] # Newline) => NextLine(t, p) = Len(t) + 1
           /\ \A m \in p..Len(t) :
                 t[m] = Newline /\ (\A q \in p..m - 1 : t[q] # Newline)
                     => NextLine(t, p) = m + 1
<1> DEFINE nl == {q \in p..Len(t) : t[q] = Newline}
           least == CHOOSE q \in nl : \A r \in nl : q <= r
<1>1. nl \subseteq Nat /\ 0 \notin nl
  OBVIOUS
<1>2. NextLine(t, p) = IF nl = {} THEN Len(t) + 1 ELSE 1 + least
  BY DEF NextLine
<1>3. Reader!LeastOrZero(nl) = IF nl = {} THEN 0 ELSE least
  BY Zenon DEF Reader!LeastOrZero
<1>4. Reader!LineEnd(t, p)
          = IF Reader!LeastOrZero(nl) = 0 THEN Len(t) + 1 ELSE Reader!LeastOrZero(nl) + 1
  BY Zenon DEF Reader!LineEnd, Newline, Reader!Newline
<1>5. nl # {} => least \in nl /\ \A r \in nl : least <= r
  <2> HIDE DEF nl
  <2>1. nl # {} => \E q \in nl : \A r \in nl : q <= r
    BY <1>1, LeastExists
  <2> QED
    BY <2>1
<1>6. NextLine(t, p) = Reader!LineEnd(t, p)
  <2> HIDE DEF least, nl
  <2>1. CASE nl = {}
    BY <2>1, <1>2, <1>3, <1>4
  <2>2. CASE nl # {}
    <3>1. least # 0 /\ least \in Nat
      BY <2>2, <1>1, <1>5
    <3> QED
      BY <2>2, <3>1, <1>2, <1>3, <1>4
  <2> QED
    BY <2>1, <2>2
<1>7. (\A q \in p..Len(t) : t[q] # Newline) => NextLine(t, p) = Len(t) + 1
  BY <1>2
<1>8. ASSUME NEW m \in p..Len(t), t[m] = Newline,
             \A q \in p..m - 1 : t[q] # Newline
      PROVE  NextLine(t, p) = m + 1
  <2>1. m \in nl /\ \A r \in nl : m <= r
    BY <1>8
  <2>2. nl # {} /\ least <= m /\ m <= least /\ least \in Nat
    <3> HIDE DEF least, nl
    <3> QED
      BY <2>1, <1>1, <1>5
  <2> HIDE DEF least, nl
  <2> QED
    BY <2>1, <2>2, <1>2
<1> QED
  BY <1>6, <1>7, <1>8

LEMMA LineEndExists ==
    ASSUME NEW t \in Seq(STRING), NEW p \in Nat
    PROVE  Reader!LineEnd(t, p) # 0
<1> DEFINE S == {r \in p..Len(t) : t[r] = Newline}
<1>1. Reader!LineEnd(t, p)
        = IF Reader!LeastOrZero(S) = 0 THEN Len(t) + 1 ELSE Reader!LeastOrZero(S) + 1
  BY SameText, Zenon DEF Reader!LineEnd
<1>2. S \subseteq Nat
  OBVIOUS
<1> HIDE DEF S
<1>3. Reader!LeastOrZero(S) \in Nat
  <2>1. CASE S = {}
    BY <2>1, LeastOrZeroNone
  <2>2. CASE S # {}
    BY <1>2, <2>2, LeastOrZeroSome
  <2> QED
    BY <2>1, <2>2
<1> QED
  BY <1>1, <1>3

(* The recursion of CommentEnd, and its step at `q`. *)
Step(t, h, q) ==
    CASE q > Len(t) -> 0
      [] Reader!Pair(t, q, "*", "/") -> q + 2
      [] Reader!Pair(t, q, "/", "*") -> IF h[q + 2] = 0 THEN 0 ELSE h[h[q + 2]]
      [] OTHER -> h[q + 1]

Body(t) == CHOOSE h : h = [q \in 1..Len(t) + 1 |-> Step(t, h, q)]

LEMMA CommentEndIs ==
    ASSUME NEW t, NEW p
    PROVE  Reader!CommentEnd(t, p) = Body(t)[p + 2]
  BY Zenon DEF Reader!CommentEnd, Body, Step

LEMMA PairIs ==
    ASSUME NEW t \in Seq(STRING), NEW q \in Int, NEW a \in {"*", "/", "-"},
           NEW b \in {"*", "/", "-"}, Pair(t, q, a, b)
    PROVE  /\ q \in 1..Len(t) /\ q + 1 \in 1..Len(t)
           /\ t[q] = a /\ t[q + 1] = b
<1>1. a # "" /\ b # "" /\ At(t, q) = a /\ At(t, q + 1) = b
  BY MarksAreCharacters, Zenon DEF Pair
<1> QED
  BY <1>1, AtInside, Zenon

LEMMA StepIs ==
    ASSUME NEW t \in Seq(STRING), NEW h, NEW q \in 1..Len(t) + 1
    PROVE  /\ q > Len(t) => Step(t, h, q) = 0
           /\ Pair(t, q, "*", "/") => Step(t, h, q) = q + 2
           /\ Pair(t, q, "/", "*") =>
                 Step(t, h, q) = IF h[q + 2] = 0 THEN 0 ELSE h[h[q + 2]]
           /\ q <= Len(t) /\ ~ Pair(t, q, "*", "/") /\ ~ Pair(t, q, "/", "*") =>
                 Step(t, h, q) = h[q + 1]
<1>1. Step(t, h, q) =
        CASE q > Len(t) -> 0
          [] Pair(t, q, "*", "/") -> q + 2
          [] Pair(t, q, "/", "*") -> IF h[q + 2] = 0 THEN 0 ELSE h[h[q + 2]]
          [] OTHER -> h[q + 1]
  BY SameText DEF Step
<1>2. Len(t) \in Nat /\ q \in Int
  OBVIOUS
<1>3. Pair(t, q, "*", "/") => ~ (q > Len(t)) /\ t[q] = "*"
  BY <1>2, PairIs
<1>4. Pair(t, q, "/", "*") => ~ (q > Len(t)) /\ t[q] = "/"
  BY <1>2, PairIs
<1> QED
  BY <1>1, <1>2, <1>3, <1>4

(* What the recursion finds lies further on, if it finds anything. *)
LEMMA StepLater ==
    ASSUME NEW t \in Seq(STRING), NEW h, NEW q \in 1..Len(t) + 1,
           \A r \in q + 1..Len(t) + 1 : h[r] = 0 \/ h[r] \in r + 1..Len(t) + 1
    PROVE  Step(t, h, q) = 0 \/ Step(t, h, q) \in q + 1..Len(t) + 1
<1>0. Len(t) \in Nat /\ q \in Nat
  OBVIOUS
<1>1. CASE q > Len(t)
  BY <1>1, StepIs
<1>2. CASE Pair(t, q, "*", "/")
  <2>1. q + 1 <= Len(t)
    BY <1>2, <1>0, PairIs
  <2> QED
    BY <1>0, <1>2, <2>1, StepIs
<1>3. CASE Pair(t, q, "/", "*")
  <2>1. q + 1 <= Len(t)
    BY <1>3, <1>0, PairIs
  <2>2. h[q + 2] = 0 \/ h[q + 2] \in q + 3..Len(t) + 1
    BY <1>0, <2>1
  <2>3. h[q + 2] = 0 \/ h[h[q + 2]] = 0 \/ h[h[q + 2]] \in q + 1..Len(t) + 1
    <3>1. ASSUME h[q + 2] # 0
          PROVE  h[h[q + 2]] = 0 \/ h[h[q + 2]] \in h[q + 2] + 1..Len(t) + 1
      BY <1>0, <2>2, <3>1
    <3> QED
      BY <1>0, <2>2, <3>1
  <2> QED
    BY <1>3, <2>3, StepIs
<1>4. CASE q <= Len(t) /\ ~ Pair(t, q, "*", "/") /\ ~ Pair(t, q, "/", "*")
  <2>1. h[q + 1] = 0 \/ h[q + 1] \in q + 2..Len(t) + 1
    BY <1>0, <1>4
  <2> QED
    BY <1>0, <1>4, <2>1, StepIs
<1> QED
  BY <1>0, <1>1, <1>2, <1>3, <1>4

(* The step looks further on only. *)
LEMMA StepAlike ==
    ASSUME NEW t \in Seq(STRING), NEW g, NEW h, NEW q \in 1..Len(t) + 1,
           \A r \in q + 1..Len(t) + 1 :
              g[r] = h[r] /\ (h[r] = 0 \/ h[r] \in r + 1..Len(t) + 1)
    PROVE  Step(t, g, q) = Step(t, h, q)
<1>0. Len(t) \in Nat /\ q \in Nat
  OBVIOUS
<1>1. CASE q > Len(t)
  BY <1>1, StepIs
<1>2. CASE Pair(t, q, "*", "/")
  BY <1>2, StepIs
<1>3. CASE Pair(t, q, "/", "*")
  <2>1. q + 1 <= Len(t)
    BY <1>3, <1>0, PairIs
  <2>2. g[q + 2] = h[q + 2] /\ (h[q + 2] = 0 \/ h[q + 2] \in q + 3..Len(t) + 1)
    BY <1>0, <2>1
  <2>3. h[q + 2] # 0 => g[h[q + 2]] = h[h[q + 2]]
    BY <1>0, <2>2
  <2> QED
    BY <1>3, <2>2, <2>3, StepIs
<1>4. CASE q <= Len(t) /\ ~ Pair(t, q, "*", "/") /\ ~ Pair(t, q, "/", "*")
  <2>1. g[q + 1] = h[q + 1]
    BY <1>0, <1>4
  <2> QED
    BY <1>4, <2>1, StepIs
<1> QED
  BY <1>0, <1>1, <1>2, <1>3, <1>4

(* A solution of the recursion from `m` on. *)
Solves(t, h, m) ==
    /\ h \in [m..Len(t) + 1 -> 0..Len(t) + 1]
    /\ \A q \in m..Len(t) + 1 :
          h[q] = Step(t, h, q) /\ (h[q] = 0 \/ h[q] \in q + 1..Len(t) + 1)

LEMMA SolvedFurther ==
    ASSUME NEW t \in Seq(STRING), NEW m \in 1..Len(t), NEW h, Solves(t, h, m + 1)
    PROVE  \E g : Solves(t, g, m)
<1> DEFINE n == Len(t) + 1
           g == [q \in m..n |-> IF q = m THEN Step(t, h, m) ELSE h[q]]
<1>0. Len(t) \in Nat /\ n \in Nat /\ m \in Nat /\ m <= Len(t)
  OBVIOUS
<1>1. \A q \in m + 1..n : h[q] = Step(t, h, q) /\ (h[q] = 0 \/ h[q] \in q + 1..n)
  BY DEF Solves
<1>2. Step(t, h, m) = 0 \/ Step(t, h, m) \in m + 1..n
  <2>1. m \in 1..Len(t) + 1
    BY <1>0
  <2>2. \A r \in m + 1..Len(t) + 1 : h[r] = 0 \/ h[r] \in r + 1..Len(t) + 1
    BY <1>1
  <2> QED
    BY <2>1, <2>2, StepLater
<1>3. g[m] = Step(t, h, m) /\ \A q \in m + 1..n : g[q] = h[q]
  BY <1>0
<1>4. \A q \in m..n : q = m \/ q \in m + 1..n
  BY <1>0
<1>5. \A q \in m..n : g[q] = 0 \/ g[q] \in q + 1..n
  <2> HIDE DEF g, n
  <2> QED
    BY <1>1, <1>2, <1>3, <1>4
<1>6. g \in [m..n -> 0..n]
  <2>1. \A q \in m..n : g[q] \in 0..n
    <3> HIDE DEF g
    <3> QED
      BY <1>0, <1>5
  <2>2. DOMAIN g = m..n /\ g = [q \in m..n |-> g[q]]
    OBVIOUS
  <2> HIDE DEF g, n
  <2> QED
    BY <2>1, <2>2
<1>7. ASSUME NEW q \in m..n PROVE g[q] = Step(t, g, q)
  <2>1. q \in 1..Len(t) + 1
    BY <1>0
  <2>2. \A r \in q + 1..Len(t) + 1 : r \in m + 1..n
    BY <1>0
  <2> HIDE DEF g
  <2>3. \A r \in q + 1..Len(t) + 1 : g[r] = h[r] /\ (h[r] = 0 \/ h[r] \in r + 1..Len(t) + 1)
    BY <1>1, <1>3, <2>2
  <2>4. Step(t, g, q) = Step(t, h, q)
    BY <2>1, <2>3, StepAlike
  <2>5. g[q] = Step(t, h, q)
    BY <1>1, <1>3, <1>4
  <2> QED
    BY <2>4, <2>5
<1>8. Solves(t, g, m)
  <2> HIDE DEF g
  <2> QED
    BY <1>5, <1>6, <1>7 DEF Solves
<1> QED
  BY <1>8

LEMMA Solvable ==
    ASSUME NEW t \in Seq(STRING)
    PROVE  \E h : Solves(t, h, 1)
<1> DEFINE n == Len(t) + 1
           D == {d \in 0..Len(t) : ~ \E h : Solves(t, h, n - d)}
<1>0. Len(t) \in Nat /\ n \in Nat
  OBVIOUS
<1>1. CASE D = {}
  <2>1. Len(t) \in 0..Len(t) /\ n - Len(t) = 1
    BY <1>0
  <2> QED
    BY <1>1, <2>1
<1>2. CASE D # {}
  <2>1. D \subseteq Nat
    BY <1>0
  <2>2. PICK d \in D : \A r \in D : d <= r
    <3> HIDE DEF D
    <3> QED
      BY <1>2, <2>1, LeastExists
  <2>3. d \in 0..Len(t) /\ ~ \E h : Solves(t, h, n - d)
    OBVIOUS
  <2>4. CASE d = 0
    <3> DEFINE g == [q \in n..n |-> 0]
    <3>1. \A q \in n..n : q = n /\ g[q] = 0 /\ n > Len(t)
      BY <1>0
    <3>2. \A q \in n..n : Step(t, g, q) = 0
      <4> HIDE DEF g
      <4>1. n \in 1..Len(t) + 1 /\ n > Len(t)
        BY <1>0
      <4>2. Step(t, g, n) = 0
        BY <4>1, StepIs
      <4> QED
        BY <3>1, <4>2
    <3>3. g \in [n..n -> 0..n]
      BY <1>0
    <3>4. Solves(t, g, n)
      <4> HIDE DEF g
      <4> QED
        BY <3>1, <3>2, <3>3 DEF Solves
    <3>5. n - d = n
      BY <1>0, <2>4
    <3> QED
      BY <2>3, <3>4, <3>5
  <2>5. CASE d # 0
    <3>1. d - 1 \in 0..Len(t) /\ ~ (d <= d - 1)
      BY <1>0, <2>3, <2>5
    <3>2. d - 1 \notin D
      <4> HIDE DEF D
      <4> QED
        BY <2>2, <3>1
    <3>3. \E h : Solves(t, h, n - (d - 1))
      BY <3>1, <3>2
    <3>4. n - (d - 1) = (n - d) + 1 /\ n - d \in 1..Len(t)
      BY <1>0, <2>3, <2>5
    <3> QED
      BY <2>3, <3>3, <3>4, SolvedFurther
  <2> QED
    BY <2>4, <2>5
<1> QED
  BY <1>1, <1>2

(* So the recursion has a solution, and every solution looks further on. *)
LEMMA BodyIs ==
    ASSUME NEW t \in Seq(STRING)
    PROVE  \A q \in 1..Len(t) + 1 :
              /\ Body(t)[q] = Step(t, Body(t), q)
              /\ Body(t)[q] = 0 \/ Body(t)[q] \in q + 1..Len(t) + 1
<1> DEFINE n == Len(t) + 1
           Eq(h) == h = [q \in 1..n |-> Step(t, h, q)]
           b == CHOOSE h : Eq(h)
<1>0. Len(t) \in Nat /\ n \in Nat
  OBVIOUS
<1>1. PICK h : Solves(t, h, 1)
  BY Solvable
<1>2. Eq(h)
  BY <1>1 DEF Solves
<1>3. Eq(b)
  <2> HIDE DEF Eq
  <2> QED
    BY <1>2
<1>4. Body(t) = b
  BY Zenon DEF Body
<1> HIDE DEF b
<1>5. \A q \in 1..n : b[q] = Step(t, b, q)
  BY <1>3, Zenon
<1>6. \A q \in 1..n : b[q] = 0 \/ b[q] \in q + 1..n
  <2> DEFINE D == {d \in 0..Len(t) : ~ (b[n - d] = 0 \/ b[n - d] \in n - d + 1..n)}
  <2>1. CASE D # {}
    <3>1. D \subseteq Nat
      BY <1>0
    <3>2. PICK d \in D : \A r \in D : d <= r
      <4> HIDE DEF D
      <4> QED
        BY <2>1, <3>1, LeastExists
    <3>3. d \in 0..Len(t) /\ ~ (b[n - d] = 0 \/ b[n - d] \in n - d + 1..n)
      OBVIOUS
    <3>4. n - d \in 1..n
      BY <1>0, <3>3
    <3>5. ASSUME NEW r \in n - d + 1..n PROVE b[r] = 0 \/ b[r] \in r + 1..n
      <4>1. n - r \in 0..Len(t) /\ ~ (d <= n - r) /\ n - (n - r) = r
        BY <1>0, <3>3
      <4>2. n - r \notin D
        <5> HIDE DEF D
        <5> QED
          BY <3>2, <4>1
      <4>3. b[n - (n - r)] = 0 \/ b[n - (n - r)] \in n - (n - r) + 1..n
        BY <4>1, <4>2
      <4> QED
        BY <4>1, <4>3
    <3>6. Step(t, b, n - d) = 0 \/ Step(t, b, n - d) \in n - d + 1..n
      BY <3>4, <3>5, StepLater
    <3> QED
      BY <1>5, <3>3, <3>4, <3>6
  <2>2. CASE D = {}
    <3> SUFFICES ASSUME NEW q \in 1..n PROVE b[q] = 0 \/ b[q] \in q + 1..n
      OBVIOUS
    <3>1. n - q \in 0..Len(t) /\ n - (n - q) = q
      BY <1>0
    <3>2. b[n - (n - q)] = 0 \/ b[n - (n - q)] \in n - (n - q) + 1..n
      BY <2>2, <3>1
    <3> QED
      BY <3>1, <3>2
  <2> QED
    BY <2>1, <2>2
<1> QED
  BY <1>4, <1>5, <1>6

(***************************************************************************)
(* Inside a quoted element that begins at `p`: at `j` neither a backslash  *)
(* nor a mark is left over from before, and no mark so far was its last.   *)
(***************************************************************************)

Quoted(t, p, e, j) ==
    /\ p < j
    /\ Free(t, p, e, j)
    /\ OddAt(t, p, e, j)
    /\ \A q \in Closers(t, p, e) : j <= q

QuotedAssumption(t, p, e, j) ==
    /\ t \in Seq(STRING) /\ p \in Nat /\ j \in Nat /\ e \in BOOLEAN
    /\ t[p] \in {Quote, DoubleQuoteMark}

LEMMA FreeNext ==
    ASSUME NEW t, NEW p \in Nat, t[p] # Backslash, NEW e \in BOOLEAN
    PROVE  /\ Free(t, p, e, p + 1)
           /\ \A k \in Nat : k > p =>
                 (Free(t, p, e, k + 1) <=> ~ (e /\ t[k] = Backslash /\ Free(t, p, e, k)))
<1>1. ~ Reader!EscapedIn(t, p, p + 1)
  BY EscapedNext
<1>2. \A k \in Nat : k > p =>
         (Reader!EscapedIn(t, p, k + 1) <=> t[k] = Backslash /\ ~ Reader!EscapedIn(t, p, k))
  BY EscapedNext
<1> QED
  BY <1>1, <1>2, Zenon DEF Free

(* Both, one character on. *)
LEMMA OneOn ==
    ASSUME NEW t, NEW p \in Nat, NEW k \in Nat, k > p, t[p] # Backslash, NEW e \in BOOLEAN
    PROVE  /\ Free(t, p, e, k + 1) <=> ~ (e /\ t[k] = Backslash /\ Free(t, p, e, k))
           /\ OddAt(t, p, e, k + 1)
                 <=> ~ (t[k] = t[p] /\ Free(t, p, e, k) /\ OddAt(t, p, e, k))
<1>1. \A q \in Nat : q > p =>
         (Free(t, p, e, q + 1) <=> ~ (e /\ t[q] = Backslash /\ Free(t, p, e, q)))
  BY FreeNext
<1>2. \A q \in Nat : q > p =>
         (OddAt(t, p, e, q + 1) <=> ~ (t[q] = t[p] /\ Free(t, p, e, q) /\ OddAt(t, p, e, q)))
  BY OddNext
<1> QED
  BY <1>1, <1>2, Zenon

LEMMA MarksDiffer == Quote # Backslash /\ DoubleQuoteMark # Backslash /\ Quote # DoubleQuoteMark
  BY DEF Quote, Backslash, DoubleQuoteMark

LEMMA QuotedBegins ==
    ASSUME NEW t, NEW p, NEW e, QuotedAssumption(t, p, e, p)
    PROVE  Quoted(t, p, e, p + 1)
<1>1. p \in Nat /\ e \in BOOLEAN /\ t[p] # Backslash
  BY MarksDiffer DEF QuotedAssumption
<1>2. Free(t, p, e, p + 1) /\ OddAt(t, p, e, p + 1)
  BY <1>1, FreeNext, OddNext
<1>3. \A q \in Closers(t, p, e) : p + 1 <= q
  BY <1>1 DEF Closers
<1> QED
  BY <1>1, <1>2, <1>3 DEF Quoted

(* After a backslash the next character is skipped. *)
LEMMA QuotedEscape ==
    ASSUME NEW t, NEW p, NEW j, QuotedAssumption(t, p, TRUE, j),
           Quoted(t, p, TRUE, j), t[j] = Backslash
    PROVE  Quoted(t, p, TRUE, j + 2)
<1>1. p \in Nat /\ j \in Nat /\ j > p /\ t[p] # Backslash /\ t[p] # t[j]
  BY MarksDiffer DEF QuotedAssumption, Quoted
<1>2. TRUE \in BOOLEAN
  OBVIOUS
<1>3. ~ Free(t, p, TRUE, j + 1)
  BY <1>1, <1>2, OneOn, Zenon DEF Quoted
<1>4. j + 1 \in Nat /\ j + 1 > p /\ (j + 1) + 1 = j + 2
  BY <1>1
<1>5. Free(t, p, TRUE, (j + 1) + 1) /\ OddAt(t, p, TRUE, (j + 1) + 1)
  BY <1>1, <1>2, <1>3, <1>4, OneOn, Zenon
<1>6. \A q \in Closers(t, p, TRUE) :
         t[q] = t[p] /\ Free(t, p, TRUE, q) /\ q \in p + 1..Len(t) /\ j <= q
  BY Zenon DEF Quoted, Closers
<1>7. \A q \in Closers(t, p, TRUE) : j + 2 <= q
  <2> SUFFICES ASSUME NEW q \in Closers(t, p, TRUE) PROVE j + 2 <= q
    OBVIOUS
  <2>1. t[q] = t[p] /\ Free(t, p, TRUE, q)
    BY <1>6, Zenon
  <2>3. q # j
    BY <1>1, <2>1, Zenon
  <2>4. q # j + 1
    BY <1>3, <2>1, Zenon
  <2>2. q \in p + 1..Len(t) /\ j <= q
    BY <1>6, Zenon
  <2> QED
    BY <1>1, <2>2, <2>3, <2>4
<1>8. p < j + 2
  BY <1>1
<1> QED
  BY <1>4, <1>5, <1>7, <1>8, Zenon DEF Quoted

(* A doubled mark stays inside. *)
LEMMA QuotedDoubled ==
    ASSUME NEW t, NEW p, NEW e, NEW j, QuotedAssumption(t, p, e, j),
           Quoted(t, p, e, j), t[j] = t[p], j + 1 \in 1..Len(t), t[j + 1] = t[p]
    PROVE  Quoted(t, p, e, j + 2)
<1>1. p \in Nat /\ j \in Nat /\ j > p /\ e \in BOOLEAN /\ t[p] # Backslash
  BY MarksDiffer DEF QuotedAssumption, Quoted
<1>2. t[j] # Backslash
  BY <1>1
<1>3. Free(t, p, e, j + 1) /\ ~ OddAt(t, p, e, j + 1)
  <2>1. /\ Free(t, p, e, j + 1) <=> ~ (e /\ t[j] = Backslash /\ Free(t, p, e, j))
        /\ OddAt(t, p, e, j + 1)
              <=> ~ (t[j] = t[p] /\ Free(t, p, e, j) /\ OddAt(t, p, e, j))
    BY <1>1, OneOn
  <2> QED
    BY <1>2, <2>1, Zenon DEF Quoted
<1>4. j + 1 \in Nat /\ j + 1 > p /\ (j + 1) + 1 = j + 2
  BY <1>1
<1>5. Free(t, p, e, (j + 1) + 1) /\ OddAt(t, p, e, (j + 1) + 1)
  <2>1. /\ Free(t, p, e, (j + 1) + 1)
              <=> ~ (e /\ t[j + 1] = Backslash /\ Free(t, p, e, j + 1))
        /\ OddAt(t, p, e, (j + 1) + 1)
              <=> ~ (t[j + 1] = t[p] /\ Free(t, p, e, j + 1) /\ OddAt(t, p, e, j + 1))
    BY <1>1, <1>4, OneOn
  <2>2. t[j + 1] # Backslash
    BY <1>1
  <2> QED
    BY <1>3, <2>1, <2>2, Zenon
<1>6. Reader!At(t, j + 1) = t[p]
  BY SameText, Zenon DEF At
<1>7. \A q \in Closers(t, p, e) : q # j /\ q # j + 1 /\ q \in Int /\ j <= q
  BY <1>1, <1>3, <1>6 DEF Quoted, Closers
<1>8. \A q \in Closers(t, p, e) : j + 2 <= q
  BY <1>1, <1>7
<1> QED
  BY <1>1, <1>4, <1>5, <1>8 DEF Quoted

LEMMA QuotedOther ==
    ASSUME NEW t, NEW p, NEW e, NEW j, QuotedAssumption(t, p, e, j),
           Quoted(t, p, e, j), t[j] # t[p], e => t[j] # Backslash
    PROVE  Quoted(t, p, e, j + 1)
<1>1. p \in Nat /\ j \in Nat /\ j > p /\ e \in BOOLEAN /\ t[p] # Backslash
  BY MarksDiffer DEF QuotedAssumption, Quoted
<1>2. Free(t, p, e, j + 1) /\ OddAt(t, p, e, j + 1)
  <2>1. /\ Free(t, p, e, j + 1) <=> ~ (e /\ t[j] = Backslash /\ Free(t, p, e, j))
        /\ OddAt(t, p, e, j + 1)
              <=> ~ (t[j] = t[p] /\ Free(t, p, e, j) /\ OddAt(t, p, e, j))
    BY <1>1, OneOn
  <2> QED
    BY <2>1, Zenon
<1>3. \A q \in Closers(t, p, e) : q # j /\ q \in Int /\ j <= q
  BY <1>1 DEF Quoted, Closers
<1>4. \A q \in Closers(t, p, e) : j + 1 <= q
  BY <1>1, <1>3
<1> QED
  BY <1>1, <1>2, <1>4 DEF Quoted

(* A single mark closes. *)
LEMMA QuotedCloses ==
    ASSUME NEW t, NEW p, NEW e, NEW j, QuotedAssumption(t, p, e, j),
           Quoted(t, p, e, j), j \in 1..Len(t), t[j] = t[p], At(t, j + 1) # t[p]
    PROVE  Reader!QuotedEnd(t, p, e) = j + 1
<1>1. p \in Nat /\ j \in Nat /\ j > p
  BY DEF QuotedAssumption, Quoted
<1>2. Reader!At(t, j + 1) # t[p]
  BY SameText
<1>3. j \in Closers(t, p, e)
  BY <1>1, <1>2 DEF Quoted, Closers
<1>4. Closers(t, p, e) \subseteq Nat /\ \A q \in Closers(t, p, e) : j <= q
  BY <1>1 DEF Quoted, Closers
<1>5. Reader!LeastOrZero(Closers(t, p, e)) = j
  BY <1>3, <1>4, LeastOrZeroIs
<1> QED
  BY <1>1, <1>5, QuotedEndIs

LEMMA QuotedOpen ==
    ASSUME NEW t, NEW p, NEW e, NEW j, QuotedAssumption(t, p, e, j),
           Quoted(t, p, e, j), j > Len(t)
    PROVE  Reader!QuotedEnd(t, p, e) = 0
<1>1. Closers(t, p, e) = {}
  BY DEF QuotedAssumption, Quoted, Closers
<1>2. Reader!LeastOrZero(Closers(t, p, e)) = 0
  BY <1>1, LeastOrZeroNone
<1> QED
  BY <1>2, QuotedEndIs

(***************************************************************************)
(* Inside a block comment that begins at `p`: `d` comments are open at     *)
(* `j`.  The innermost ends at Body(t)[j], the one around it at the        *)
(* Body(t) of that position, and so on to the end of the outermost.        *)
(***************************************************************************)

Commented(t, p, d, j) ==
    \E r \in [1..d + 1 -> 0..Len(t) + 1] :
        /\ r[1] = j
        /\ \A k \in 1..d : r[k + 1] = IF r[k] = 0 THEN 0 ELSE Body(t)[r[k]]
        /\ r[d + 1] = Reader!CommentEnd(t, p)

LEMMA BodyRange ==
    ASSUME NEW t \in Seq(STRING), NEW q \in 1..Len(t) + 1
    PROVE  Body(t)[q] \in 0..Len(t) + 1
<1>1. Body(t)[q] = 0 \/ Body(t)[q] \in q + 1..Len(t) + 1
  BY BodyIs
<1> QED
  BY <1>1

(* The recursion at each kind of position. *)
LEMMA BodyStep ==
    ASSUME NEW t \in Seq(STRING), NEW q \in 1..Len(t) + 1
    PROVE  /\ q > Len(t) => Body(t)[q] = 0
           /\ Pair(t, q, "*", "/") => Body(t)[q] = q + 2
           /\ Pair(t, q, "/", "*") =>
                 Body(t)[q] = IF Body(t)[q + 2] = 0 THEN 0 ELSE Body(t)[Body(t)[q + 2]]
           /\ q <= Len(t) /\ ~ Pair(t, q, "*", "/") /\ ~ Pair(t, q, "/", "*") =>
                 Body(t)[q] = Body(t)[q + 1]
<1>1. Body(t)[q] = Step(t, Body(t), q)
  BY BodyIs
<1> QED
  BY <1>1, StepIs

LEMMA CommentBegins ==
    ASSUME NEW t \in Seq(STRING), NEW p \in Int, Pair(t, p, "/", "*")
    PROVE  Commented(t, p, 1, p + 2)
<1> DEFINE b == Body(t)[p + 2]
           r == [k \in 1..2 |-> IF k = 1 THEN p + 2 ELSE b]
<1>1. p + 2 \in 1..Len(t) + 1 /\ Len(t) \in Nat
  <2>1. p \in 1..Len(t) /\ p + 1 \in 1..Len(t)
    BY PairIs
  <2> QED
    BY <2>1
<1>2. b \in 0..Len(t) + 1
  BY <1>1, BodyRange
<1>3. b = Reader!CommentEnd(t, p)
  BY CommentEndIs
<1> HIDE DEF b
<1>4. /\ r \in [1..2 -> 0..Len(t) + 1]
      /\ r[1] = p + 2 /\ r[2] = b /\ p + 2 # 0
  BY <1>1, <1>2
<1> HIDE DEF r
<1>5. \A k \in 1..1 : r[k + 1] = IF r[k] = 0 THEN 0 ELSE Body(t)[r[k]]
  BY <1>4 DEF b
<1>6. 1 + 1 = 2
  OBVIOUS
<1> QED
  BY <1>3, <1>4, <1>5, <1>6 DEF Commented

(* A character that begins no pair is passed over. *)
LEMMA CommentPlain ==
    ASSUME NEW t \in Seq(STRING), NEW p, NEW d \in Nat, d > 0, NEW j \in 1..Len(t),
           Commented(t, p, d, j), ~ Pair(t, j, "*", "/"), ~ Pair(t, j, "/", "*")
    PROVE  Commented(t, p, d, j + 1)
<1>1. PICK r \in [1..d + 1 -> 0..Len(t) + 1] :
        /\ r[1] = j
        /\ \A k \in 1..d : r[k + 1] = IF r[k] = 0 THEN 0 ELSE Body(t)[r[k]]
        /\ r[d + 1] = Reader!CommentEnd(t, p)
  BY DEF Commented
<1> DEFINE s == [k \in 1..d + 1 |-> IF k = 1 THEN j + 1 ELSE r[k]]
<1>2. Body(t)[j] = Body(t)[j + 1]
  <2>1. j \in 1..Len(t) + 1 /\ j <= Len(t)
    OBVIOUS
  <2> QED
    BY <2>1, BodyStep
<1>3. j + 1 \in 0..Len(t) + 1 /\ j # 0 /\ j + 1 # 0
  OBVIOUS
<1>4. /\ s \in [1..d + 1 -> 0..Len(t) + 1]
      /\ s[1] = j + 1 /\ \A k \in 1..d : s[k + 1] = r[k + 1]
      /\ \A k \in 2..d + 1 : s[k] = r[k]
  BY <1>3
<1> HIDE DEF s
<1>5. ASSUME NEW k \in 1..d
      PROVE  s[k + 1] = IF s[k] = 0 THEN 0 ELSE Body(t)[s[k]]
  <2>1. r[k + 1] = IF r[k] = 0 THEN 0 ELSE Body(t)[r[k]]
    BY <1>1
  <2>2. CASE k = 1
    BY <1>1, <1>2, <1>3, <1>4, <2>1, <2>2
  <2>3. CASE k # 1
    <3>1. k \in 2..d + 1
      BY <2>3
    <3> QED
      BY <1>4, <2>1, <3>1
  <2> QED
    BY <2>2, <2>3
<1>6. s[d + 1] = r[d + 1]
  <2>1. d \in 1..d
    OBVIOUS
  <2> QED
    BY <1>4, <2>1
<1> QED
  BY <1>1, <1>4, <1>5, <1>6 DEF Commented

(* A comment that opens inside ends where the recursion looks on. *)
LEMMA CommentDeeper ==
    ASSUME NEW t \in Seq(STRING), NEW p, NEW d \in Nat, d > 0, NEW j \in 1..Len(t),
           Commented(t, p, d, j), Pair(t, j, "/", "*")
    PROVE  Commented(t, p, d + 1, j + 2)
<1>1. PICK r \in [1..d + 1 -> 0..Len(t) + 1] :
        /\ r[1] = j
        /\ \A k \in 1..d : r[k + 1] = IF r[k] = 0 THEN 0 ELSE Body(t)[r[k]]
        /\ r[d + 1] = Reader!CommentEnd(t, p)
  BY DEF Commented
<1> DEFINE b == Body(t)[j + 2]
           n == d + 1
           s == [k \in 1..n + 1 |-> IF k = 1 THEN j + 2 ELSE IF k = 2 THEN b ELSE r[k - 1]]
<1>2. j + 2 \in 1..Len(t) + 1
  <2>1. j + 1 \in 1..Len(t)
    BY PairIs
  <2> QED
    BY <2>1
<1>3. b \in 0..Len(t) + 1
  BY <1>2, BodyRange
<1>4. Body(t)[j] = IF b = 0 THEN 0 ELSE Body(t)[b]
  <2>1. j \in 1..Len(t) + 1
    OBVIOUS
  <2> QED
    BY <2>1, BodyStep
<1>5. r[2] = Body(t)[j]
  <2>1. 1 \in 1..d /\ 1 + 1 = 2 /\ j # 0
    OBVIOUS
  <2>2. r[1 + 1] = IF r[1] = 0 THEN 0 ELSE Body(t)[r[1]]
    BY <1>1, <2>1
  <2> QED
    BY <1>1, <2>1, <2>2
<1>b. b = Body(t)[j + 2]
  OBVIOUS
<1> HIDE DEF b
<1>6. /\ s \in [1..n + 1 -> 0..Len(t) + 1]
      /\ s[1] = j + 2 /\ s[2] = b
      /\ \A k \in 2..d + 1 : s[k + 1] = r[k]
  <2>1. ASSUME NEW k \in 1..n + 1 PROVE s[k] \in 0..Len(t) + 1
    <3>1. CASE k = 1
      BY <1>2, <3>1
    <3>2. CASE k = 2
      BY <1>3, <3>2
    <3>3. CASE k # 1 /\ k # 2
      <4>1. k - 1 \in 1..d + 1
        BY <3>3
      <4>2. r[k - 1] \in 0..Len(t) + 1
        BY <4>1
      <4> QED
        BY <3>3, <4>2
    <3> QED
      BY <3>1, <3>2, <3>3
  <2>2. s[1] = j + 2 /\ s[2] = b
    OBVIOUS
  <2>3. ASSUME NEW k \in 2..d + 1 PROVE s[k + 1] = r[k]
    <3>1. k + 1 \in 1..n + 1 /\ k + 1 # 1 /\ k + 1 # 2 /\ (k + 1) - 1 = k
      OBVIOUS
    <3> QED
      BY <3>1
  <2> QED
    BY <2>1, <2>2, <2>3
<1> HIDE DEF s
<1>7. ASSUME NEW k \in 1..n
      PROVE  s[k + 1] = IF s[k] = 0 THEN 0 ELSE Body(t)[s[k]]
  <2>1. CASE k = 1
    BY <1>2, <1>6, <1>b, <2>1, SMTT(30)
  <2>2. CASE k = 2
    <3>1. 2 \in 2..d + 1
      OBVIOUS
    <3>2. s[2 + 1] = r[2]
      BY <1>6, <3>1
    <3> QED
      BY <1>4, <1>5, <1>6, <2>2, <3>2
  <2>3. CASE k # 1 /\ k # 2
    <3>1. k - 1 \in 1..d /\ k - 1 \in 2..d + 1 /\ k \in 2..d + 1 /\ (k - 1) + 1 = k
      BY <2>3
    <3>2. s[k + 1] = r[k] /\ s[(k - 1) + 1] = r[k - 1]
      BY <1>6, <3>1
    <3>3. r[(k - 1) + 1] = IF r[k - 1] = 0 THEN 0 ELSE Body(t)[r[k - 1]]
      BY <1>1, <3>1
    <3> QED
      BY <3>1, <3>2, <3>3
  <2> QED
    BY <2>1, <2>2, <2>3
<1>8. s[n + 1] = r[d + 1]
  <2>1. d + 1 \in 2..d + 1
    OBVIOUS
  <2> QED
    BY <1>6, <2>1
<1> QED
  BY <1>1, <1>6, <1>7, <1>8 DEF Commented

(* The mark that closes the outermost ends it; another closes one level. *)
LEMMA CommentCloses ==
    ASSUME NEW t \in Seq(STRING), NEW p, NEW d \in Nat, d > 0, NEW j \in 1..Len(t),
           Commented(t, p, d, j), Pair(t, j, "*", "/")
    PROVE  /\ d = 1 => Reader!CommentEnd(t, p) = j + 2
           /\ d # 1 => Commented(t, p, d - 1, j + 2)
<1>1. PICK r \in [1..d + 1 -> 0..Len(t) + 1] :
        /\ r[1] = j
        /\ \A k \in 1..d : r[k + 1] = IF r[k] = 0 THEN 0 ELSE Body(t)[r[k]]
        /\ r[d + 1] = Reader!CommentEnd(t, p)
  BY DEF Commented
<1>2. r[2] = j + 2
  <2>1. 1 \in 1..d /\ 1 + 1 = 2 /\ j # 0 /\ j \in 1..Len(t) + 1
    OBVIOUS
  <2>2. r[1 + 1] = IF r[1] = 0 THEN 0 ELSE Body(t)[r[1]]
    BY <1>1, <2>1
  <2>3. Body(t)[j] = j + 2
    BY <2>1, BodyStep
  <2> QED
    BY <1>1, <2>1, <2>2, <2>3
<1>3. d = 1 => Reader!CommentEnd(t, p) = j + 2
  BY <1>1, <1>2
<1>4. ASSUME d # 1 PROVE Commented(t, p, d - 1, j + 2)
  <2> DEFINE n == d - 1
             s == [k \in 1..n + 1 |-> r[k + 1]]
  <2>1. n \in Nat /\ n > 0 /\ n + 1 = d
    BY <1>4
  <2>2. \A k \in 1..n + 1 : k + 1 \in 1..d + 1 /\ k \in 1..d
    BY <2>1
  <2>3. s \in [1..n + 1 -> 0..Len(t) + 1]
    BY <2>2
  <2>4. s[1] = j + 2 /\ s[n + 1] = r[d + 1]
    <3>1. 1 \in 1..n + 1 /\ n + 1 \in 1..n + 1 /\ 1 + 1 = 2
      BY <2>1
    <3> QED
      BY <1>2, <2>1, <3>1
  <2>5. ASSUME NEW k \in 1..n PROVE s[k + 1] = IF s[k] = 0 THEN 0 ELSE Body(t)[s[k]]
    <3>1. k \in 1..n + 1 /\ k + 1 \in 1..n + 1 /\ k + 1 \in 1..d
      BY <2>1
    <3>2. r[(k + 1) + 1] = IF r[k + 1] = 0 THEN 0 ELSE Body(t)[r[k + 1]]
      BY <1>1, <3>1
    <3> QED
      BY <3>1, <3>2
  <2> HIDE DEF s
  <2>6. Commented(t, p, n, j + 2)
    BY <1>1, <2>3, <2>4, <2>5 DEF Commented
  <2> QED
    BY <2>6
<1> QED
  BY <1>3, <1>4

(* At the end of the file an open comment ends nowhere. *)
LEMMA CommentOpen ==
    ASSUME NEW t \in Seq(STRING), NEW p, NEW d \in Nat, d > 0, NEW j,
           j = Len(t) + 1, Commented(t, p, d, j)
    PROVE  Reader!CommentEnd(t, p) = 0
<1>1. PICK r \in [1..d + 1 -> 0..Len(t) + 1] :
        /\ r[1] = j
        /\ \A k \in 1..d : r[k + 1] = IF r[k] = 0 THEN 0 ELSE Body(t)[r[k]]
        /\ r[d + 1] = Reader!CommentEnd(t, p)
  BY DEF Commented
<1>2. Body(t)[j] = 0
  <2>1. j \in 1..Len(t) + 1 /\ j > Len(t)
    OBVIOUS
  <2> QED
    BY <2>1, BodyStep
<1> DEFINE D == {k \in 2..d + 1 : r[k] # 0}
<1>3. CASE D = {}
  <2>1. d + 1 \in 2..d + 1
    OBVIOUS
  <2> QED
    BY <1>1, <1>3, <2>1
<1>4. CASE D # {}
  <2>1. D \subseteq Nat
    OBVIOUS
  <2>2. PICK k \in D : \A m \in D : k <= m
    <3> HIDE DEF D
    <3> QED
      BY <1>4, <2>1, LeastExists
  <2>3. k \in 2..d + 1 /\ r[k] # 0
    OBVIOUS
  <2>4. k - 1 \in 1..d /\ (k - 1) + 1 = k /\ ~ (k <= k - 1)
    BY <2>3
  <2>5. k - 1 \notin D
    <3> HIDE DEF D
    <3> QED
      BY <2>2, <2>4
  <2>6. r[k] = IF r[k - 1] = 0 THEN 0 ELSE Body(t)[r[k - 1]]
    BY <1>1, <2>4
  <2>7. CASE k = 2
    BY <1>1, <1>2, <2>3, <2>6, <2>7
  <2>8. CASE k # 2
    <3>1. k - 1 \in 2..d + 1
      BY <2>3, <2>8
    <3>2. r[k - 1] = 0
      BY <2>5, <3>1
    <3> QED
      BY <2>3, <2>6, <3>2
  <2> QED
    BY <2>7, <2>8
<1> QED
  BY <1>3, <1>4

(***************************************************************************)
(* Inside a dollar quote                                                   *)
(***************************************************************************)

LEMMA DollarIsNoIdent == "$" \notin IdentChar /\ "$" \notin Digit
  BY CharacterAssumption DEF Special, IdentChar

(* read_dollar_tag finds the tag that ends at TagEnd. *)
LEMMA TagEndIs ==
    ASSUME text \in Seq(STRING), NEW p \in 1..Len(text)
    PROVE  /\ ReadDollarTag(p) = {} => Reader!TagEnd(text, p) = 0
           /\ \A t \in ReadDollarTag(p) : Reader!TagEnd(text, p) = p + Len(t) + 1
<1> DEFINE ends == {q \in p + 1..Len(text) : text[q] = "$"}
           ident(q) == \A r \in p + 1..q - 1 : text[r] \in IdentChar
           T == {q \in p + 1..Len(text) :
                    text[q] = "$" /\ At(text, p + 1) \notin Digit /\ ident(q)}
           least == CHOOSE q \in ends : \A r \in ends : q <= r
           t == SubSeq(text, p + 1, least - 1)
<1>1. Reader!TagEnd(text, p) = Reader!LeastOrZero(T)
  BY SameText, Zenon DEF Reader!TagEnd
<1>2. ReadDollarTag(p) =
        IF ends = {} THEN {}
        ELSE IF IsIdent(t) /\ (t = <<>> \/ t[1] \notin Digit) THEN {t} ELSE {}
  BY DEF ReadDollarTag
<1>3. CASE ends = {}
  <2>1. T = {} /\ ReadDollarTag(p) = {}
    BY <1>2, <1>3
  <2> QED
    BY <1>1, <2>1, LeastOrZeroNone
<1>4. CASE ends # {}
  <2>1. least \in ends /\ \A r \in ends : least <= r
    <3>1. ends \subseteq Nat
      OBVIOUS
    <3> HIDE DEF ends
    <3>2. \E q \in ends : \A r \in ends : q <= r
      BY <1>4, <3>1, LeastExists
    <3> QED
      BY <3>2
  <2> HIDE DEF least
  <2>2. least \in p + 1..Len(text) /\ text[least] = "$" /\ least \in Nat
    BY <2>1
  <2>3. \A x \in T : x = least
    <3> SUFFICES ASSUME NEW x \in T, x # least PROVE FALSE
      OBVIOUS
    <3>1. x \in ends /\ ident(x)
      OBVIOUS
    <3>2. least \in p + 1..x - 1
      BY <2>1, <2>2, <3>1
    <3> QED
      BY <2>2, <3>1, <3>2, DollarIsNoIdent
  <2>4. /\ t \in Seq(STRING) /\ Len(t) = least - p - 1
        /\ \A k \in 1..Len(t) : t[k] = text[p + k]
    <3>1. SubSeq(text, p + 1, least - 1) \in Seq(STRING)
      BY <2>2
    <3> QED
      BY <2>2, <3>1
  <2> HIDE DEF t
  <2>5. IsIdent(t) <=> ident(least)
    <3>1. ASSUME IsIdent(t), NEW r \in p + 1..least - 1 PROVE text[r] \in IdentChar
      <4>1. r - p \in 1..Len(t) /\ p + (r - p) = r
        BY <2>2, <2>4
      <4>2. t[r - p] \in IdentChar
        BY <2>4, <3>1, <4>1 DEF IsIdent
      <4> QED
        BY <2>4, <4>1, <4>2
    <3>2. ASSUME ident(least), NEW k \in 1..Len(t) PROVE t[k] \in IdentChar
      <4>1. p + k \in p + 1..least - 1
        BY <2>2, <2>4
      <4> QED
        BY <2>4, <3>2, <4>1
    <3>3. DOMAIN t = 1..Len(t)
      BY <2>4
    <3> QED
      BY <3>1, <3>2, <3>3 DEF IsIdent
  <2>6. t = <<>> \/ t[1] \notin Digit <=> At(text, p + 1) \notin Digit
    <3>1. p + 1 \in 1..Len(text)
      BY <2>2
    <3>2. At(text, p + 1) = text[p + 1]
      BY <3>1, Zenon DEF At
    <3>3. CASE least = p + 1
      <4>1. Len(t) = 0 /\ text[p + 1] = "$"
        BY <2>2, <2>4, <3>3
      <4>2. t = <<>>
        BY <2>4, <4>1
      <4>3. At(text, p + 1) \notin Digit
        BY <3>2, <4>1, DollarIsNoIdent, Zenon
      <4> QED
        BY <4>2, <4>3
    <3>4. CASE least # p + 1
      <4>1. 1 \in 1..Len(t)
        BY <2>2, <2>4, <3>4
      <4>2. t[1] = text[p + 1] /\ t # <<>>
        BY <2>4, <4>1
      <4> QED
        BY <3>2, <4>2, Zenon
    <3> QED
      BY <3>3, <3>4
  <2>7. IsIdent(t) /\ (t = <<>> \/ t[1] \notin Digit) <=> least \in T
    BY <2>2, <2>5, <2>6, Zenon
  <2>8. CASE least \in T
    <3>1. ReadDollarTag(p) = {t}
      BY <1>2, <1>4, <2>7, <2>8
    <3>2. T \subseteq Nat /\ \A r \in T : least <= r
      BY <2>2, <2>3
    <3> HIDE DEF T
    <3>3. Reader!LeastOrZero(T) = least
      BY <2>8, <3>2, LeastOrZeroIs
    <3>4. p + Len(t) + 1 = least
      BY <2>2, <2>4
    <3> QED
      BY <1>1, <3>1, <3>3, <3>4
  <2>9. CASE least \notin T
    <3>1. ReadDollarTag(p) = {} /\ T = {}
      <4> HIDE DEF T
      <4> QED
        BY <1>2, <1>4, <2>3, <2>7, <2>9
    <3> QED
      BY <1>1, <3>1, LeastOrZeroNone
  <2> QED
    BY <2>8, <2>9
<1> QED
  BY <1>3, <1>4

(* `tag` opens a dollar quote at `p`. *)
Tagged(t, p, tag) ==
    /\ p \in 1..Len(t) /\ t[p] = "$"
    /\ tag \in Seq(STRING) /\ \A k \in 1..Len(tag) : tag[k] = t[p + k]
    /\ p + Len(tag) + 1 \in 1..Len(t) /\ t[p + Len(tag) + 1] = "$"
    /\ Reader!TagEnd(t, p) = p + Len(tag) + 1

LEMMA TagIs ==
    ASSUME text \in Seq(STRING), NEW p \in 1..Len(text), text[p] = "$",
           NEW tag \in ReadDollarTag(p)
    PROVE  Tagged(text, p, tag)
<1>1. PICK q \in p + 1..Len(text) :
              /\ text[q] = "$"
              /\ tag = SubSeq(text, p + 1, q - 1)
              /\ Len(tag) = q - p - 1
  BY DollarTagIs
<1>2. tag \in Seq(STRING) /\ \A k \in 1..Len(tag) : tag[k] = text[p + k]
  <2>1. SubSeq(text, p + 1, q - 1) \in Seq(STRING)
    BY <1>1
  <2> QED
    BY <1>1, <2>1
<1>3. q = p + Len(tag) + 1 /\ q \in 1..Len(text)
  BY <1>1, <1>2
<1>4. Reader!TagEnd(text, p) = p + Len(tag) + 1
  BY TagEndIs
<1> QED
  BY <1>1, <1>2, <1>3, <1>4, Zenon DEF Tagged

(* Where a tag of `n` characters, opened at `p`, occurs again. *)
Matches(t, p, n) ==
    {q \in p + n..Len(t) - n + 1 : \A d \in 0..n - 1 : t[q + d] = t[p + d]}

DollarQuoted(t, p, n, j) == p + n <= j /\ \A q \in Matches(t, p, n) : j <= q

LEMMA DollarEndIs ==
    ASSUME NEW t, NEW p \in Nat, NEW n \in Nat, Reader!TagEnd(t, p) = p + n - 1
    PROVE  Reader!DollarEnd(t, p)
              = IF Reader!LeastOrZero(Matches(t, p, n)) = 0 THEN 0
                ELSE Reader!LeastOrZero(Matches(t, p, n)) + n
<1>1. Reader!TagEnd(t, p) - p + 1 = n
  OBVIOUS
<1> QED
  BY <1>1, Zenon DEF Reader!DollarEnd, Matches

LEMMA DollarSteps ==
    ASSUME NEW t, NEW p \in Nat, NEW n \in Nat, n > 0, Len(t) \in Nat, NEW j \in Nat,
           Reader!TagEnd(t, p) = p + n - 1
    PROVE  /\ DollarQuoted(t, p, n, p + n)
           /\ DollarQuoted(t, p, n, j) /\ j \notin Matches(t, p, n)
                 => DollarQuoted(t, p, n, j + 1)
           /\ DollarQuoted(t, p, n, j) /\ j \in Matches(t, p, n)
                 => Reader!DollarEnd(t, p) = j + n
           /\ DollarQuoted(t, p, n, j) /\ j > Len(t) => Reader!DollarEnd(t, p) = 0
<1> DEFINE M == Matches(t, p, n)
<1>1. M \subseteq p + n..Len(t) - n + 1 /\ M \subseteq Nat
  BY DEF Matches
<1>2. \A q \in M : q \in Nat /\ p + n <= q /\ q <= Len(t) - n + 1
  BY <1>1
<1>3. Reader!DollarEnd(t, p)
        = IF Reader!LeastOrZero(M) = 0 THEN 0 ELSE Reader!LeastOrZero(M) + n
  BY DollarEndIs
<1> HIDE DEF M
<1>4. DollarQuoted(t, p, n, p + n)
  BY <1>2 DEF DollarQuoted, M
<1>5. ASSUME DollarQuoted(t, p, n, j), j \notin M PROVE DollarQuoted(t, p, n, j + 1)
  <2>1. p + n <= j /\ \A q \in M : j <= q /\ q # j
    BY <1>5 DEF DollarQuoted, M
  <2>2. p + n <= j + 1 /\ \A q \in M : j + 1 <= q
    BY <1>2, <2>1
  <2> QED
    BY <2>2 DEF DollarQuoted, M
<1>6. ASSUME DollarQuoted(t, p, n, j), j \in M PROVE Reader!DollarEnd(t, p) = j + n
  <2>1. j # 0 /\ \A q \in M : j <= q
    BY <1>6 DEF DollarQuoted, M
  <2>2. Reader!LeastOrZero(M) = j
    BY <1>1, <1>6, <2>1, LeastOrZeroIs
  <2> QED
    BY <1>3, <2>1, <2>2
<1>7. ASSUME DollarQuoted(t, p, n, j), j > Len(t) PROVE Reader!DollarEnd(t, p) = 0
  <2>1. \A q \in M : j <= q
    BY <1>7 DEF DollarQuoted, M
  <2>2. M = {}
    BY <1>2, <1>7, <2>1
  <2> QED
    BY <1>3, <2>2, LeastOrZeroNone
<1> QED
  BY <1>4, <1>5, <1>6, <1>7 DEF M

Closer(tag) == <<"$">> \o tag \o <<"$">>

LEMMA CloserParts ==
    ASSUME NEW S, "$" \in S, NEW tag \in Seq(S)
    PROVE  LET closer == <<"$">> \o tag \o <<"$">>
           IN  /\ closer \in Seq(S) /\ Len(closer) = Len(tag) + 2
               /\ closer[1] = "$" /\ closer[Len(tag) + 2] = "$"
               /\ \A k \in 2..Len(tag) + 1 : closer[k] = tag[k - 1]
<1> DEFINE head == <<"$">> \o tag
           closer == head \o <<"$">>
<1>1. <<"$">> \in Seq(S) /\ Len(<<"$">>) = 1 /\ <<"$">>[1] = "$" /\ Len(tag) \in Nat
  OBVIOUS
<1>2. /\ head \in Seq(S) /\ Len(head) = 1 + Len(tag)
      /\ head[1] = "$" /\ \A k \in 2..Len(tag) + 1 : head[k] = tag[k - 1]
  BY <1>1, ConcatProperties
<1> HIDE DEF head
<1>3. /\ closer \in Seq(S) /\ Len(closer) = Len(tag) + 2
      /\ closer[Len(tag) + 2] = "$"
      /\ \A k \in 1..Len(tag) + 1 : closer[k] = head[k]
  BY <1>1, <1>2, ConcatProperties
<1> HIDE DEF closer
<1>4. closer[1] = "$" /\ \A k \in 2..Len(tag) + 1 : closer[k] = tag[k - 1]
  BY <1>1, <1>2, <1>3
<1> QED
  BY <1>3, <1>4, Zenon DEF closer, head

(* The closer the scanner compares with is the tag as it was opened. *)
LEMMA CloserIs ==
    ASSUME NEW t \in Seq(STRING), NEW p \in Nat, NEW tag \in Seq(STRING), Tagged(t, p, tag),
           NEW j \in Nat, p + Len(tag) + 2 <= j
    PROVE  /\ Len(Closer(tag)) = Len(tag) + 2
           /\ (\A k \in DOMAIN Closer(tag) : At(t, j + k - 1) = Closer(tag)[k])
                 <=> j \in Matches(t, p, Len(tag) + 2)
<1> DEFINE closer == <<"$">> \o tag \o <<"$">>
           n == Len(tag) + 2
           q == p + Len(tag) + 1
<1>1. p \in 1..Len(t) /\ t[p] = "$" /\ q \in 1..Len(t) /\ t[q] = "$"
  BY DEF Tagged
<1>2. tag \in Seq(STRING) /\ \A k \in 1..Len(tag) : tag[k] = t[p + k]
  BY DEF Tagged
<1>3. /\ closer \in Seq(STRING) /\ Len(closer) = n
      /\ closer[1] = "$" /\ closer[n] = "$"
      /\ \A k \in 2..n - 1 : closer[k] = tag[k - 1]
  <2>1. n - 1 = Len(tag) + 1
    OBVIOUS
  <2>2. "$" \in STRING
    BY <1>1
  <2> QED
    BY <2>1, <2>2, CloserParts, Zenon
<1>4. n \in Nat /\ n >= 2 /\ DOMAIN closer = 1..n /\ q = p + n - 1 /\ p \in Nat /\ Len(t) \in Nat
  <2>1. Len(tag) \in Nat /\ p \in Nat /\ Len(t) \in Nat
    BY <1>1, <1>2
  <2>2. DOMAIN closer = 1..n
    BY <1>3
  <2> QED
    BY <2>1, <2>2
<1>9. Len(closer) = Len(tag) + 2
  BY <1>3
<1> HIDE DEF closer
<1>5. \A k \in 1..n : closer[k] = t[p + (k - 1)]
  <2> SUFFICES ASSUME NEW k \in 1..n PROVE closer[k] = t[p + (k - 1)]
    OBVIOUS
  <2>1. CASE k = 1
    BY <1>1, <1>3, <2>1
  <2>2. CASE k = n
    <3>1. p + (k - 1) = q
      BY <1>4, <2>2
    <3> QED
      BY <1>1, <1>3, <2>2, <3>1
  <2>3. CASE k # 1 /\ k # n
    <3>1. k \in 2..n - 1 /\ k - 1 \in 1..Len(tag)
      BY <1>4, <2>3
    <3> QED
      BY <1>2, <1>3, <3>1
  <2> QED
    BY <2>1, <2>2, <2>3
<1>6. ASSUME \A k \in 1..n : At(t, j + k - 1) = closer[k]
      PROVE  j \in Matches(t, p, n)
  <2>1. j + n - 1 \in 1..Len(t)
    <3>1. n \in 1..n
      BY <1>4
    <3>2. At(t, j + n - 1) = "$"
      BY <1>3, <1>6, <3>1, Zenon
    <3> QED
      BY <3>2, MarksAreCharacters, AtInside, Zenon
  <2>2. ASSUME NEW d \in 0..n - 1 PROVE t[j + d] = t[p + d]
    <3>1. d + 1 \in 1..n /\ j + (d + 1) - 1 = j + d /\ (d + 1) - 1 = d /\ j + d \in 1..Len(t)
      BY <1>4, <2>1
    <3>2. At(t, j + (d + 1) - 1) = closer[d + 1] /\ closer[d + 1] = t[p + ((d + 1) - 1)]
      BY <1>5, <1>6, <3>1, Zenon
    <3>3. At(t, j + d) = t[p + d]
      BY <3>1, <3>2, Zenon
    <3> QED
      BY <3>1, <3>3, Zenon DEF At
  <2> QED
    BY <1>4, <2>1, <2>2 DEF Matches
<1>7. ASSUME j \in Matches(t, p, n), NEW k \in 1..n
      PROVE  At(t, j + k - 1) = closer[k]
  <2>1. j <= Len(t) - n + 1 /\ \A d \in 0..n - 1 : t[j + d] = t[p + d]
    BY <1>7 DEF Matches
  <2>2. k - 1 \in 0..n - 1 /\ j + k - 1 = j + (k - 1) /\ j + (k - 1) \in 1..Len(t)
    BY <1>4, <2>1
  <2>3. t[j + (k - 1)] = t[p + (k - 1)]
    BY <2>1, <2>2
  <2>4. At(t, j + (k - 1)) = t[j + (k - 1)]
    BY <2>2, Zenon DEF At
  <2> QED
    BY <1>5, <2>2, <2>3, <2>4, Zenon
<1>8. (\A k \in DOMAIN closer : At(t, j + k - 1) = closer[k]) <=> j \in Matches(t, p, n)
  BY <1>4, <1>6, <1>7, Zenon
<1> QED
  BY <1>8, <1>9, Zenon DEF closer, Closer

(* Inside a dollar quote a character stays inside, unless the quote ends. *)
LEMMA DollarNext ==
    ASSUME NEW t \in Seq(STRING), NEW p \in Nat, NEW tag \in Seq(STRING), Tagged(t, p, tag),
           NEW j \in Nat, DollarQuoted(t, p, Len(tag) + 2, j)
    PROVE  /\ Len(Closer(tag)) = Len(tag) + 2
           /\ IF \A k \in DOMAIN Closer(tag) : At(t, j + k - 1) = Closer(tag)[k]
              THEN Reader!DollarEnd(t, p) = j + (Len(tag) + 2) /\ j + (Len(tag) + 2) # 0
              ELSE DollarQuoted(t, p, Len(tag) + 2, j + 1)
           /\ j > Len(t) => Reader!DollarEnd(t, p) = 0
<1> DEFINE n == Len(tag) + 2
           closes == \A k \in DOMAIN Closer(tag) : At(t, j + k - 1) = Closer(tag)[k]
<1>1. /\ Len(tag) \in Nat /\ Len(t) \in Nat
      /\ Reader!TagEnd(t, p) = p + Len(tag) + 1
  BY DEF Tagged
<1>2. n \in Nat /\ n > 0 /\ Reader!TagEnd(t, p) = p + n - 1 /\ n = Len(tag) + 2
  BY <1>1
<1>3. p + Len(tag) + 2 <= j
  BY <1>1 DEF DollarQuoted
<1>4. Len(Closer(tag)) = n /\ (closes <=> j \in Matches(t, p, n))
  BY <1>3, CloserIs, Zenon
<1> HIDE DEF n, closes
<1>5. /\ DollarQuoted(t, p, n, j) /\ j \notin Matches(t, p, n) => DollarQuoted(t, p, n, j + 1)
      /\ DollarQuoted(t, p, n, j) /\ j \in Matches(t, p, n) => Reader!DollarEnd(t, p) = j + n
      /\ DollarQuoted(t, p, n, j) /\ j > Len(t) => Reader!DollarEnd(t, p) = 0
  BY <1>1, <1>2, DollarSteps
<1>6. DollarQuoted(t, p, n, j) /\ j + n # 0
  BY <1>2
<1> QED
  BY <1>2, <1>4, <1>5, <1>6, Zenon DEF closes, n

(***************************************************************************)
(* What begins where                                                       *)
(***************************************************************************)

LEMMA KindIs ==
    ASSUME NEW t \in Seq(STRING), NEW p \in 1..Len(t)
    PROVE  /\ t[p] = ";" => Reader!Kind(t, p) = "separator"
           /\ Pair(t, p, "-", "-") => Reader!Kind(t, p) = "line comment"
           /\ Pair(t, p, "/", "*") => Reader!Kind(t, p) = "block comment"
           /\ t[p] = Quote => Reader!Kind(t, p) = "string literal"
           /\ t[p] = DoubleQuoteMark => Reader!Kind(t, p) = "quoted identifier"
           /\ t[p] = "$" /\ Reader!TagEnd(t, p) # 0 => Reader!Kind(t, p) = "dollar quote"
           /\ /\ t[p] \notin {";", Quote, DoubleQuoteMark}
              /\ ~ Pair(t, p, "-", "-") /\ ~ Pair(t, p, "/", "*")
              /\ t[p] = "$" => Reader!TagEnd(t, p) = 0
              => Reader!Kind(t, p) = IF t[p] \in AsciiBlank THEN "blank" ELSE "code"
<1> DEFINE line == Pair(t, p, "-", "-")
           block == Pair(t, p, "/", "*")
           tagged == Reader!TagEnd(t, p) # 0
<1>1. Reader!Kind(t, p) =
        CASE t[p] = ";" -> "separator"
          [] line -> "line comment"
          [] block -> "block comment"
          [] t[p] = Quote -> "string literal"
          [] t[p] = DoubleQuoteMark -> "quoted identifier"
          [] t[p] = "$" /\ tagged -> "dollar quote"
          [] t[p] \in AsciiBlank -> "blank"
          [] OTHER -> "code"
  BY SameText DEF Reader!Kind
<1>2. (line => t[p] = "-") /\ (block => t[p] = "/")
  BY PairIs
<1>3. {";", "-", "/", Quote, DoubleQuoteMark, "$"} \cap AsciiBlank = {}
  BY CharacterAssumption DEF Special
<1>4. /\ Quote \notin {";", "-", "/", "$"} /\ DoubleQuoteMark \notin {";", "-", "/", "$"}
      /\ Quote # DoubleQuoteMark
  BY DEF Quote, DoubleQuoteMark
<1> HIDE DEF line, block, tagged
<1>5. /\ t[p] = ";" => Reader!Kind(t, p) = "separator"
      /\ line => Reader!Kind(t, p) = "line comment"
      /\ block => Reader!Kind(t, p) = "block comment"
      /\ t[p] = Quote => Reader!Kind(t, p) = "string literal"
      /\ t[p] = DoubleQuoteMark => Reader!Kind(t, p) = "quoted identifier"
      /\ t[p] = "$" /\ tagged => Reader!Kind(t, p) = "dollar quote"
  BY <1>1, <1>2, <1>3, <1>4
<1>6. ASSUME t[p] \notin {";", Quote, DoubleQuoteMark}, ~ line, ~ block, t[p] = "$" => ~ tagged
      PROVE  Reader!Kind(t, p) = IF t[p] \in AsciiBlank THEN "blank" ELSE "code"
  BY <1>1, <1>6
<1> QED
  BY <1>5, <1>6 DEF line, block, tagged

LEMMA ElementEndIs ==
    ASSUME NEW t, NEW p
    PROVE  /\ Reader!Kind(t, p) = "line comment"
                 => Reader!ElementEnd(t, p) = Reader!LineEnd(t, p)
           /\ Reader!Kind(t, p) = "block comment"
                 => Reader!ElementEnd(t, p) = Reader!CommentEnd(t, p)
           /\ Reader!Kind(t, p) = "string literal"
                 => Reader!ElementEnd(t, p)
                       = Reader!QuotedEnd(t, p, Reader!EscapeString(t, p))
           /\ Reader!Kind(t, p) = "quoted identifier"
                 => Reader!ElementEnd(t, p) = Reader!QuotedEnd(t, p, FALSE)
           /\ Reader!Kind(t, p) = "dollar quote"
                 => Reader!ElementEnd(t, p) = Reader!DollarEnd(t, p)
           /\ Reader!Kind(t, p) \in {"blank", "code"}
                 => Reader!ElementEnd(t, p) = p + 1
  BY DEF Reader!ElementEnd

(***************************************************************************)
(* The scanner is inside the element it is to be in                        *)
(***************************************************************************)

Element(t, p, kind) == p \in 1..Len(t) /\ Reader!Kind(t, p) = kind

LineAt(t, p, j) ==
    Element(t, p, "line comment") /\ p < j /\ \A q \in p..j - 1 : t[q] # Newline

BlockAt(t, p, d, j) == Element(t, p, "block comment") /\ Commented(t, p, d, j)

StringAt(t, p, e, j) ==
    /\ Element(t, p, "string literal") /\ t[p] = Quote
    /\ e <=> Reader!EscapeString(t, p)
    /\ Quoted(t, p, e, j)

NameAt(t, p, j) ==
    /\ Element(t, p, "quoted identifier") /\ t[p] = DoubleQuoteMark
    /\ Quoted(t, p, FALSE, j)

DollarAt(t, p, tag, j) ==
    /\ Element(t, p, "dollar quote") /\ Tagged(t, p, tag)
    /\ DollarQuoted(t, p, Len(tag) + 2, j)

(* A comment is no part of a chunk; anything else may be its first SQL. *)
InsideLine == state = LineComment /\ LineAt(text, from, i)

InsideBlock ==
    \E d \in Nat \ {0} : state = BlockComment(d) /\ BlockAt(text, from, d, i) /\ start < from

InsideString ==
    \E e \in BOOLEAN : state = SingleQuote(e) /\ StringAt(text, from, e, i) /\ start \in 1..from

InsideName == state = DoubleQuote /\ NameAt(text, from, i) /\ start \in 1..from

InsideDollar ==
    \E tag : state = DollarQuote(tag) /\ DollarAt(text, from, tag, i) /\ start \in 1..from

ElementInv ==
    state = Normal \/ InsideLine \/ InsideBlock \/ InsideString \/ InsideName \/ InsideDollar

LEMMA VariantsAre ==
    /\ Normal.kind = "Normal" /\ LineComment.kind = "LineComment"
    /\ DoubleQuote.kind = "DoubleQuote"
    /\ \A d : BlockComment(d).kind = "BlockComment" /\ BlockComment(d).depth = d
    /\ \A b : SingleQuote(b).kind = "SingleQuote" /\ SingleQuote(b).backslash_escapes = b
    /\ \A t : DollarQuote(t).kind = "DollarQuote" /\ DollarQuote(t).tag = t
  BY DEF Normal, LineComment, DoubleQuote, BlockComment, SingleQuote, DollarQuote, Variant

LEMMA InsideIs ==
    ASSUME ElementInv
    PROVE  /\ state.kind = "Normal" => state = Normal
           /\ state.kind = "LineComment" => InsideLine
           /\ state.kind = "BlockComment" => InsideBlock
           /\ state.kind = "SingleQuote" => InsideString
           /\ state.kind = "DoubleQuote" => InsideName
           /\ state.kind = "DollarQuote" => InsideDollar
<1>1. /\ state = Normal => state.kind = "Normal"
      /\ InsideLine => state.kind = "LineComment"
      /\ InsideBlock => state.kind = "BlockComment"
      /\ InsideString => state.kind = "SingleQuote"
      /\ InsideName => state.kind = "DoubleQuote"
      /\ InsideDollar => state.kind = "DollarQuote"
  BY VariantsAre, Zenon DEF InsideLine, InsideBlock, InsideString, InsideName, InsideDollar
<1> QED
  BY <1>1 DEF ElementInv

(* Where the reader is, by the kind of the scanner's state. *)
LEMMA ReaderIs ==
    /\ state.kind = "Normal" => ReadPos = i /\ ReadBegin = start
    /\ state.kind = "LineComment" => ReadPos = NextLine(text, from) /\ ReadBegin = start
    /\ InElement => ReadPos = from /\ ReadBegin = IF start = from THEN 0 ELSE start
  BY DEF ReadPos, ReadBegin, InElement

LEMMA ReaderNextIs ==
    /\ state'.kind = "Normal" => ReadPos' = i' /\ ReadBegin' = start'
    /\ state'.kind = "LineComment" => ReadPos' = NextLine(text', from') /\ ReadBegin' = start'
    /\ InElement' => ReadPos' = from' /\ ReadBegin' = IF start' = from' THEN 0 ELSE start'
  BY DEF ReadPos, ReadBegin, InElement

readVars == <<text, ReadPos, ReadBegin, out, result>>

LEMMA ReaderSkips ==
    ASSUME result = "none", ReadPos <= Len(text),
           Reader!Kind(text, ReadPos) \in {"blank", "line comment", "block comment"},
           Reader!ElementEnd(text, ReadPos) # 0,
           ReadPos' = Reader!ElementEnd(text, ReadPos), ReadBegin' = ReadBegin,
           UNCHANGED <<text, out, result>>
    PROVE  Reader!Next
  BY DEF Reader!Next, Reader!Skip, Reader!Reading

LEMMA ReaderTakes ==
    ASSUME result = "none", ReadPos <= Len(text),
           Reader!Kind(text, ReadPos)
              \in {"string literal", "quoted identifier", "dollar quote", "code"},
           Reader!ElementEnd(text, ReadPos) # 0,
           ReadPos' = Reader!ElementEnd(text, ReadPos),
           ReadBegin' = IF ReadBegin = 0 THEN ReadPos ELSE ReadBegin,
           UNCHANGED <<text, out, result>>
    PROVE  Reader!Next
  BY DEF Reader!Next, Reader!Take, Reader!Reading

(* What every step starts from. *)
LEMMA ScanFacts ==
    ASSUME TypeOK, ChunkInv
    PROVE  /\ text \in Seq(STRING) /\ Len(text) \in Nat
           /\ i \in Nat /\ i > 0 /\ start \in Nat /\ from \in Nat /\ from > 0
           /\ start < i
           /\ state.kind # "SingleQuote" => i <= Len(text) + 1
<1>1. /\ text \in Seq(STRING) /\ Len(text) \in Nat
      /\ i \in Nat /\ i > 0 /\ start \in Nat /\ from \in Nat /\ from > 0
  BY DEF TypeOK
<1>2. start < i
  <2>1. start # 0 => start \in 1..i - 1
    BY DEF ChunkInv
  <2> QED
    BY <1>1, <2>1
<1> QED
  BY <1>1, <1>2 DEF ChunkInv

(* Entering an element, and going on inside it, is no step of the reader... *)
LEMMA EnterReads ==
    ASSUME TypeOK, ChunkInv, state.kind = "Normal", InElement', from' = i,
           start' = start \/ (start = 0 /\ start' = i),
           UNCHANGED <<text, out, result>>
    PROVE  UNCHANGED readVars
<1>1. start # i /\ i # 0
  BY ScanFacts
<1>2. (IF start' = from' THEN 0 ELSE start') = start
  BY <1>1
<1>3. ReadPos = i /\ ReadBegin = start
  BY ReaderIs, Zenon
<1>4. ReadPos' = i /\ ReadBegin' = start
  BY <1>2, ReaderNextIs, Zenon
<1> QED
  BY <1>3, <1>4, Zenon DEF readVars

LEMMA StayReads ==
    ASSUME InElement, InElement', UNCHANGED <<from, start, text, out, result>>
    PROVE  UNCHANGED readVars
<1>1. ReadPos = from /\ ReadBegin = IF start = from THEN 0 ELSE start
  BY ReaderIs, Zenon
<1>2. ReadPos' = from /\ ReadBegin' = IF start = from THEN 0 ELSE start
  BY ReaderNextIs, Zenon
<1> QED
  BY <1>1, <1>2, Zenon DEF readVars

(* ...leaving it is. *)
LEMMA LeaveCommentReads ==
    ASSUME InElement, state'.kind = "Normal", result = "none", from <= Len(text),
           start # from, UNCHANGED <<start, text, out, result>>,
           Reader!Kind(text, from) = "block comment",
           Reader!ElementEnd(text, from) = i', i' # 0
    PROVE  Reader!Next
<1>1. ReadPos = from /\ ReadBegin = start
  BY ReaderIs, Zenon
<1>2. ReadPos' = i' /\ ReadBegin' = start
  BY ReaderNextIs, Zenon
<1>3. "block comment" \in {"blank", "line comment", "block comment"}
  OBVIOUS
<1> QED
  BY <1>1, <1>2, <1>3, ReaderSkips, Zenon

LEMMA LeaveQuoteReads ==
    ASSUME InElement, state'.kind = "Normal", result = "none", from <= Len(text),
           start # 0, UNCHANGED <<start, text, out, result>>,
           Reader!Kind(text, from) \in {"string literal", "quoted identifier", "dollar quote"},
           Reader!ElementEnd(text, from) = i', i' # 0
    PROVE  Reader!Next
<1>1. ReadPos = from /\ ReadBegin = IF start = from THEN 0 ELSE start
  BY ReaderIs, Zenon
<1>2. ReadPos' = i' /\ ReadBegin' = start
  BY ReaderNextIs, Zenon
<1>3. start = IF (IF start = from THEN 0 ELSE start) = 0 THEN from
              ELSE (IF start = from THEN 0 ELSE start)
  OBVIOUS
<1>4. ReadBegin' = IF ReadBegin = 0 THEN ReadPos ELSE ReadBegin
  BY <1>1, <1>2, <1>3, Zenon
<1>5. Reader!Kind(text, from) \in {"string literal", "quoted identifier", "dollar quote", "code"}
  BY Zenon
<1> QED
  BY <1>1, <1>2, <1>4, <1>5, ReaderTakes, Zenon

(***************************************************************************)
(* Each step of the scanner is a step of the reader, or none               *)
(***************************************************************************)

LEMMA SemicolonReads ==
    ASSUME TypeOK, ChunkInv, ElementInv, Semicolon
    PROVE  ElementInv' /\ [Reader!Next]_readVars
<1>1. result = "none" /\ i <= Len(text) /\ state.kind = "Normal" /\ text[i] = ";"
  <2>1. At(text, i) = ";" /\ At(text, i) # ""
    BY MarksAreCharacters, Zenon DEF Semicolon, c
  <2>2. text[i] = ";"
    BY <2>1, AtInside, Zenon
  <2> QED
    BY <2>2, Zenon DEF Semicolon, In
<1>2. state' = Normal /\ state'.kind = "Normal" /\ i' = i + 1 /\ start' = 0
  BY VariantsAre DEF Semicolon, Leave
<1>3. UNCHANGED <<text, result>> /\ Push(i)
  BY Zenon DEF Semicolon
<1>4. ReadPos = i /\ ReadBegin = start /\ ReadPos' = i + 1 /\ ReadBegin' = 0
  BY <1>1, <1>2, ReaderIs, ReaderNextIs, Zenon
<1>5. Reader!Kind(text, i) = "separator"
  <2>1. text \in Seq(STRING) /\ Len(text) \in Nat /\ i \in Nat /\ i > 0
    BY ScanFacts
  <2>2. i <= Len(text)
    BY <1>1, Zenon
  <2>3. i \in 1..Len(text)
    BY <2>1, <2>2
  <2> QED
    BY <1>1, <2>1, <2>3, KindIs, Zenon
<1>6. Reader!Flush(i)
  BY <1>3, <1>4, SameText, Zenon DEF Push, Reader!Flush
<1>7. Reader!Separate
  BY <1>1, <1>3, <1>4, <1>5, <1>6, Zenon DEF Reader!Separate, Reader!Reading
<1> QED
  BY <1>2, <1>7, Zenon DEF ElementInv, Reader!Next

LEMMA OpenCommentReads ==
    ASSUME TypeOK, ChunkInv, ElementInv, OpenComment
    PROVE  ElementInv' /\ [Reader!Next]_readVars
<1>0. /\ text \in Seq(STRING) /\ Len(text) \in Nat /\ i \in Nat /\ i > 0
      /\ start \in Nat /\ start < i
  BY ScanFacts
<1>1. result = "none" /\ state.kind = "Normal" /\ i \in 1..Len(text)
  BY <1>0 DEF OpenComment, In
<1>2. i' = i + 2 /\ start' = start /\ UNCHANGED <<text, out, result>>
  BY DEF OpenComment, Pass
<1>3. ReadPos = i /\ ReadBegin = start
  BY <1>1, ReaderIs, Zenon
<1>4. CASE Sees("-", "-") /\ Enter(LineComment)
  <2>1. Pair(text, i, "-", "-") /\ state' = LineComment /\ from' = i
    BY <1>4 DEF Sees, Enter
  <2>2. text[i] = "-" /\ text[i + 1] = "-"
    BY <1>0, <2>1, PairIs
  <2>3. Reader!Kind(text, i) = "line comment"
    BY <1>0, <1>1, <2>1, KindIs, Zenon
  <2>4. /\ ReadBegin' = start
        /\ ReadPos' = NextLine(text, i)
    BY <1>2, <2>1, VariantsAre, ReaderNextIs, Zenon
  <2>5. Reader!ElementEnd(text, i) = Reader!LineEnd(text, i)
    BY <2>3, ElementEndIs, Zenon
  <2>6. NextLine(text, i) = Reader!LineEnd(text, i) /\ Reader!LineEnd(text, i) # 0
    BY <1>0, NextLineIs, LineEndExists
  <2>7. Reader!Next
    <3>1. i <= Len(text)
      BY <1>0, <1>1
    <3> QED
      BY <3>1, <1>1, <1>2, <1>3, <2>3, <2>4, <2>5, <2>6, ReaderSkips, Zenon
  <2>8. LineAt(text, i, i + 2)
    <3>1. \A q \in i..(i + 2) - 1 : q = i \/ q = i + 1
      BY <1>0
    <3>2. "-" # Newline /\ i < i + 2
      BY <1>0 DEF Newline
    <3> QED
      BY <1>1, <2>2, <2>3, <3>1, <3>2, Zenon DEF LineAt, Element
  <2>9. InsideLine'
    BY <1>2, <2>1, <2>8, Zenon DEF InsideLine
  <2> QED
    BY <2>7, <2>9, Zenon DEF ElementInv
<1>5. CASE Sees("/", "*") /\ Enter(BlockComment(1))
  <2>1. Pair(text, i, "/", "*") /\ state' = BlockComment(1) /\ from' = i
    BY <1>5 DEF Sees, Enter
  <2>2. InElement'
    <3>1. state'.kind = "BlockComment"
      BY <2>1, VariantsAre, Zenon
    <3> QED
      BY <3>1 DEF InElement
  <2>3. UNCHANGED readVars
    <3>1. start' = start /\ from' = i /\ state.kind = "Normal"
      BY <1>1, <1>2, <2>1
    <3> QED
      BY <1>2, <2>2, <3>1, EnterReads
  <2>4. Reader!Kind(text, i) = "block comment"
    BY <1>0, <1>1, <2>1, KindIs, Zenon
  <2>5. Commented(text, i, 1, i + 2) /\ 1 \in Nat \ {0}
    BY <1>0, <2>1, CommentBegins
  <2>6. InsideBlock'
    BY <1>0, <1>1, <1>2, <2>1, <2>4, <2>5, Zenon DEF InsideBlock, BlockAt, Element
  <2> QED
    BY <2>3, <2>6, Zenon DEF ElementInv
<1> QED
  BY <1>4, <1>5, Zenon DEF OpenComment

(* Where a step that takes or passes a character is. *)
LEMMA ScanAt ==
    ASSUME TypeOK, ChunkInv, NEW kind, In(kind)
    PROVE  /\ result = "none" /\ state.kind = kind /\ i \in 1..Len(text) /\ i <= Len(text)
           /\ text \in Seq(STRING) /\ c = text[i] /\ At(text, i) = text[i]
<1>1. text \in Seq(STRING) /\ Len(text) \in Nat /\ i \in Nat /\ i > 0
  BY ScanFacts
<1>2. result = "none" /\ i <= Len(text) /\ state.kind = kind
  BY Zenon DEF In
<1>3. i <= Len(text)
  BY <1>2, Zenon
<1>4. i \in 1..Len(text)
  BY <1>1, <1>3
<1> QED
  BY <1>1, <1>2, <1>4, Zenon DEF c, At

LEMMA SameBoolean ==
    ASSUME NEW a \in BOOLEAN, NEW b \in BOOLEAN, a <=> b
    PROVE  a = b
  OBVIOUS

LEMMA EscapesAre ==
    ASSUME NEW p
    PROVE  /\ BackslashEscapes(p) \in BOOLEAN
           /\ BackslashEscapes(p) <=> Reader!EscapeString(text, p)
<1>1. BackslashEscapes(p) \in BOOLEAN
  BY DEF BackslashEscapes
<1> QED
  BY <1>1, SameText, Zenon DEF BackslashEscapes, Reader!EscapeString

(* Inside an element, the chunk has its first SQL already. *)
LEMMA TakesOn ==
    ASSUME NEW n, Take(n), start # 0
    PROVE  i' = i + n /\ start' = start
  BY DEF Take

LEMMA OpenQuoteReads ==
    ASSUME TypeOK, ChunkInv, ElementInv, OpenQuote
    PROVE  ElementInv' /\ [Reader!Next]_readVars
<1>0. /\ start \in Nat /\ start < i /\ i \in Nat
  BY ScanFacts
<1>1. /\ result = "none" /\ state.kind = "Normal" /\ i \in 1..Len(text)
      /\ text \in Seq(STRING) /\ c = text[i]
  BY ScanAt, Zenon DEF OpenQuote
<1>2. UNCHANGED <<text, out, result>>
  BY Zenon DEF OpenQuote
<1>3. /\ i' = i + 1
      /\ start' = start \/ (start = 0 /\ start' = i)
      /\ start' \in 1..i
  <2>1. i' = i + 1 /\ start' = IF start = 0 THEN i ELSE start
    BY Zenon DEF OpenQuote, Take
  <2> QED
    BY <1>0, <2>1
<1>4. ASSUME InElement', from' = i PROVE UNCHANGED readVars
  BY <1>1, <1>2, <1>3, <1>4, EnterReads, Zenon
<1>5. CASE c = Quote /\ Enter(SingleQuote(BackslashEscapes(i)))
  <2> DEFINE e == BackslashEscapes(i)
  <2>1. text[i] = Quote /\ state' = SingleQuote(e) /\ from' = i
    BY <1>1, <1>5, Zenon DEF Enter
  <2>2. e \in BOOLEAN /\ (e <=> Reader!EscapeString(text, i))
    BY EscapesAre, Zenon
  <2> HIDE DEF e
  <2>3. Reader!Kind(text, i) = "string literal"
    BY <1>1, <2>1, KindIs, Zenon
  <2>4. InElement'
    <3>1. state'.kind = "SingleQuote"
      BY <2>1, VariantsAre, Zenon
    <3> QED
      BY <3>1 DEF InElement
  <2>5. QuotedAssumption(text, i, e, i)
    BY <1>0, <1>1, <2>1, <2>2, Zenon DEF QuotedAssumption
  <2>6. Quoted(text, i, e, i + 1)
    BY <2>5, QuotedBegins, Zenon
  <2>7. StringAt(text, i, e, i + 1)
    BY <1>1, <2>1, <2>2, <2>3, <2>6, Zenon DEF StringAt, Element
  <2>8. InsideString'
    BY <1>2, <1>3, <2>1, <2>2, <2>7, Zenon DEF InsideString
  <2> QED
    BY <1>4, <2>1, <2>4, <2>8, Zenon DEF ElementInv
<1>6. CASE c = DoubleQuoteMark /\ Enter(DoubleQuote)
  <2>1. text[i] = DoubleQuoteMark /\ state' = DoubleQuote /\ from' = i
    BY <1>1, <1>6, Zenon DEF Enter
  <2>2. FALSE \in BOOLEAN
    OBVIOUS
  <2>3. Reader!Kind(text, i) = "quoted identifier"
    BY <1>1, <2>1, KindIs, Zenon
  <2>4. InElement'
    <3>1. state'.kind = "DoubleQuote"
      BY <2>1, VariantsAre, Zenon
    <3> QED
      BY <3>1 DEF InElement
  <2>5. QuotedAssumption(text, i, FALSE, i)
    BY <1>0, <1>1, <2>1, <2>2, Zenon DEF QuotedAssumption
  <2>6. Quoted(text, i, FALSE, i + 1)
    BY <2>5, QuotedBegins, Zenon
  <2>7. NameAt(text, i, i + 1)
    BY <1>1, <2>1, <2>3, <2>6, Zenon DEF NameAt, Element
  <2>8. InsideName'
    BY <1>2, <1>3, <2>1, <2>7, Zenon DEF InsideName
  <2> QED
    BY <1>4, <2>1, <2>4, <2>8, Zenon DEF ElementInv
<1> QED
  BY <1>5, <1>6, Zenon DEF OpenQuote

LEMMA OpenDollarQuoteReads ==
    ASSUME TypeOK, ChunkInv, ElementInv, OpenDollarQuote
    PROVE  ElementInv' /\ [Reader!Next]_readVars
<1>0. /\ start \in Nat /\ start < i /\ i \in Nat
  BY ScanFacts
<1>1. /\ result = "none" /\ state.kind = "Normal" /\ i \in 1..Len(text)
      /\ text \in Seq(STRING) /\ text[i] = "$"
  BY ScanAt, Zenon DEF OpenDollarQuote
<1>2. UNCHANGED <<text, out, result>>
  BY Zenon DEF OpenDollarQuote
<1>3. PICK t \in ReadDollarTag(i) : Enter(DollarQuote(t)) /\ Take(Len(t) + 2)
  BY Zenon DEF OpenDollarQuote
<1>4. /\ start' = start \/ (start = 0 /\ start' = i)
      /\ start' \in 1..i
  <2>1. start' = IF start = 0 THEN i ELSE start
    BY <1>3, Zenon DEF Take
  <2> QED
    BY <1>0, <2>1
<1>5. i' = i + (Len(t) + 2) /\ state' = DollarQuote(t) /\ from' = i
  BY <1>3, Zenon DEF Take, Enter
<1>6. Tagged(text, i, t)
  BY <1>1, TagIs, Zenon
<1>7. Len(t) + 2 \in Nat /\ Len(t) + 2 > 0 /\ Len(text) \in Nat
  BY <1>1, <1>6 DEF Tagged
<1>8. Reader!TagEnd(text, i) = i + (Len(t) + 2) - 1 /\ Reader!TagEnd(text, i) # 0
  <2>1. Reader!TagEnd(text, i) = i + Len(t) + 1 /\ Len(t) \in Nat
    BY <1>6 DEF Tagged
  <2> QED
    BY <1>0, <2>1
<1>9. Reader!Kind(text, i) = "dollar quote"
  BY <1>1, <1>8, KindIs, Zenon
<1>10. DollarQuoted(text, i, Len(t) + 2, i + (Len(t) + 2))
  BY <1>0, <1>7, <1>8, DollarSteps
<1>11. DollarAt(text, i, t, i + (Len(t) + 2))
  BY <1>1, <1>6, <1>9, <1>10, Zenon DEF DollarAt, Element
<1>12. InsideDollar'
  BY <1>2, <1>4, <1>5, <1>11, Zenon DEF InsideDollar
<1>13. InElement'
  <2>1. state'.kind = "DollarQuote"
    BY <1>5, VariantsAre, Zenon
  <2> QED
    BY <2>1 DEF InElement
<1>14. UNCHANGED readVars
  BY <1>1, <1>2, <1>4, <1>5, <1>13, EnterReads, Zenon
<1> QED
  BY <1>12, <1>14, Zenon DEF ElementInv

LEMMA PlainReads ==
    ASSUME TypeOK, ChunkInv, ElementInv, Plain
    PROVE  ElementInv' /\ [Reader!Next]_readVars
<1>1. /\ result = "none" /\ state.kind = "Normal" /\ i \in 1..Len(text) /\ i <= Len(text)
      /\ text \in Seq(STRING) /\ c = text[i]
  BY ScanAt, Zenon DEF Plain
<1>2. state' = Normal /\ state'.kind = "Normal" /\ UNCHANGED <<text, out, result>>
  BY VariantsAre, Zenon DEF Plain, Leave
<1>3. /\ text[i] \notin {";", Quote, DoubleQuoteMark}
      /\ ~ Pair(text, i, "-", "-") /\ ~ Pair(text, i, "/", "*")
      /\ text[i] = "$" => Reader!TagEnd(text, i) = 0
  BY <1>1, TagEndIs, Zenon DEF Plain, Sees
<1>4. ReadPos = i /\ ReadBegin = start /\ ReadPos' = i' /\ ReadBegin' = start'
  BY <1>1, <1>2, ReaderIs, ReaderNextIs, Zenon
<1>5. i + 1 # 0 /\ i' = i + 1
  <2>1. i \in Nat
    BY ScanFacts
  <2>2. i' = i + 1
    BY Zenon DEF Plain, Pass, Take
  <2> QED
    BY <2>1, <2>2
<1>6. CASE text[i] \in AsciiBlank
  <2>1. start' = start
    BY <1>1, <1>6, Zenon DEF Plain, Pass
  <2>2. Reader!Kind(text, i) = "blank"
    BY <1>1, <1>3, <1>6, KindIs, Zenon
  <2>3. Reader!ElementEnd(text, i) = i + 1
    BY <2>2, ElementEndIs, Zenon
  <2>4. "blank" \in {"blank", "line comment", "block comment"}
    OBVIOUS
  <2> QED
    BY <1>1, <1>2, <1>4, <1>5, <2>1, <2>2, <2>3, <2>4, ReaderSkips, Zenon DEF ElementInv
<1>7. CASE text[i] \notin AsciiBlank
  <2>1. start' = IF start = 0 THEN i ELSE start
    BY <1>1, <1>7, Zenon DEF Plain, Take
  <2>2. Reader!Kind(text, i) = "code"
    BY <1>1, <1>3, <1>7, KindIs, Zenon
  <2>3. Reader!ElementEnd(text, i) = i + 1
    BY <2>2, ElementEndIs, Zenon
  <2>4. "code" \in {"string literal", "quoted identifier", "dollar quote", "code"}
    OBVIOUS
  <2> QED
    BY <1>1, <1>2, <1>4, <1>5, <2>1, <2>2, <2>3, <2>4, ReaderTakes, Zenon DEF ElementInv
<1> QED
  BY <1>6, <1>7

LEMMA InLineCommentReads ==
    ASSUME TypeOK, ChunkInv, ElementInv, InLineComment
    PROVE  ElementInv' /\ [Reader!Next]_readVars
<1>1. /\ result = "none" /\ state.kind = "LineComment" /\ i \in 1..Len(text)
      /\ text \in Seq(STRING) /\ c = text[i]
  BY ScanAt, Zenon DEF InLineComment
<1>2. i' = i + 1 /\ start' = start /\ UNCHANGED <<text, out, result>>
  BY DEF InLineComment, Pass
<1>3. state = LineComment /\ LineAt(text, from, i)
  BY <1>1, InsideIs, Zenon DEF InsideLine
<1>4. ReadPos = NextLine(text, from) /\ ReadBegin = start
  BY <1>1, ReaderIs, Zenon
<1>5. CASE c = Newline
  <2>1. state' = Normal /\ state'.kind = "Normal"
    BY <1>5, VariantsAre, Zenon DEF InLineComment, Leave
  <2>2. NextLine(text, from) = i + 1
    <3>1. from \in Nat /\ from > 0 /\ i \in from..Len(text) /\ text[i] = Newline
      <4>1. from \in 1..Len(text) /\ from < i
        BY <1>3, Zenon DEF LineAt, Element
      <4>2. i \in 1..Len(text) /\ text[i] = Newline
        BY <1>1, <1>5, Zenon
      <4>3. from \in Nat /\ from > 0 /\ i \in from..Len(text)
        BY <4>1, <4>2
      <4> QED
        BY <4>2, <4>3
    <3>2. \A q \in from..i - 1 : text[q] # Newline
      BY <1>3, Zenon DEF LineAt
    <3> QED
      BY <1>1, <3>1, <3>2, NextLineIs
  <2>3. ReadPos' = i + 1 /\ ReadBegin' = start
    BY <1>2, <2>1, ReaderNextIs, Zenon
  <2> QED
    BY <1>2, <1>4, <2>1, <2>2, <2>3, Zenon DEF ElementInv, readVars
<1>6. CASE c # Newline
  <2>1. UNCHANGED <<state, from>>
    BY <1>6, Zenon DEF InLineComment, Stay
  <2>2. LineAt(text, from, i + 1)
    <3>1. /\ Element(text, from, "line comment") /\ from < i
          /\ \A q \in from..i - 1 : text[q] # Newline
      BY <1>3, Zenon DEF LineAt
    <3>4. from \in Nat /\ i \in Nat
      BY ScanFacts
    <3>2. \A q \in from..(i + 1) - 1 : q \in from..i - 1 \/ q = i
      BY <3>4
    <3>3. from < i + 1
      <4>1. from < i
        BY <3>1, Zenon
      <4> QED
        BY <3>4, <4>1
    <3> QED
      BY <1>1, <1>6, <3>1, <3>2, <3>3, Zenon DEF LineAt
  <2>3. ReadPos' = NextLine(text, from) /\ ReadBegin' = start
    BY <1>1, <1>2, <2>1, ReaderNextIs, Zenon
  <2> QED
    BY <1>2, <1>3, <1>4, <2>1, <2>2, <2>3, Zenon DEF ElementInv, InsideLine, readVars
<1> QED
  BY <1>5, <1>6

LEMMA InBlockCommentReads ==
    ASSUME TypeOK, ChunkInv, ElementInv, InBlockComment
    PROVE  ElementInv' /\ [Reader!Next]_readVars
<1>1. /\ result = "none" /\ state.kind = "BlockComment" /\ i \in 1..Len(text)
      /\ text \in Seq(STRING)
  BY ScanAt, Zenon DEF InBlockComment
<1>2. start' = start /\ UNCHANGED <<text, out, result>>
  BY DEF InBlockComment, Pass, Stay, Leave
<1>3. PICK d \in Nat \ {0} : state = BlockComment(d) /\ BlockAt(text, from, d, i) /\ start < from
  BY <1>1, InsideIs, Zenon DEF InsideBlock
<1>4. /\ state.depth = d /\ Commented(text, from, d, i) /\ d \in Nat /\ d # 0
      /\ Element(text, from, "block comment")
  BY <1>3, VariantsAre, Zenon DEF BlockAt
<1>5. InElement /\ d > 0 /\ from \in 1..Len(text) /\ from <= Len(text) /\ start # from
  <2>1. from \in 1..Len(text) /\ start < from
    BY <1>3, <1>4, Zenon DEF Element
  <2>3. start \in Nat
    BY ScanFacts
  <2>2. start # from /\ from <= Len(text) /\ d > 0
    BY <2>1, <2>3
  <2> QED
    BY <1>1, <2>1, <2>2 DEF InElement
<1>6. ASSUME NEW k \in Nat \ {0}, state' = BlockComment(k), from' = from,
             Commented(text, from, k, i')
      PROVE  ElementInv' /\ [Reader!Next]_readVars
  <2>1. InElement'
    <3>1. state'.kind = "BlockComment"
      BY <1>6, VariantsAre, Zenon
    <3> QED
      BY <3>1 DEF InElement
  <2>2. UNCHANGED readVars
    BY <1>2, <1>5, <1>6, <2>1, StayReads, Zenon
  <2>3. InsideBlock'
    BY <1>2, <1>3, <1>4, <1>6, Zenon DEF InsideBlock, BlockAt
  <2> QED
    BY <2>2, <2>3, Zenon DEF ElementInv
<1>7. CASE Sees("*", "/")
  <2>1. Pair(text, i, "*", "/")
    BY <1>7 DEF Sees
  <2>2. ~ Sees("/", "*")
    <3>1. text[i] = "*"
      BY <1>1, <2>1, PairIs
    <3>2. Pair(text, i, "/", "*") => text[i] = "/"
      BY <1>1, PairIs
    <3> QED
      BY <3>1, <3>2 DEF Sees
  <2>3. /\ i' = i + 2
        /\ IF state.depth = 1 THEN Leave
           ELSE state' = BlockComment(state.depth - 1) /\ UNCHANGED from
    BY <1>7, <2>2, Zenon DEF InBlockComment, Pass
  <2>4. /\ d = 1 => Reader!CommentEnd(text, from) = i + 2
        /\ d # 1 => Commented(text, from, d - 1, i + 2)
    BY <1>1, <1>4, <1>5, <2>1, CommentCloses, Zenon
  <2>5. CASE d = 1
    <3>1. state' = Normal /\ state'.kind = "Normal"
      BY <1>4, <2>3, <2>5, VariantsAre, Zenon DEF Leave
    <3>2. Reader!Kind(text, from) = "block comment"
      BY <1>4, Zenon DEF Element
    <3>3. Reader!ElementEnd(text, from) = i'
      BY <2>3, <2>4, <2>5, <3>2, ElementEndIs, Zenon
    <3>4. i' # 0
      BY <1>1, <2>3
    <3>5. Reader!Next
      BY <1>1, <1>2, <1>5, <3>1, <3>2, <3>3, <3>4, LeaveCommentReads, Zenon
    <3> QED
      BY <3>1, <3>5, Zenon DEF ElementInv
  <2>6. CASE d # 1
    <3>1. d - 1 \in Nat \ {0}
      BY <2>6
    <3> QED
      BY <1>4, <1>6, <2>3, <2>4, <2>6, <3>1, Zenon
  <2> QED
    BY <2>5, <2>6
<1>8. CASE ~ Sees("*", "/") /\ Sees("/", "*")
  <2>1. i' = i + 2 /\ state' = BlockComment(d + 1) /\ from' = from
    <3>1. i' = i + 2 /\ state' = BlockComment(state.depth + 1) /\ from' = from
      BY <1>8, Zenon DEF InBlockComment, Pass
    <3> QED
      BY <1>4, <3>1, Zenon
  <2>4. d + 1 \in Nat \ {0}
    OBVIOUS
  <2>2. Pair(text, i, "/", "*") /\ d + 1 \in Nat \ {0}
    BY <1>8, <2>4, Zenon DEF Sees
  <2>3. Commented(text, from, d + 1, i')
    BY <1>1, <1>4, <1>5, <2>1, <2>2, CommentDeeper, Zenon
  <2> QED
    BY <1>6, <2>1, <2>2, <2>3, Zenon
<1>9. CASE ~ Sees("*", "/") /\ ~ Sees("/", "*")
  <2>1. i' = i + 1 /\ state' = state /\ from' = from
    BY <1>9, Zenon DEF InBlockComment, Pass, Stay
  <2>2. ~ Pair(text, i, "*", "/") /\ ~ Pair(text, i, "/", "*")
    BY <1>9 DEF Sees
  <2>3. Commented(text, from, d, i')
    BY <1>1, <1>4, <1>5, <2>1, <2>2, CommentPlain, Zenon
  <2> QED
    BY <1>3, <1>6, <2>1, <2>3, Zenon
<1> QED
  BY <1>7, <1>8, <1>9

(* A step inside quotes stays inside them, or ends where the element does. *)
LEMMA InQuotesIs ==
    ASSUME TypeOK, i \in 1..Len(text), text \in Seq(STRING), c = text[i],
           NEW mark \in {Quote, DoubleQuoteMark}, NEW e \in BOOLEAN,
           from \in 1..Len(text), text[from] = mark, Quoted(text, from, e, i),
           start # 0, InQuotes(mark), e => c # Backslash
    PROVE  \/ Stay /\ start' = start /\ Quoted(text, from, e, i')
           \/ Leave /\ start' = start /\ Reader!QuotedEnd(text, from, e) = i' /\ i' # 0
<1>1. QuotedAssumption(text, from, e, i)
  <2>1. from \in Nat /\ i \in Nat
    OBVIOUS
  <2> QED
    BY <2>1, Zenon DEF QuotedAssumption
<1>2. mark # ""
  BY MarksAreCharacters, Zenon
<1>3. At(text, i) = c
  BY DEF c
<1>4. CASE Sees(mark, mark)
  <2>1. ~ (c = mark /\ ~ Sees(mark, mark))
    BY <1>4
  <2>2. Take(2) /\ Stay
    BY <1>4, <2>1, Zenon DEF InQuotes
  <2>3. c = mark /\ At(text, i + 1) = mark
    BY <1>3, <1>4, Zenon DEF Sees, Pair
  <2>4. i + 1 \in 1..Len(text) /\ text[i + 1] = mark
    BY <1>2, <2>3, AtInside, Zenon
  <2>5. Quoted(text, from, e, i + 2)
    BY <1>1, <2>3, <2>4, QuotedDoubled, Zenon
  <2> QED
    BY <2>2, <2>5, TakesOn, Zenon
<1>5. CASE c = mark /\ ~ Sees(mark, mark)
  <2>1. Take(1) /\ Leave
    BY <1>5, Zenon DEF InQuotes
  <2>2. At(text, i + 1) # mark
    BY <1>3, <1>5, Zenon DEF Sees, Pair
  <2>3. Reader!QuotedEnd(text, from, e) = i + 1
    BY <1>1, <1>5, <2>2, QuotedCloses, Zenon
  <2>4. i + 1 # 0
    OBVIOUS
  <2> QED
    BY <2>1, <2>3, <2>4, TakesOn, Zenon
<1>6. CASE c # mark
  <2>1. ~ Sees(mark, mark)
    BY <1>3, <1>6, Zenon DEF Sees, Pair
  <2>2. Take(1) /\ Stay
    BY <1>6, <2>1, Zenon DEF InQuotes
  <2>3. Quoted(text, from, e, i + 1)
    BY <1>1, <1>6, QuotedOther, Zenon
  <2> QED
    BY <2>2, <2>3, TakesOn, Zenon
<1> QED
  BY <1>4, <1>5, <1>6, Zenon

LEMMA InSingleQuoteReads ==
    ASSUME TypeOK, ChunkInv, ElementInv, InSingleQuote
    PROVE  ElementInv' /\ [Reader!Next]_readVars
<1>1. /\ result = "none" /\ state.kind = "SingleQuote" /\ i \in 1..Len(text)
      /\ text \in Seq(STRING) /\ c = text[i]
  BY ScanAt, Zenon DEF InSingleQuote
<1>2. UNCHANGED <<text, out, result>>
  BY Zenon DEF InSingleQuote
<1>3. PICK e \in BOOLEAN :
          state = SingleQuote(e) /\ StringAt(text, from, e, i) /\ start \in 1..from
  BY <1>1, InsideIs, Zenon DEF InsideString
<1>4. /\ state.backslash_escapes = e
      /\ from \in 1..Len(text) /\ Reader!Kind(text, from) = "string literal"
      /\ text[from] = Quote /\ (e <=> Reader!EscapeString(text, from))
      /\ Quoted(text, from, e, i)
  BY <1>3, VariantsAre, Zenon DEF StringAt, Element
<1>5. start # 0 /\ from <= Len(text) /\ from \in Nat
  <2>1. start \in 1..from /\ from \in 1..Len(text)
    BY <1>3, <1>4, Zenon
  <2> QED
    BY <2>1
<1>6. InElement
  BY <1>1 DEF InElement
<1>7. ASSUME Stay, start' = start, Quoted(text, from, e, i')
      PROVE  ElementInv' /\ [Reader!Next]_readVars
  <2>1. state' = state /\ from' = from
    BY <1>7, Zenon DEF Stay
  <2>2. InElement'
    BY <1>6, <2>1, Zenon DEF InElement
  <2>3. StringAt(text, from, e, i')
    BY <1>3, <1>7, Zenon DEF StringAt
  <2>4. InsideString'
    BY <1>2, <1>3, <1>7, <2>1, <2>3, Zenon DEF InsideString
  <2>5. UNCHANGED readVars
    BY <1>2, <1>6, <1>7, <2>1, <2>2, StayReads, Zenon
  <2> QED
    BY <2>4, <2>5, Zenon DEF ElementInv
<1>8. CASE state.backslash_escapes /\ c = Backslash
  <2>1. Take(2) /\ Stay
    BY <1>8, Zenon DEF InSingleQuote
  <2>2. e = TRUE
    BY <1>4, <1>8
  <2>3. QuotedAssumption(text, from, TRUE, i)
    <3>1. i \in Nat /\ TRUE \in BOOLEAN
      BY ScanFacts
    <3> QED
      BY <1>1, <1>4, <1>5, <3>1, Zenon DEF QuotedAssumption
  <2>4. Quoted(text, from, e, i + 2)
    BY <1>1, <1>4, <1>8, <2>2, <2>3, QuotedEscape, Zenon
  <2> QED
    BY <1>5, <1>7, <2>1, <2>4, TakesOn, Zenon
<1>9. CASE ~ (state.backslash_escapes /\ c = Backslash)
  <2>1. InQuotes(Quote)
    BY <1>9, Zenon DEF InSingleQuote
  <2>2. e => c # Backslash
    BY <1>4, <1>9, Zenon
  <2>3. \/ Stay /\ start' = start /\ Quoted(text, from, e, i')
        \/ Leave /\ start' = start /\ Reader!QuotedEnd(text, from, e) = i' /\ i' # 0
    BY <1>1, <1>4, <1>5, <2>1, <2>2, InQuotesIs, Zenon
  <2>4. CASE Leave /\ start' = start /\ Reader!QuotedEnd(text, from, e) = i' /\ i' # 0
    <3>1. state' = Normal /\ state'.kind = "Normal"
      BY <2>4, VariantsAre, Zenon DEF Leave
    <3>2. e = Reader!EscapeString(text, from)
      <4>1. Reader!EscapeString(text, from) \in BOOLEAN
        BY DEF Reader!EscapeString
      <4>2. e <=> Reader!EscapeString(text, from)
        BY <1>4, Zenon
      <4> QED
        BY <4>1, <4>2, SameBoolean
    <3>3. Reader!ElementEnd(text, from) = i'
      BY <1>4, <2>4, <3>2, ElementEndIs, Zenon
    <3>4. Reader!Next
      BY <1>1, <1>2, <1>4, <1>5, <1>6, <2>4, <3>1, <3>3, LeaveQuoteReads, Zenon
    <3> QED
      BY <3>1, <3>4, Zenon DEF ElementInv
  <2> QED
    BY <1>7, <2>3, <2>4, Zenon
<1> QED
  BY <1>8, <1>9

LEMMA InDoubleQuoteReads ==
    ASSUME TypeOK, ChunkInv, ElementInv, InDoubleQuote
    PROVE  ElementInv' /\ [Reader!Next]_readVars
<1>1. /\ result = "none" /\ state.kind = "DoubleQuote" /\ i \in 1..Len(text)
      /\ text \in Seq(STRING) /\ c = text[i]
  BY ScanAt, Zenon DEF InDoubleQuote
<1>2. UNCHANGED <<text, out, result>>
  BY Zenon DEF InDoubleQuote
<1>3. state = DoubleQuote /\ NameAt(text, from, i) /\ start \in 1..from
  BY <1>1, InsideIs, Zenon DEF InsideName
<1>4. /\ from \in 1..Len(text) /\ Reader!Kind(text, from) = "quoted identifier"
      /\ text[from] = DoubleQuoteMark /\ Quoted(text, from, FALSE, i)
  BY <1>3, Zenon DEF NameAt, Element
<1>5. start # 0 /\ from <= Len(text)
  <2>1. start \in 1..from /\ from \in 1..Len(text)
    BY <1>3, <1>4, Zenon
  <2> QED
    BY <2>1
<1>6. InElement
  BY <1>1 DEF InElement
<1>7. \/ Stay /\ start' = start /\ Quoted(text, from, FALSE, i')
      \/ Leave /\ start' = start /\ Reader!QuotedEnd(text, from, FALSE) = i' /\ i' # 0
  <2>1. InQuotes(DoubleQuoteMark)
    BY Zenon DEF InDoubleQuote
  <2>2. FALSE \in BOOLEAN /\ (FALSE => c # Backslash)
    OBVIOUS
  <2> QED
    BY <1>1, <1>4, <1>5, <2>1, <2>2, InQuotesIs, Zenon
<1>8. CASE Stay /\ start' = start /\ Quoted(text, from, FALSE, i')
  <2>1. state' = state /\ from' = from
    BY <1>8, Zenon DEF Stay
  <2>2. InElement'
    BY <1>6, <2>1, Zenon DEF InElement
  <2>3. NameAt(text, from, i')
    BY <1>3, <1>8, Zenon DEF NameAt
  <2>4. InsideName'
    BY <1>2, <1>3, <1>8, <2>1, <2>3, Zenon DEF InsideName
  <2>5. UNCHANGED readVars
    BY <1>2, <1>6, <1>8, <2>1, <2>2, StayReads, Zenon
  <2> QED
    BY <2>4, <2>5, Zenon DEF ElementInv
<1>9. CASE Leave /\ start' = start /\ Reader!QuotedEnd(text, from, FALSE) = i' /\ i' # 0
  <2>1. state' = Normal /\ state'.kind = "Normal"
    BY <1>9, VariantsAre, Zenon DEF Leave
  <2>2. Reader!ElementEnd(text, from) = i'
    BY <1>4, <1>9, ElementEndIs, Zenon
  <2>3. Reader!Next
    BY <1>1, <1>2, <1>4, <1>5, <1>6, <1>9, <2>1, <2>2, LeaveQuoteReads, Zenon
  <2> QED
    BY <2>1, <2>3, Zenon DEF ElementInv
<1> QED
  BY <1>7, <1>8, <1>9

LEMMA InDollarQuoteReads ==
    ASSUME TypeOK, ChunkInv, ElementInv, InDollarQuote
    PROVE  ElementInv' /\ [Reader!Next]_readVars
<1>1. /\ result = "none" /\ state.kind = "DollarQuote" /\ i \in 1..Len(text)
      /\ text \in Seq(STRING)
  BY ScanAt, Zenon DEF InDollarQuote
<1>2. UNCHANGED <<text, out, result>>
  BY Zenon DEF InDollarQuote
<1>3. PICK tag : state = DollarQuote(tag) /\ DollarAt(text, from, tag, i) /\ start \in 1..from
  BY <1>1, InsideIs, Zenon DEF InsideDollar
<1> DEFINE n == Len(tag) + 2
<1>4. /\ state.tag = tag
      /\ from \in 1..Len(text) /\ Reader!Kind(text, from) = "dollar quote"
      /\ Tagged(text, from, tag) /\ DollarQuoted(text, from, n, i)
  BY <1>3, VariantsAre, Zenon DEF DollarAt, Element
<1>5. start # 0 /\ from <= Len(text) /\ from \in Nat
  <2>1. start \in 1..from /\ from \in 1..Len(text)
    BY <1>3, <1>4, Zenon
  <2> QED
    BY <2>1
<1>6. InElement
  BY <1>1 DEF InElement
<1> DEFINE closes == \A k \in DOMAIN Closer(tag) : At(text, i + k - 1) = Closer(tag)[k]
<1>7. /\ Len(Closer(tag)) = n
      /\ IF closes THEN Reader!DollarEnd(text, from) = i + n /\ i + n # 0
         ELSE DollarQuoted(text, from, n, i + 1)
  <2>1. tag \in Seq(STRING)
    BY <1>4, Zenon DEF Tagged
  <2>2. i \in Nat
    BY ScanFacts
  <2> QED
    BY <1>1, <1>4, <1>5, <2>1, <2>2, DollarNext, Zenon
<1>8. IF closes THEN Take(Len(Closer(tag))) /\ Leave ELSE Take(1) /\ Stay
  BY <1>4, Zenon DEF InDollarQuote, Closer
<1> HIDE DEF closes, n
<1>11. CASE closes
  <2>1. Take(n) /\ Leave
    BY <1>7, <1>8, <1>11, Zenon
  <2>2. i' = i + n /\ start' = start
    BY <1>5, <2>1, TakesOn, Zenon
  <2>3. state' = Normal /\ state'.kind = "Normal"
    BY <2>1, VariantsAre, Zenon DEF Leave
  <2>4. Reader!ElementEnd(text, from) = i' /\ i' # 0
    BY <1>4, <1>7, <1>11, <2>2, ElementEndIs, Zenon
  <2>5. Reader!Next
    BY <1>1, <1>2, <1>4, <1>5, <1>6, <2>2, <2>3, <2>4, LeaveQuoteReads, Zenon
  <2> QED
    BY <2>3, <2>5, Zenon DEF ElementInv
<1>12. CASE ~ closes
  <2>1. Take(1) /\ Stay
    BY <1>8, <1>12, Zenon
  <2>2. i' = i + 1 /\ start' = start /\ state' = state /\ from' = from
    BY <1>5, <2>1, TakesOn, Zenon DEF Stay
  <2>3. DollarAt(text, from, tag, i + 1)
    BY <1>3, <1>7, <1>12, Zenon DEF DollarAt, n
  <2>4. InsideDollar'
    BY <1>2, <1>3, <2>2, <2>3, Zenon DEF InsideDollar
  <2>5. InElement'
    BY <1>6, <2>2, Zenon DEF InElement
  <2>6. UNCHANGED readVars
    BY <1>2, <1>6, <2>2, <2>5, StayReads, Zenon
  <2> QED
    BY <2>4, <2>6, Zenon DEF ElementInv
<1> QED
  BY <1>11, <1>12

(* At the end of the file an element that is open ends nowhere. *)
LEMMA RefuseReads ==
    ASSUME TypeOK, ChunkInv, ElementInv, Refuse
    PROVE  ElementInv' /\ [Reader!Next]_readVars
<1>0. /\ text \in Seq(STRING) /\ Len(text) \in Nat /\ i \in Nat /\ start \in Nat /\ from \in Nat
      /\ state.kind # "SingleQuote" => i <= Len(text) + 1
  BY ScanFacts
<1>1. /\ result = "none" /\ i > Len(text) /\ state.kind \notin {"Normal", "LineComment"}
      /\ result' = Unterminated /\ out' = <<>>
      /\ UNCHANGED <<text, i, state, start, from>>
  BY Zenon DEF Refuse, AtEnd
<1>2. ElementInv'
  BY <1>1, Zenon DEF ElementInv, InsideLine, InsideBlock, InsideString, InsideName, InsideDollar
<1>3. i > Len(text)
  BY <1>1, Zenon
<1>4. state.kind # "SingleQuote" => i = Len(text) + 1
  <2>1. CASE state.kind = "SingleQuote"
    BY <2>1
  <2>2. CASE state.kind # "SingleQuote"
    <3>1. i <= Len(text) + 1
      BY <1>0, <2>2, Zenon
    <3> QED
      BY <1>0, <1>3, <3>1
  <2> QED
    BY <2>1, <2>2
<1>5. InElement /\ InElement'
  BY <1>1, Zenon DEF InElement
<1>6. ReadPos = from /\ ReadPos' = ReadPos /\ ReadBegin' = ReadBegin
  BY <1>1, <1>5, ReaderIs, ReaderNextIs, Zenon
<1>7. ASSUME NEW kind, Element(text, from, kind), Unterminated = kind,
             Reader!ElementEnd(text, from) = 0
      PROVE  Reader!Next
  <2>1. from <= Len(text)
    <3>1. from \in 1..Len(text)
      BY <1>7, Zenon DEF Element
    <3> QED
      BY <3>1
  <2> QED
    BY <1>1, <1>6, <1>7, <2>1, Zenon DEF Element, Reader!Next, Reader!Refuse, Reader!Reading
<1>8. CASE state.kind = "BlockComment"
  <2>1. Unterminated = "block comment"
    BY <1>8 DEF Unterminated
  <2>2. PICK d \in Nat \ {0} : BlockAt(text, from, d, i)
    BY <1>8, InsideIs, Zenon DEF InsideBlock
  <2>3. Element(text, from, "block comment") /\ Commented(text, from, d, i)
    BY <2>2, Zenon DEF BlockAt
  <2>4. d \in Nat /\ d > 0
    OBVIOUS
  <2>5. i = Len(text) + 1
    BY <1>4, <1>8
  <2>6. Reader!CommentEnd(text, from) = 0
    BY <1>0, <2>3, <2>4, <2>5, CommentOpen, Zenon
  <2>7. Reader!ElementEnd(text, from) = 0
    BY <2>3, <2>6, ElementEndIs, Zenon DEF Element
  <2> QED
    BY <1>2, <1>7, <2>1, <2>3, <2>7, Zenon
<1>9. CASE state.kind = "SingleQuote"
  <2>1. Unterminated = "string literal"
    BY <1>9 DEF Unterminated
  <2>2. PICK e \in BOOLEAN : StringAt(text, from, e, i)
    BY <1>9, InsideIs, Zenon DEF InsideString
  <2>3. /\ Element(text, from, "string literal") /\ text[from] = Quote
        /\ e <=> Reader!EscapeString(text, from)
        /\ Quoted(text, from, e, i)
    BY <2>2, Zenon DEF StringAt
  <2>4. Reader!EscapeString(text, from) \in BOOLEAN
    BY DEF Reader!EscapeString
  <2>5. e = Reader!EscapeString(text, from)
    BY <2>3, <2>4, SameBoolean
  <2>6. QuotedAssumption(text, from, e, i)
    BY <1>0, <2>3, Zenon DEF QuotedAssumption
  <2>7. Reader!QuotedEnd(text, from, e) = 0
    BY <1>3, <2>3, <2>6, QuotedOpen, Zenon
  <2>8. Reader!ElementEnd(text, from) = 0
    BY <2>3, <2>5, <2>7, ElementEndIs, Zenon DEF Element
  <2> QED
    BY <1>2, <1>7, <2>1, <2>3, <2>8, Zenon
<1>10. CASE state.kind = "DoubleQuote"
  <2>1. Unterminated = "quoted identifier"
    BY <1>10 DEF Unterminated
  <2>2. /\ Element(text, from, "quoted identifier") /\ text[from] = DoubleQuoteMark
        /\ Quoted(text, from, FALSE, i)
    BY <1>10, InsideIs, Zenon DEF InsideName, NameAt
  <2>3. FALSE \in BOOLEAN
    OBVIOUS
  <2>4. QuotedAssumption(text, from, FALSE, i)
    BY <1>0, <2>2, <2>3, Zenon DEF QuotedAssumption
  <2>5. Reader!QuotedEnd(text, from, FALSE) = 0
    BY <1>3, <2>2, <2>4, QuotedOpen, Zenon
  <2>6. Reader!ElementEnd(text, from) = 0
    BY <2>2, <2>5, ElementEndIs, Zenon DEF Element
  <2> QED
    BY <1>2, <1>7, <2>1, <2>2, <2>6, Zenon
<1>11. CASE state.kind = "DollarQuote"
  <2>1. Unterminated = "dollar quote"
    BY <1>11 DEF Unterminated
  <2>2. PICK tag : DollarAt(text, from, tag, i)
    BY <1>11, InsideIs, Zenon DEF InsideDollar
  <2>3. /\ Element(text, from, "dollar quote") /\ Tagged(text, from, tag)
        /\ DollarQuoted(text, from, Len(tag) + 2, i)
    BY <2>2, Zenon DEF DollarAt
  <2>4. tag \in Seq(STRING)
    BY <2>3, Zenon DEF Tagged
  <2>5. Reader!DollarEnd(text, from) = 0
    BY <1>0, <1>3, <2>3, <2>4, DollarNext, Zenon
  <2>6. Reader!ElementEnd(text, from) = 0
    BY <2>3, <2>5, ElementEndIs, Zenon DEF Element
  <2> QED
    BY <1>2, <1>7, <2>1, <2>3, <2>6, Zenon
<1>12. state.kind \in Kinds
  BY TypeParts, StateFields, Zenon DEF Shape
<1> QED
  BY <1>1, <1>8, <1>9, <1>10, <1>11, <1>12, Zenon DEF Kinds

(* Between elements, or in a last line comment, the reader is there too. *)
LEMMA AcceptReads ==
    ASSUME TypeOK, ChunkInv, ElementInv, Accept
    PROVE  ElementInv' /\ [Reader!Next]_readVars
<1>0. /\ text \in Seq(STRING) /\ Len(text) \in Nat /\ i \in Nat
      /\ state.kind # "SingleQuote" => i <= Len(text) + 1
  BY ScanFacts
<1>1. /\ result = "none" /\ i > Len(text) /\ state.kind \in {"Normal", "LineComment"}
      /\ result' = "ok" /\ Push(Len(text) + 1)
      /\ UNCHANGED <<text, i, state, start, from>>
  BY Zenon DEF Accept, AtEnd
<1>2. ElementInv'
  BY <1>1, Zenon DEF ElementInv, InsideLine, InsideBlock, InsideString, InsideName, InsideDollar
<1>3. i = Len(text) + 1
  <2>1. i > Len(text) /\ state.kind # "SingleQuote"
    BY <1>1
  <2>2. i > Len(text) /\ i <= Len(text) + 1
    BY <1>0, <2>1, Zenon
  <2> QED
    BY <1>0, <2>2
<1>4. /\ ReadPos = Len(text) + 1 /\ ReadBegin = start
      /\ ReadPos' = ReadPos /\ ReadBegin' = start
  <2>1. CASE state.kind = "Normal"
    BY <1>1, <1>3, <2>1, ReaderIs, ReaderNextIs, Zenon
  <2>2. CASE state.kind = "LineComment"
    <3>1. LineAt(text, from, i)
      BY <2>2, InsideIs, Zenon DEF InsideLine
    <3>2. from \in 1..Len(text) /\ \A q \in from..i - 1 : text[q] # Newline
      BY <3>1, Zenon DEF LineAt, Element
    <3>3. from \in Nat /\ from > 0 /\ \A q \in from..Len(text) : text[q] # Newline
      BY <1>0, <1>3, <3>2
    <3>4. NextLine(text, from) = Len(text) + 1
      BY <1>0, <3>3, NextLineIs
    <3> QED
      BY <1>1, <2>2, <3>4, ReaderIs, ReaderNextIs, Zenon
  <2> QED
    BY <1>1, <2>1, <2>2, Zenon
<1>5. Reader!Flush(Len(text) + 1)
  BY <1>1, <1>4, SameText, Zenon DEF Push, Reader!Flush
<1>6. Reader!Accept
  BY <1>1, <1>4, <1>5, Zenon DEF Reader!Accept
<1> QED
  BY <1>2, <1>6, Zenon DEF Reader!Next

LEMMA ReadsInit == Init => ElementInv /\ Reader!Init
<1> SUFFICES ASSUME Init PROVE ElementInv /\ Reader!Init
  OBVIOUS
<1>1. /\ text \in Seq(STRING) /\ i = 1 /\ state = Normal /\ start = 0
      /\ out = <<>> /\ result = "none"
  BY TextsAssumption DEF Init
<1>2. ReadPos = 1 /\ ReadBegin = 0
  BY <1>1, VariantsAre, ReaderIs, Zenon
<1> QED
  BY <1>1, <1>2, Zenon DEF ElementInv, Reader!Init

LEMMA ReadsStep ==
    TypeOK /\ ChunkInv /\ ElementInv /\ [Next]_vars => ElementInv' /\ [Reader!Next]_readVars
<1> SUFFICES ASSUME TypeOK, ChunkInv, ElementInv, [Next]_vars
             PROVE  ElementInv' /\ [Reader!Next]_readVars
  OBVIOUS
<1>1. CASE UNCHANGED vars
  <2>1. UNCHANGED <<text, i, state, start, out, result, from>>
    BY <1>1, Zenon DEF vars
  <2>2. ElementInv'
    BY <2>1, Zenon DEF ElementInv, InsideLine, InsideBlock, InsideString, InsideName, InsideDollar
  <2>3. UNCHANGED readVars
    BY <2>1, Zenon DEF readVars, ReadPos, ReadBegin, InElement
  <2> QED
    BY <2>2, <2>3
<1>2. CASE Next
  BY <1>2, SemicolonReads, OpenCommentReads, OpenQuoteReads, OpenDollarQuoteReads, PlainReads,
     InLineCommentReads, InBlockCommentReads, InSingleQuoteReads, InDoubleQuoteReads,
     InDollarQuoteReads, RefuseReads, AcceptReads, Zenon DEF Next
<1> QED
  BY <1>1, <1>2

(* The scanner implements what splitting promises: it reads the file one   *)
(* element at a time, each ending where SQL says it ends.                  *)
THEOREM ScannerReadsAsSql == Spec => ReadsAsSql
<1>1. Spec => [](TypeOK /\ ChunkInv)
  BY ChunkInit, ChunkStep, SplitterTyped, PTL DEF Spec
<1> QED
  BY <1>1, ReadsInit, ReadsStep, PTL DEF Spec, ReadsAsSql, Reader!Spec, Reader!absVars, readVars
=============================================================================
