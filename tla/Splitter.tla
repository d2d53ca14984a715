------------------------------ MODULE Splitter ------------------------------
(***************************************************************************)
(* split_statements: one pass over the file, one branch of its loop per    *)
(* action.  Positions are those of characters: the scanner works on bytes, *)
(* but it looks for ASCII bytes only, which occur in no other character's  *)
(* encoding.                                                               *)
(***************************************************************************)
EXTENDS SqlText

CONSTANT Texts    \* the files to split

ASSUME TextsAssumption == Texts \subseteq Seq(STRING)

VARIABLES
    text,     \* the file
    i,        \* the position about to be looked at
    state,    \* the scanner's State
    start,    \* where the current chunk has its first SQL, 0 for None
    out,      \* the statements so far
    result,   \* "none" while scanning, "ok", or what is unterminated
    from,     \* history: where the scanner last left or entered Normal
    taken     \* history: the positions scanned as SQL

vars == <<text, i, state, start, out, result, from, taken>>

(* State and its variants: a field of another variant has a fixed value.   *)
Variant(kind, depth, backslash_escapes, tag) ==
    [kind |-> kind, depth |-> depth, backslash_escapes |-> backslash_escapes, tag |-> tag]

Normal == Variant("Normal", 0, FALSE, <<>>)
LineComment == Variant("LineComment", 0, FALSE, <<>>)
BlockComment(depth) == Variant("BlockComment", depth, FALSE, <<>>)
SingleQuote(backslash_escapes) == Variant("SingleQuote", 0, backslash_escapes, <<>>)
DoubleQuote == Variant("DoubleQuote", 0, FALSE, <<>>)
DollarQuote(tag) == Variant("DollarQuote", 0, FALSE, tag)

Kinds == {"Normal", "LineComment", "BlockComment", "SingleQuote", "DoubleQuote",
          "DollarQuote"}

State == [kind : Kinds, depth : Nat, backslash_escapes : BOOLEAN, tag : Seq(IdentChar)]

Error == {"block comment", "string literal", "quoted identifier", "dollar quote"}

Init ==
    /\ text \in Texts
    /\ i = 1
    /\ state = Normal
    /\ start = 0
    /\ out = <<>>
    /\ result = "none"
    /\ from = 1
    /\ taken = {}

(***************************************************************************)
(* Helpers                                                                 *)
(***************************************************************************)

In(kind) == result = "none" /\ i <= Len(text) /\ state.kind = kind

c == At(text, i)
Sees(a, b) == Pair(text, i, a, b)

(* The next character to look at is `n` further on: a blank or a comment... *)
Pass(n) ==
    /\ i' = i + n
    /\ UNCHANGED <<start, taken>>

(* ...or SQL, and then the current chunk has content. *)
Take(n) ==
    /\ i' = i + n
    /\ taken' = taken \cup (i..i + n - 1)
    /\ start' = IF start = 0 THEN i ELSE start

Enter(new) ==
    /\ state' = new
    /\ from' = i

Stay == UNCHANGED <<state, from>>

Leave ==
    /\ state' = Normal
    /\ from' = i'

(* Mutant of Push: the terminator stays with its statement. *)
PushWithTerminator(end) ==
    IF start = 0 THEN UNCHANGED out
    ELSE \E s \in Trimmed(text, start, IF end > Len(text) THEN Len(text) ELSE end) :
            out' = Append(out, s)

(* The chunk start..end-1 becomes a statement unless trimming empties it. *)
Push(end) ==
    IF start = 0 \/ Trimmed(text, start, end - 1) = {} THEN UNCHANGED out
    ELSE \E s \in Trimmed(text, start, end - 1) : out' = Append(out, s)

IsIdent(t) == \A k \in DOMAIN t : t[k] \in IdentChar

(* read_dollar_tag: what is between this dollar sign and the next, if it   *)
(* is empty or an identifier; no tag otherwise.                            *)
ReadDollarTag(p) ==
    LET ends == {q \in p + 1..Len(text) : text[q] = "$"}
    IN  IF ends = {} THEN {}
        ELSE LET q == CHOOSE q \in ends : \A r \in ends : q <= r
                 t == SubSeq(text, p + 1, q - 1)
             IN  IF IsIdent(t) /\ (t = <<>> \/ t[1] \notin Digit) THEN {t} ELSE {}

(* Mutant of BackslashEscapes: any E will do, even an identifier's last. *)
AnyTrailingE(p) == At(text, p - 1) \in {"E", "e"}

(* An E just before the quote, and no identifier character before that. *)
BackslashEscapes(p) ==
    /\ At(text, p - 1) \in {"E", "e"}
    /\ At(text, p - 2) \notin IdentChar

(***************************************************************************)
(* Normal                                                                  *)
(***************************************************************************)

Semicolon ==
    /\ In("Normal") /\ c = ";"
    /\ Push(i)
    /\ start' = 0
    /\ i' = i + 1
    /\ Leave
    /\ UNCHANGED <<text, result, taken>>

OpenComment ==
    /\ In("Normal")
    /\ \/ Sees("-", "-") /\ Enter(LineComment)
       \/ Sees("/", "*") /\ Enter(BlockComment(1))
    /\ Pass(2)
    /\ UNCHANGED <<text, out, result>>

OpenQuote ==
    /\ In("Normal")
    /\ \/ c = Quote /\ Enter(SingleQuote(BackslashEscapes(i)))
       \/ c = DoubleQuoteMark /\ Enter(DoubleQuote)
    /\ Take(1)
    /\ UNCHANGED <<text, out, result>>

OpenDollarQuote ==
    /\ In("Normal") /\ c = "$"
    /\ \E t \in ReadDollarTag(i) :
          /\ Enter(DollarQuote(t))
          /\ Take(Len(t) + 2)
    /\ UNCHANGED <<text, out, result>>

(* Mutant of Plain: the scanner stays at a dollar sign that opens nothing. *)
StuckAtDollar ==
    /\ In("Normal")
    /\ c \notin {";", Quote, DoubleQuoteMark, "$"}
    /\ ~Sees("-", "-") /\ ~Sees("/", "*")
    /\ IF c \in AsciiBlank THEN Pass(1) ELSE Take(1)
    /\ Leave
    /\ UNCHANGED <<text, out, result>>

(* Any other character; one that is not ASCII whitespace begins a chunk. *)
Plain ==
    /\ In("Normal")
    /\ c \notin {";", Quote, DoubleQuoteMark}
    /\ c = "$" => ReadDollarTag(i) = {}
    /\ ~Sees("-", "-") /\ ~Sees("/", "*")
    /\ IF c \in AsciiBlank THEN Pass(1) ELSE Take(1)
    /\ Leave
    /\ UNCHANGED <<text, out, result>>

(***************************************************************************)
(* Comments                                                                *)
(***************************************************************************)

InLineComment ==
    /\ In("LineComment")
    /\ Pass(1)
    /\ IF c = Newline THEN Leave ELSE Stay
    /\ UNCHANGED <<text, out, result>>

(* Mutant of InBlockComment: the depth is looked at before it is lowered. *)
ClosesOneLate ==
    /\ In("BlockComment")
    /\ CASE Sees("*", "/") ->
                /\ Pass(2)
                /\ IF state.depth = 0 THEN Leave
                   ELSE state' = BlockComment(state.depth - 1) /\ UNCHANGED from
         [] OTHER -> Pass(1) /\ Stay
    /\ UNCHANGED <<text, out, result>>

(* Comments nest, as in Postgres. *)
InBlockComment ==
    /\ In("BlockComment")
    /\ CASE Sees("*", "/") ->
                /\ Pass(2)
                /\ IF state.depth = 1 THEN Leave
                   ELSE state' = BlockComment(state.depth - 1) /\ UNCHANGED from
         [] Sees("/", "*") ->
                /\ Pass(2)
                /\ state' = BlockComment(state.depth + 1) /\ UNCHANGED from
         [] OTHER -> Pass(1) /\ Stay
    /\ UNCHANGED <<text, out, result>>

(***************************************************************************)
(* Strings, quoted identifiers and dollar quotes                           *)
(***************************************************************************)

(* A doubled mark stays inside; a single one closes. *)
InQuotes(mark) ==
    CASE Sees(mark, mark) -> Take(2) /\ Stay
      [] c = mark /\ ~Sees(mark, mark) -> Take(1) /\ Leave
      [] OTHER -> Take(1) /\ Stay

(* After a backslash, in an escape string, a character is skipped unseen. *)
InSingleQuote ==
    /\ In("SingleQuote")
    /\ IF state.backslash_escapes /\ c = Backslash
       THEN Take(2) /\ Stay
       ELSE InQuotes(Quote)
    /\ UNCHANGED <<text, out, result>>

InDoubleQuote ==
    /\ In("DoubleQuote")
    /\ InQuotes(DoubleQuoteMark)
    /\ UNCHANGED <<text, out, result>>

InDollarQuote ==
    LET closer == <<"$">> \o state.tag \o <<"$">>
    IN  /\ In("DollarQuote")
        /\ IF \A k \in DOMAIN closer : At(text, i + k - 1) = closer[k]
           THEN Take(Len(closer)) /\ Leave
           ELSE Take(1) /\ Stay
        /\ UNCHANGED <<text, out, result>>

(***************************************************************************)
(* The end of the file                                                     *)
(***************************************************************************)

AtEnd == result = "none" /\ i > Len(text)

Unterminated ==
    CASE state.kind = "BlockComment" -> "block comment"
      [] state.kind = "SingleQuote" -> "string literal"
      [] state.kind = "DoubleQuote" -> "quoted identifier"
      [] state.kind = "DollarQuote" -> "dollar quote"

Refuse ==
    /\ AtEnd
    /\ state.kind \notin {"Normal", "LineComment"}
    /\ result' = Unterminated
    /\ out' = <<>>
    /\ UNCHANGED <<text, i, state, start, from, taken>>

(* Mutant of Accept: the last chunk needs its semicolon. *)
AcceptTerminated ==
    /\ AtEnd
    /\ state.kind \in {"Normal", "LineComment"}
    /\ result' = "ok"
    /\ UNCHANGED <<text, i, state, start, out, from, taken>>

(* The last chunk needs no semicolon. *)
Accept ==
    /\ AtEnd
    /\ state.kind \in {"Normal", "LineComment"}
    /\ Push(Len(text) + 1)
    /\ result' = "ok"
    /\ UNCHANGED <<text, i, state, start, from, taken>>

Next ==
    \/ Semicolon \/ OpenComment \/ OpenQuote \/ OpenDollarQuote \/ Plain
    \/ InLineComment \/ InBlockComment
    \/ InSingleQuote \/ InDoubleQuote \/ InDollarQuote
    \/ Refuse \/ Accept

Spec == Init /\ [][Next]_vars

(* One synchronous call: it runs on by itself. *)
FairSpec == Spec /\ WF_vars(Next)

(***************************************************************************)
(* Properties                                                              *)
(***************************************************************************)

(* Every variable stays in its range, the fields of a state belong to its  *)
(* variant, and the statements lie within the file.                        *)
TypeOK ==
    /\ text \in Seq(STRING)
    /\ i \in 1..Len(text) + 2
    /\ state \in State
    /\ state.depth > 0 <=> state.kind = "BlockComment"
    /\ state.backslash_escapes => state.kind = "SingleQuote"
    /\ state.tag # <<>> => state.kind = "DollarQuote"
    /\ start \in 0..Len(text)
    /\ out \in Seq((1..Len(text)) \X (1..Len(text)))
    /\ result \in {"none", "ok"} \cup Error
    /\ from \in 1..Len(text) + 1
    /\ taken \subseteq 1..Len(text) + 1

(* Statements are handed over in the order of the file, no character twice, *)
(* trimmed, and never empty (the database worker rejects empty SQL).        *)
StatementsApart ==
    /\ \A k \in DOMAIN out :
          /\ out[k][1] <= out[k][2]
          /\ text[out[k][1]] \notin Blank /\ text[out[k][2]] \notin Blank
    /\ \A k, l \in DOMAIN out : k < l => out[k][2] < out[l][1]

(* The statements are the SQL of the file, cut apart: none overlap, what    *)
(* the scanner took for SQL is in one of them, but for blanks at their      *)
(* ends, and each begins with SQL, so that no header comment is glued to it.*)
NothingLost ==
    /\ StatementsApart
    /\ result = "ok" =>
        /\ \A p \in taken :
              text[p] \in Blank \/ \E k \in DOMAIN out : p \in out[k][1]..out[k][2]
        /\ \A k \in DOMAIN out :
              \E p \in taken : p <= out[k][1] /\ \A q \in p..out[k][1] - 1 : text[q] \in Blank

(* The scanner reads a file one element at a time as Statements has it.    *)
(* While it is inside an element, that element is still to be read, except *)
(* a line comment, which ends with the file if not before.                 *)
InElement == state.kind \notin {"Normal", "LineComment"}

NextLine(t, p) ==
    LET nl == {q \in p..Len(t) : t[q] = Newline}
    IN  IF nl = {} THEN Len(t) + 1 ELSE 1 + CHOOSE q \in nl : \A r \in nl : q <= r

ReadPos ==
    CASE InElement -> from
      [] state.kind = "LineComment" -> NextLine(text, from)
      [] OTHER -> i

ReadBegin == IF InElement /\ start = from THEN 0 ELSE start

Reader == INSTANCE Statements WITH pos <- ReadPos, begin <- ReadBegin

ReadsAsSql == Reader!Spec

(* A statement on its own is one statement: wherever the file was cut, the *)
(* piece has no semicolon that would cut it again, and no open element.    *)
(* Semicolons are found by reading the piece as Statements does.           *)
Uncut(t) ==
    LET whole[p \in 1..Len(t) + 1] ==
            \/ p > Len(t)
            \/ /\ Reader!Kind(t, p) # "separator"
               /\ Reader!ElementEnd(t, p) # 0
               /\ whole[Reader!ElementEnd(t, p)]
    IN  whole[1]

EachIsOneStatement ==
    \A k \in DOMAIN out : Uncut(SubSeq(text, out[k][1], out[k][2]))

(* The scan ends, with statements or an error, whatever the file holds. *)
EveryScanEnds == <>(result # "none")
=============================================================================
