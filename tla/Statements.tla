----------------------------- MODULE Statements -----------------------------
(***************************************************************************)
(* What splitting a migration file promises (splitter.rs, module comment): *)
(* the file is read one lexical element at a time, each ending where SQL   *)
(* says it ends; statements lie between the semicolons that are elements   *)
(* of their own, start at the first element that is not blank or comment,  *)
(* and are trimmed.  Where an element ends is defined by looking at the    *)
(* text as a whole, not by scanning it; 0 stands for "nowhere".            *)
(***************************************************************************)
EXTENDS SqlText

VARIABLES
    text,    \* the file
    pos,     \* where the next element begins
    begin,   \* where the current chunk has its first SQL, 0 if nowhere yet
    out,     \* the statements so far
    result   \* "none" while reading, "ok", or what is unterminated

absVars == <<text, pos, begin, out, result>>

LeastOrZero(S) == IF S = {} THEN 0 ELSE CHOOSE q \in S : \A r \in S : q <= r
Greatest(S) == CHOOSE q \in S : \A r \in S : q >= r

(***************************************************************************)
(* Where the element that begins at `p` ends                               *)
(***************************************************************************)

(* A line comment extends to the end of its line, or of the file. *)
LineEnd(t, p) ==
    LET q == LeastOrZero({r \in p..Len(t) : t[r] = Newline})
    IN  IF q = 0 THEN Len(t) + 1 ELSE q + 1

(* Comment ::= slash-star (Comment | any other character)* star-slash *)
CommentEnd(t, p) ==
    LET body[q \in 1..Len(t) + 1] ==
            CASE q > Len(t) -> 0
              [] Pair(t, q, "*", "/") -> q + 2
              [] Pair(t, q, "/", "*") ->
                    IF body[q + 2] = 0 THEN 0 ELSE body[body[q + 2]]
              [] OTHER -> body[q + 1]
    IN  body[p + 2]

(* In an escape string a character is escaped by the last of an odd number *)
(* of backslashes.                                                         *)
EscapedIn(t, p, k) ==
    LET b == Greatest({j \in p..k - 1 : t[j] # Backslash})
    IN  (k - 1 - b) % 2 = 1

(* A quoted element closes at the last of an odd run of its marks: the     *)
(* others pair up to marks inside it.                                      *)
QuotedEnd(t, p, escapes) ==
    LET free(k) == ~(escapes /\ EscapedIn(t, p, k))
        before(k) == Greatest({j \in p..k - 1 : j = p \/ t[j] # t[p] \/ ~free(j)})
        k == LeastOrZero({q \in p + 1..Len(t) :
                /\ t[q] = t[p] /\ free(q)
                /\ (q - before(q)) % 2 = 1
                /\ At(t, q + 1) # t[p]})
    IN  IF k = 0 THEN 0 ELSE k + 1

(* A quote has backslash escapes when the token before it is just an E. *)
EscapeString(t, p) == At(t, p - 1) \in {"E", "e"} /\ At(t, p - 2) \notin IdentChar

(* The end of the dollar tag that opens at `p`: $$ or $tag$, where the tag *)
(* is an identifier.                                                       *)
TagEnd(t, p) ==
    LeastOrZero({q \in p + 1..Len(t) :
        /\ t[q] = "$" /\ At(t, p + 1) \notin Digit
        /\ \A r \in p + 1..q - 1 : t[r] \in IdentChar})

(* A dollar quote extends to the next occurrence of its tag. *)
DollarEnd(t, p) ==
    LET n == TagEnd(t, p) - p + 1
        k == LeastOrZero({q \in p + n..Len(t) - n + 1 :
                \A d \in 0..n - 1 : t[q + d] = t[p + d]})
    IN  IF k = 0 THEN 0 ELSE k + n

Kind(t, p) ==
    CASE t[p] = ";" -> "separator"
      [] Pair(t, p, "-", "-") -> "line comment"
      [] Pair(t, p, "/", "*") -> "block comment"
      [] t[p] = Quote -> "string literal"
      [] t[p] = DoubleQuoteMark -> "quoted identifier"
      [] t[p] = "$" /\ TagEnd(t, p) # 0 -> "dollar quote"
      [] t[p] \in AsciiBlank -> "blank"
      [] OTHER -> "code"

ElementEnd(t, p) ==
    CASE Kind(t, p) = "line comment" -> LineEnd(t, p)
      [] Kind(t, p) = "block comment" -> CommentEnd(t, p)
      [] Kind(t, p) = "string literal" -> QuotedEnd(t, p, EscapeString(t, p))
      [] Kind(t, p) = "quoted identifier" -> QuotedEnd(t, p, FALSE)
      [] Kind(t, p) = "dollar quote" -> DollarEnd(t, p)
      [] OTHER -> p + 1

(***************************************************************************)
(* Reading a file                                                          *)
(***************************************************************************)

Init ==
    /\ text \in Seq(STRING)
    /\ pos = 1
    /\ begin = 0
    /\ out = <<>>
    /\ result = "none"

Reading == result = "none" /\ pos <= Len(text)

(* The chunk that ends before `p` is a statement, unless it holds no SQL. *)
Flush(p) ==
    LET chunk == IF begin = 0 THEN {} ELSE Trimmed(text, begin, p - 1)
    IN  IF chunk = {} THEN UNCHANGED out
        ELSE \E s \in chunk : out' = Append(out, s)

Separate ==
    /\ Reading
    /\ Kind(text, pos) = "separator"
    /\ Flush(pos)
    /\ begin' = 0
    /\ pos' = pos + 1
    /\ UNCHANGED <<text, result>>

(* Blanks and comments neither begin a statement nor end one. *)
Skip ==
    /\ Reading
    /\ Kind(text, pos) \in {"blank", "line comment", "block comment"}
    /\ ElementEnd(text, pos) # 0
    /\ pos' = ElementEnd(text, pos)
    /\ UNCHANGED <<text, begin, out, result>>

Take ==
    /\ Reading
    /\ Kind(text, pos) \in {"string literal", "quoted identifier", "dollar quote", "code"}
    /\ ElementEnd(text, pos) # 0
    /\ pos' = ElementEnd(text, pos)
    /\ begin' = IF begin = 0 THEN pos ELSE begin
    /\ UNCHANGED <<text, out, result>>

(* The file ends inside an element: there are no statements, only an error. *)
Refuse ==
    /\ Reading
    /\ ElementEnd(text, pos) = 0
    /\ result' = Kind(text, pos)
    /\ out' = <<>>
    /\ UNCHANGED <<text, pos, begin>>

Accept ==
    /\ result = "none"
    /\ pos = Len(text) + 1
    /\ Flush(pos)
    /\ result' = "ok"
    /\ UNCHANGED <<text, pos, begin>>

Next == Separate \/ Skip \/ Take \/ Refuse \/ Accept

Spec == Init /\ [][Next]_absVars
=============================================================================
