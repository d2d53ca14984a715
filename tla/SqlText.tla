------------------------------ MODULE SqlText ------------------------------
(***************************************************************************)
(* Migration files as the splitter sees them: sequences of characters, and *)
(* the classes of characters it tells apart.  A statement is the pair of   *)
(* its first and last position.                                            *)
(***************************************************************************)
EXTENDS Integers, Sequences

CONSTANTS
    Letter,      \* ASCII letters
    Digit,       \* ASCII digits
    AsciiBlank,  \* what is_ascii_whitespace accepts
    Blank        \* what char::is_whitespace, and so trim, accepts

Newline == "\n"
Backslash == "\\"
Quote == "'"
DoubleQuoteMark == "\""
Special == {";", "-", "/", "*", "$", "_", Quote, DoubleQuoteMark, Backslash}

ASSUME CharacterAssumption ==
    /\ {"E", "e"} \subseteq Letter
    /\ Newline \in AsciiBlank
    /\ AsciiBlank \subseteq Blank
    /\ Blank \cap (Letter \cup Digit \cup Special) = {}
    /\ Letter \cap Digit = {}
    /\ Special \cap (Letter \cup Digit) = {}

(* Outside a text there is no character, only the empty string (see At). *)
ASSUME NoCharacterAssumption == "" \notin Letter \cup Digit

IdentChar == Letter \cup Digit \cup {"_"}

(* bytes.get: the character at `p`, or the empty string outside `t`. *)
At(t, p) == IF p \in 1..Len(t) THEN t[p] ELSE ""

Pair(t, p, a, b) == At(t, p) = a /\ At(t, p + 1) = b

(* str::trim of the characters lo..hi: a statement, or nothing at all. *)
Trimmed(t, lo, hi) ==
    {s \in (lo..hi) \X (lo..hi) :
        /\ t[s[1]] \notin Blank /\ t[s[2]] \notin Blank
        /\ \A q \in lo..hi : t[q] \notin Blank => s[1] <= q /\ q <= s[2]}
=============================================================================
