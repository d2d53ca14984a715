----------------------------- MODULE MCSplitter -----------------------------
(***************************************************************************)
(* Files put together from the pieces that mean something to the splitter. *)
(***************************************************************************)
EXTENDS Splitter, SequencesExt

CONSTANTS
    MixedLength,    \* bound: pieces per file of any pieces
    SpecialLength   \* bound: characters inside an opened element

MCLetter == {"E", "e", "x"}
MCDigit == {"1"}
MCAsciiBlank == {" ", "\n"}
MCBlank == {" ", "\n", "VT"}

Pieces ==
    {<<";">>, <<"-", "-">>, <<"/", "*">>, <<"*", "/">>, <<"'">>, <<"\"">>,
     <<"\\">>, <<"$">>, <<"$", "x", "$">>, <<"E">>, <<"x">>, <<"1">>,
     <<"\n">>, <<" ">>, <<"VT">>}

Of(S, n) == UNION {[1..m -> S] : m \in 0..n}

Mixed == {FlattenSeq(s) : s \in Of(Pieces, MixedLength)}

(* Longer files around one kind of element, followed by a new statement. *)
Around(open, S) == {<<"x">> \o open \o s \o <<";", "x">> : s \in Of(S, SpecialLength)}

MCTexts ==
    Mixed
    \cup Around(<<" ", "E", "'">>, {"'", "\\", ";"})
    \cup Around(<<"E", "'">>, {"'", "\\", ";"})
    \cup Around(<<"\"">>, {"\"", "'", ";"})
    \cup Around(<<"/", "*">>, {"*", "/", "-"})
    \cup Around(<<"$", "x", "$">>, {"$", "x", ";"})
    \cup Around(<<"$", "$">>, {"$", "x", "1"})
=============================================================================
