------------------------------- MODULE MCAdopt ------------------------------
(***************************************************************************)
(* Instances of Adopt for TLC: two milliseconds to the second and journals *)
(* whose creation times share a second or go backwards.                    *)
(***************************************************************************)
EXTENDS Adopt, TLC

CONSTANTS a1, a2, x, y, own, torn

E(i, w, f) == [idx |-> i, when |-> w, file |-> f]

Journal(d, entries) == [dialect |-> d, entries |-> entries]

(* Two entries of the same second, out of order in the file.  drizzle-kit  *)
(* appends a third, which may be older than both.                          *)
RaceJournals == {Journal("postgres", <<E(1, 3, y), E(0, 2, x)>>)}

(* Also a journal with a missing file, one that a bump takes out of range, *)
(* and dialects that are not the database's or not supported at all.       *)
Journals ==
    RaceJournals \cup
    {Journal("postgres", <<E(0, 2, x), E(1, 4, None), E(2, 4, y)>>),
     Journal("postgres", <<E(0, 4, x), E(1, 4, y), E(2, 4, x)>>),
     Journal("sqlite", <<E(0, 2, x), E(1, 2, x), E(2, 2, x)>>),
     Journal("mysql", <<E(0, 2, x), E(1, 2, x), E(2, 2, x)>>)}

(* A fresh directory, or one with a file of ours in the way. *)
Dirs == {Empty, [Empty EXCEPT ![2] = own]}

(* No table, or both entries of the race applied; of those that drizzle-kit *)
(* adds, one that is older counts as applied, a later one is pending.      *)
Tables == {None, {2, 3}}

AdopterSymmetry == Permutations(Adopter)
=============================================================================
