---------------------------- MODULE MigrationRows ---------------------------
(***************************************************************************)
(* Tables of migrations: the migrations directory, a listing of it, the    *)
(* rows a transaction inserts and the tracking table are all functions     *)
(* from file names to contents, None where there is no entry.              *)
(*                                                                         *)
(* A file name is a number: names sort by their timestamp prefix, so only  *)
(* their order matters.  A content stands for the SHA-256 checksum of the  *)
(* file with its line endings normalised: two contents are equal exactly   *)
(* when their checksums are.                                               *)
(***************************************************************************)
EXTENDS Naturals

CONSTANTS
    Name,      \* migration file names, in apply order
    Content,   \* file contents, identified with their checksums
    None       \* "no row", "no file", "no batch"

ASSUME NameAssumption == Name \subseteq Nat

ASSUME NoneAssumption == None \notin Content

Row == Content \cup {None}

Table == [Name -> Row]

Entry == [name : Name, content : Content]

Empty == [n \in Name |-> None]

(* The names a table gives a content to. *)
Listed(f) == {n \in Name : f[n] # None}

(* The table with the entries of `f` named in `S`. *)
Selected(f, S) == [n \in Name |-> IF n \in S THEN f[n] ELSE None]

(* `f` completed by the entries of `g`. *)
Merge(f, g) == [n \in Name |-> IF g[n] # None THEN g[n] ELSE f[n]]
=============================================================================
