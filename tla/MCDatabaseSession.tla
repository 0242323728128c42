-------------------------- MODULE MCDatabaseSession --------------------------
(* A small instance of the session: an author and two books that refer to it. *)
EXTENDS DatabaseSession, TLC

CONSTANTS author, book1, book2, v1, v2

MCClass == [i \in Items |-> IF i = author THEN "Author" ELSE "Book"]
MCRefs == [i \in Items |-> IF i = author THEN {} ELSE {author}]
Symmetry == Permutations({book1, book2}) \cup Permutations({v1, v2})
=============================================================================
