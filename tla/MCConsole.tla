----------------------------- MODULE MCConsole -----------------------------
(* The addresses typed by hand name a section that may be hidden and a page *)
(* that does not exist; links lead to the rest.                             *)
EXTENDS Console, TLC
MCTypedHashes == {PlainHash("other")} \cup {ServerHash(s, "processes") : s \in Servers}
Symmetry == Permutations(Servers)
=============================================================================
