------------------------------- MODULE MCRecords -------------------------------
(***************************************************************************)
(* MdnsRecords with names, subtypes and keys that are exchangeable: no     *)
(* action or property tells one of them from another.                      *)
(***************************************************************************)
EXTENDS MdnsRecords

Symmetry == Permutations(Names) \cup Permutations(Subtypes) \cup Permutations(Keys)
=============================================================================
