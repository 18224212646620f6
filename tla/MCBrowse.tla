------------------------------- MODULE MCBrowse -------------------------------
(***************************************************************************)
(* MdnsBrowser with blocks, types, texts and hosts that are exchangeable:  *)
(* no action or property tells one of them from another.                   *)
(***************************************************************************)
EXTENDS MdnsBrowser, TLC

Symmetry ==
  Permutations(Browses) \cup Permutations(Types) \cup Permutations(Instances)
    \cup Permutations(Hosts) \cup Permutations(Texts)
=============================================================================
