----------------------------- MODULE MCSessions -----------------------------
(* An instance of modules Sessions and SessionsUse. *)
EXTENDS SessionsUse, TLC

Symmetry == Permutations(Handlers) \cup Permutations(Ids)
=============================================================================
