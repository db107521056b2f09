----------------------------- MODULE MCToolHost -----------------------------
(* Instances of ToolHost for TLC. *)
EXTENDS ToolHostProps, TLC

Sym == Permutations(Task) \cup Permutations(Store) \cup Permutations(Key)
=============================================================================
