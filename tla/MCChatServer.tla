---------------------------- MODULE MCChatServer ----------------------------
(* Instances of ChatServer for TLC. *)
EXTENDS ChatServerProps, TLC

Sym == Permutations(Session) \cup Permutations(Turn)
=============================================================================
