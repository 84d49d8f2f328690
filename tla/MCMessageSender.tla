--------------------------- MODULE MCMessageSender ---------------------------
(* Small instance of MessageSender. Threads of the user are interchangeable. *)
EXTENDS MessageSender, TLC

Symmetry == Permutations(Users)
=============================================================================
