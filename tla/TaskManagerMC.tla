--------------------------- MODULE TaskManagerMC ---------------------------
(* Instances of the task manager for TLC. *)
EXTENDS TaskManager, TLC

\* Keys are handed out in some order and clients are alike, so both kinds of
\* model value may be permuted in the runs that check safety alone.
KeysAndClients == Permutations(Keys) \cup Permutations(Clients)
=============================================================================
