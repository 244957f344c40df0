-------------------------- MODULE MCStoreSessions --------------------------
(* Instances of StoreSessions for TLC. *)
EXTENDS StoreSessions, TLC

Symmetry == Permutations(Sessions) \cup Permutations(Runs)
              \cup Permutations(Keys)
=============================================================================
