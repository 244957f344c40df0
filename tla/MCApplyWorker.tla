--------------------------- MODULE MCApplyWorker ---------------------------
(* One fabric of two devices and its workers, for TLC. *)
EXTENDS ApplyWorker, TLC

CONSTANTS i1, f1, d1, d2, a1

OneIntent  == [p \in Plans |-> i1]
OneFabric  == [i \in Intents |-> f1]
TwoDevices == [f \in Fabrics |-> <<d1, d2>>]

\* The underlay touches the first device; the policy plane follows the ISE
\* transaction, touches the second one and ends with a gate.
TwoPhases == <<"underlay", "policy_plane">>
Blocks ==
  [a \in Artifacts |->
     (d1 :> [ph \in {"underlay", "policy_plane"} |->
               IF ph = "underlay" THEN 1 ELSE 0])
     @@ (d2 :> [ph \in {"underlay", "policy_plane"} |->
                  IF ph = "underlay" THEN 0 ELSE 1])]
PolicyGate == [ph \in {"underlay", "policy_plane"} |->
                 IF ph = "underlay" THEN 0 ELSE 1]

\* The second artifact has blockers that nobody allowed.
SecondBlocked == Artifacts \ {a1}

Symmetry == Permutations(Runs) \cup Permutations(Keys)
              \cup Permutations(Actors) \cup Permutations(Workers)
              \cup Permutations(Reservations)
=============================================================================
