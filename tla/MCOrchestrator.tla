--------------------------- MODULE MCOrchestrator ---------------------------
(* One fabric, its service and its workers, for TLC. *)
EXTENDS Orchestrator, TLC

CONSTANTS i1, f1, d1, d2, k1, p1, a1, a2, c1

OneIntent  == [p \in Plans |-> i1]
OneFabric  == [i \in Intents |-> f1]
TwoDevices == [f \in Fabrics |-> <<d1, d2>>]
OneDesign  == [k \in Demands |-> i1]

\* Once the design was applied it cannot be planned again.
PlanOnce == [i \in Intents |-> [n \in 0..2 |-> IF n = 0 THEN p1 ELSE None]]

\* The second release renders the first plan in another way.
TwoReleases == <<[p \in Plans |-> a1], [p \in Plans |-> a2]>>
Confirmation == [p \in Plans |-> c1]

\* One block, on the first device; the second has none in this phase.  The gates
\* are left to ApplyWorker's own run.
PolicyOnly == <<"policy_plane">>
FirstOnly ==
  [a \in Artifacts |-> [d \in {d1, d2} |->
     [ph \in {"policy_plane"} |-> IF d = d1 THEN 1 ELSE 0]]]
NoGate == [ph \in {"policy_plane"} |-> 0]

NoneBlocked == {}
=============================================================================
