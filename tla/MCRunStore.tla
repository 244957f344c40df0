----------------------------- MODULE MCRunStore -----------------------------
(* Instances of RunStore for TLC. *)
EXTENDS RunStore, TLC

CONSTANTS i1, i2, f1, f2

\* The other intent is there for reservations of another design.
PlanIntents == [p \in Plans |-> i1]

\* Every intent has a fabric of its own, as long as there are fabrics.
IntentFabrics == [i \in Intents |-> IF i = i2 /\ f2 \in Fabrics THEN f2 ELSE f1]

\* Rows, keys, people and renderings are interchangeable; intents, plans and
\* fabrics are not.
Symmetry == Permutations(Runs) \cup Permutations(Keys)
              \cup Permutations(Actors) \cup Permutations(Artifacts)
              \cup Permutations(Reservations)
=============================================================================
