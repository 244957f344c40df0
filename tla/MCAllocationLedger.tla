------------------------- MODULE MCAllocationLedger -------------------------
(* Two sites in one allocation domain and one in another. *)
EXTENDS AllocationLedger, TLC

CONSTANTS A, B, C, east, west

First(p, lo, hi, n) == [how |-> "first", pool |-> p, lo |-> lo, hi |-> hi,
                        size |-> n, value |-> 0]
Value(p, lo, hi, v) == [how |-> "value", pool |-> p, lo |-> lo, hi |-> hi,
                        size |-> 1, value |-> v]
Derive(p, base, hi) == [how |-> "derived", pool |-> p, lo |-> base, hi |-> hi,
                        size |-> 1, value |-> 0]

\* A needs an address, a VLAN and its L2 instance; B a subnet of two and the
\* VLAN 1; C is A's address elsewhere.
TheItems ==
  A :> <<First("net", 0, 3, 1), First("vlan", 1, 2, 1), Derive("l2", 10, 12)>> @@
  B :> <<First("net", 0, 3, 2), Value("vlan", 1, 2, 1)>> @@
  C :> <<First("net", 0, 3, 1)>>
TheDomains == A :> east @@ B :> east @@ C :> west
ThePolicy == "net" :> {0} @@ "vlan" :> {} @@ "l2" :> {}

Symmetry == Permutations(Sessions) \cup Permutations(Reservations)
              \cup Permutations(Keys)
=============================================================================
