------------------------ MODULE DocumentChecksProofs ------------------------
(***************************************************************************)
(* What the checks of documents find, for every document of their types.   *)
(*                                                                         *)
(* A registry of acceptance gates: the depth first search of acceptance.py *)
(* is compared with the least set of gates that a gate waits for (Below).  *)
(* Sound says what the marks of a search mean: what was left has all it    *)
(* waits for left as well and is not below itself, and a gate that was     *)
(* entered only is on the stack.  Each call keeps it, for a search that is *)
(* nested deeper by induction on the depth.                                *)
(*                                                                         *)
(* A campus: the walks of allocator.py and intent.py are compared with the *)
(* sets of nodes above a node.  Labelled says what the depths mean: each   *)
(* is one more than that of the parent, so that it counts the nodes above; *)
(* Climbing says what a trail is; together they survive every walk, in     *)
(* whatever order the nodes come.                                          *)
(*                                                                         *)
(* Requirements: each group of issues that intent.py raises is compared    *)
(* with what allocator.py accepted and derived.  Four groups are empty     *)
(* exactly when names, roles and the number of nodes are in order; if they *)
(* are, all others are empty but two: that of the peers exactly when they  *)
(* leave nothing unconnected or on a single path, and that of the SXP      *)
(* connections exactly when there are enough.                              *)
(***************************************************************************)
EXTENDS DocumentChecks, FlattenLemmas

-----------------------------------------------------------------------------
(* The gates of a registry.                                                 *)

\* Gate(reg, id) is the entry of that name in gates_by_id (acceptance.py:182-198).
LEMMA GateFound ==
  ASSUME NEW reg \in Registry
  PROVE  /\ GateIds(reg) \subseteq Names
         /\ \A id \in GateIds(reg) :
              Gate(reg, id) \in ToSet(reg.gates) /\ Gate(reg, id).id = id
         /\ ToSet(reg.gates) \subseteq GateRecord
<1> DEFINE gates == reg.gates
<1>1. gates \in Seq(GateRecord)
  BY DEF Registry
<1>2. /\ Len(gates) \in Nat /\ DOMAIN gates = 1..Len(gates)
      /\ \A i \in 1..Len(gates) : gates[i] \in GateRecord
  BY <1>1
<1> HIDE DEF gates
<1>3. ToSet(gates) \subseteq GateRecord
  BY <1>2 DEF ToSet
<1>4. ASSUME NEW id \in GateIds(reg)
      PROVE  Gate(reg, id) \in ToSet(gates) /\ Gate(reg, id).id = id
  <2> DEFINE I == {i \in 1..Len(gates) : gates[i].id = id}
  <2>1. PICK k \in 1..Len(gates) : gates[k].id = id
    BY <1>2, <1>4 DEF GateIds, ToSet, gates
  <2>2. I \subseteq Nat /\ I # {}
    BY <2>1
  <2>3. SelectInSeq(gates, LAMBDA g : g.id = id) = Min(I)
    BY <2>2 DEF SelectInSeq
  <2>4. Min(I) \in I
    <3>1. PICK m \in I : \A n \in I : m <= n
      BY <2>2, LeastNat
    <3>2. Min(I) = CHOOSE x \in I : \A y \in I : x <= y
      BY DEF Min
    <3> HIDE DEF I
    <3> QED
      BY <3>1, <3>2
  <2>5. Gate(reg, id) = gates[Min(I)]
    BY <2>3 DEF Gate, gates
  <2> QED
    BY <1>2, <2>4, <2>5 DEF ToSet
<1>5. GateIds(reg) \subseteq Names
  BY <1>3 DEF GateIds, GateRecord, gates
<1> QED
  BY <1>3, <1>4, <1>5 DEF gates

\* There are no more names of gates than gates.
LEMMA GatesFinite ==
  ASSUME NEW reg \in Registry
  PROVE  IsFiniteSet(GateIds(reg)) /\ Len(reg.gates) \in Nat
         /\ Cardinality(GateIds(reg)) \in Nat
         /\ Cardinality(GateIds(reg)) <= Len(reg.gates)
<1> DEFINE n == Len(reg.gates)
           h == [i \in 1..n |-> reg.gates[i].id]
<1>1. n \in Nat /\ DOMAIN reg.gates = 1..n
  BY DEF Registry
<1>2. GateIds(reg) = {h[i] : i \in 1..n}
  BY <1>1 DEF GateIds, ToSet
<1>3. h \in Surjection(1..n, GateIds(reg))
  BY <1>2 DEF Surjection
<1> HIDE DEF h
<1>4. IsFiniteSet(1..n) /\ Cardinality(1..n) = n
  BY <1>1, FS_Interval
<1>5. IsFiniteSet(GateIds(reg)) /\ Cardinality(GateIds(reg)) <= Cardinality(1..n)
  BY <1>3, <1>4, FS_Surjection
<1> QED
  BY <1>1, <1>4, <1>5, FS_CardinalityType

\* What a gate depends on is below it, and so is what is below that.
LEMMA BelowCloses ==
  ASSUME NEW reg, NEW id
  PROVE  /\ DependsOn(reg, Gate(reg, id)) \subseteq Below(reg, id)
         /\ Below(reg, id) \subseteq GateIds(reg)
         /\ \A x \in Below(reg, id) : DependsOn(reg, Gate(reg, x)) \subseteq Below(reg, id)
         /\ \A S \in SUBSET GateIds(reg) :
              DependsOn(reg, Gate(reg, id)) \subseteq S /\ Closed(reg, S)
                => Below(reg, id) \subseteq S
<1>1. \A x : DependsOn(reg, Gate(reg, x)) \subseteq GateIds(reg)
  BY DEF DependsOn
<1> QED
  BY <1>1 DEF Below, Closed

-----------------------------------------------------------------------------
(* _detect_dependency_cycles.                                               *)

Visitors(reg) == [Names -> [Searches(reg) -> Searches(reg)]]

\* Marking a gate as entered makes a search again.
LEMMA EnterTyped ==
  ASSUME NEW reg, NEW s \in Searches(reg), NEW id \in GateIds(reg)
  PROVE  /\ [s EXCEPT !.cyclic = TRUE] \in Searches(reg)
         /\ [s EXCEPT !.entered = @ \cup {id}] \in Searches(reg)
         /\ [s EXCEPT !.left = @ \cup {id}] \in Searches(reg)
BY DEF Searches

\* A call of visit takes a search to a search.
LEMMA VisitTyped ==
  ASSUME NEW reg \in Registry, NEW deeper \in Visitors(reg)
  PROVE  Visit(reg, deeper) \in Visitors(reg)
<1> DEFINE S == Searches(reg)
<1>1. ASSUME NEW id \in Names, NEW s \in S, id \in GateIds(reg)
      PROVE  LET below == FoldLeft(LAMBDA t, d : deeper[d][t],
                                [s EXCEPT !.entered = @ \cup {id}],
                                Gate(reg, id).deps)
             IN [below EXCEPT !.left = @ \cup {id}] \in S
  <2> DEFINE base == [s EXCEPT !.entered = @ \cup {id}]
             seq == Gate(reg, id).deps
  <2>1. base \in S
    BY <1>1, EnterTyped
  <2>2. seq \in Seq(Names)
    BY <1>1, GateFound DEF GateRecord
  <2> HIDE DEF base, seq, S
  <2>3. deeper \in [Names -> [S -> S]]
    BY DEF Visitors, S
  <2>4. PICK acc : Folding(S, deeper, base, seq, acc)
    BY <2>1, <2>2, <2>3, FoldLeftRuns
  <2>5. Len(seq) \in 0..Len(seq)
    BY <2>2
  <2>6. FoldLeft(LAMBDA t, d : deeper[d][t], base, seq) \in S
    BY <2>4, <2>5 DEF Folding
  <2> QED
    BY <1>1, <2>6, EnterTyped DEF S, base, seq
<1>2. ASSUME NEW id \in Names, NEW s \in S
      PROVE  Visit(reg, deeper)[id][s] \in S
  <2>1. CASE id \notin GateIds(reg) \/ id \in s.left
    BY <2>1 DEF Visit
  <2>2. CASE id \in GateIds(reg) /\ id \notin s.left /\ id \in s.entered
    BY <2>2, EnterTyped DEF Visit
  <2>3. CASE id \in GateIds(reg) /\ id \notin s.left /\ id \notin s.entered
    BY <1>1, <2>3 DEF Visit
  <2> QED
    BY <2>1, <2>2, <2>3
<1>3. /\ Visit(reg, deeper) = [id \in Names |-> Visit(reg, deeper)[id]]
      /\ \A id \in Names : Visit(reg, deeper)[id] = [s \in S |-> Visit(reg, deeper)[id][s]]
  BY DEF Visit
<1> QED
  BY <1>2, <1>3 DEF Visitors

\* visit, nested n + 1 deep, calls visit, nested n deep.
LEMMA VisitsUnfold ==
  ASSUME NEW reg \in Registry
  PROVE  /\ Visits(reg) \in [Nat -> Visitors(reg)]
         /\ \A k \in Nat : Visits(reg)[k + 1] = Visit(reg, Visits(reg)[k])
<1> DEFINE V == Visitors(reg)
           base == [id \in Names |-> [s \in Searches(reg) |-> s]]
           step == [v \in V |-> Visit(reg, v)]
           c == CHOOSE visit : visit = [depth \in Nat |->
                  IF depth = 0 THEN base ELSE Visit(reg, visit[depth - 1])]
<1>1. base \in V
  BY DEF Visitors
<1>2. step \in [V -> V]
  BY VisitTyped
<1>3. PICK f : Sequel(V, base, step, f)
  <2> HIDE DEF V, base, step
  <2> QED
    BY <1>1, <1>2, NatRecursion
<1>4. \A n \in Nat : n # 0 => n - 1 \in Nat /\ n - 1 + 1 = n
  OBVIOUS
<1>5. \A n \in Nat : f[n] = IF n = 0 THEN base ELSE Visit(reg, f[n - 1])
  <2> TAKE n \in Nat
  <2> HIDE DEF V, base
  <2>1. CASE n = 0
    BY <1>3, <2>1 DEF Sequel
  <2>2. CASE n # 0
    BY <1>3, <1>4, <2>2 DEF Sequel
  <2> QED
    BY <2>1, <2>2
<1>6. f = [depth \in Nat |-> IF depth = 0 THEN base ELSE Visit(reg, f[depth - 1])]
  <2> HIDE DEF V, base
  <2> QED
    BY <1>3, <1>5 DEF Sequel
<1>7. c = [depth \in Nat |-> IF depth = 0 THEN base ELSE Visit(reg, c[depth - 1])]
  <2> HIDE DEF base
  <2> QED
    BY <1>6
<1>8. Visits(reg) = c
  BY DEF Visits
<1> HIDE DEF base, step, c, V
<1>9. c[0] = base /\ \A n \in Nat : c[n + 1] = Visit(reg, c[n])
  <2>1. \A n \in Nat : n + 1 \in Nat /\ n + 1 # 0 /\ n + 1 - 1 = n
    OBVIOUS
  <2> QED
    BY <1>7, <2>1
<1> DEFINE T == {n \in Nat : c[n] \in V}
<1>10. 0 \in T
  BY <1>1, <1>9
<1>11. ASSUME NEW n \in Nat, n \in T
       PROVE  n + 1 \in T
  BY <1>9, <1>11, VisitTyped DEF V
<1> HIDE DEF T
<1>12. Nat \subseteq T
  BY <1>10, <1>11, SetInduction
<1>13. \A n \in Nat : c[n] \in V
  BY <1>12 DEF T
<1>14. c \in [Nat -> V]
  BY <1>7, <1>13
<1> QED
  BY <1>8, <1>9, <1>14 DEF V

\* What the marks of a search mean: no gate that was left waits for itself, or
\* for a gate that was not left, unless a cycle was found; and then there is one.
Sound(reg, s) ==
  /\ s.left \subseteq s.entered
  /\ s.cyclic => Circular(reg)
  /\ ~s.cyclic => Closed(reg, s.left) /\ \A x \in s.left : x \notin Below(reg, x)

\* The gates that are being visited.
Stack(s) == s.entered \ s.left

\* What a search is after a visit of id.
Visited(reg, s, id, r) ==
  /\ r \in Searches(reg) /\ Sound(reg, r)
  /\ Stack(r) = Stack(s) /\ s.entered \subseteq r.entered /\ s.left \subseteq r.left
  /\ s.cyclic => r.cyclic
  /\ id \in GateIds(reg) => id \in r.left \/ r.cyclic

\* visit does that when every gate that is being visited waits for the one it is
\* called with, and it may go deep enough.
VisitsWell(reg, visit, depth) ==
  \A s \in Searches(reg), id \in Names :
    /\ Sound(reg, s)
    /\ id \in GateIds(reg) => \A x \in Stack(s) : id \in Below(reg, x)
    /\ Cardinality(GateIds(reg) \ s.entered) < depth
    => Visited(reg, s, id, visit[id][s])

\* What it is after a visit of each gate of seq in turn, and when.
VisitedAll(reg, s, seq, r) ==
  /\ r \in Searches(reg) /\ Sound(reg, r)
  /\ Stack(r) = Stack(s) /\ s.entered \subseteq r.entered /\ s.left \subseteq r.left
  /\ s.cyclic => r.cyclic
  /\ \A d \in ToSet(seq) \cap GateIds(reg) : d \in r.left \/ r.cyclic

Awaited(reg, s, seq) ==
  \A i \in 1..Len(seq) : seq[i] \in GateIds(reg) =>
    \A x \in Stack(s) : seq[i] \in Below(reg, x)

\* visit is called on the gates of a list in turn (acceptance.py:112-114, 118-120):
\* what each call keeps is kept by all, and each gate of the list is left.
LEMMA VisitsInTurn ==
  ASSUME NEW reg \in Registry, NEW visit \in Visitors(reg), NEW depth \in Nat,
         VisitsWell(reg, visit, depth),
         NEW base \in Searches(reg), Sound(reg, base),
         Cardinality(GateIds(reg) \ base.entered) < depth,
         NEW seq \in Seq(Names), Awaited(reg, base, seq)
  PROVE  VisitedAll(reg, base, seq, FoldLeft(LAMBDA t, d : visit[d][t], base, seq))
<1> DEFINE S == Searches(reg)
           G == GateIds(reg)
           r == FoldLeft(LAMBDA t, d : visit[d][t], base, seq)
<1>9. PICK acc : Folding(S, visit, base, seq, acc)
  <2> HIDE DEF S
  <2>1. visit \in [Names -> [S -> S]] /\ base \in S
    BY DEF Visitors, S
  <2> QED
    BY <2>1, FoldLeftRuns
<1>1. /\ acc[0] = base
      /\ \A i \in 1..Len(seq) : acc[i] = visit[seq[i]][acc[i - 1]]
      /\ r = acc[Len(seq)]
  BY <1>9 DEF Folding
<1>2. Len(seq) \in Nat /\ DOMAIN seq = 1..Len(seq) /\ \A i \in 1..Len(seq) : seq[i] \in Names
  OBVIOUS
<1>3. IsFiniteSet(G)
  BY GatesFinite
<1> DEFINE Far(i) ==
             /\ acc[i] \in S /\ Sound(reg, acc[i])
             /\ Stack(acc[i]) = Stack(base) /\ base.entered \subseteq acc[i].entered
             /\ base.left \subseteq acc[i].left /\ (base.cyclic => acc[i].cyclic)
             /\ \A j \in 1..i : seq[j] \in G => seq[j] \in acc[i].left \/ acc[i].cyclic
           T == {i \in Nat : i <= Len(seq) => Far(i)}
<1> HIDE DEF r
<1>4. 0 \in T
  BY <1>1
<1>5. ASSUME NEW i \in Nat, i \in T
      PROVE  i + 1 \in T
  <2> SUFFICES ASSUME i + 1 <= Len(seq)
               PROVE  Far(i + 1)
    OBVIOUS
  <2>1. Far(i)
    BY <1>2, <1>5
  <2> HIDE DEF T
  <2> DEFINE s == acc[i]
             id == seq[i + 1]
  <2>2. i + 1 \in 1..Len(seq) /\ i + 1 - 1 = i
    BY <1>2
  <2>3. acc[i + 1] = visit[id][s] /\ id \in Names
    BY <1>1, <1>2, <2>2
  <2>4. Cardinality(G \ s.entered) < depth
    <3>1. G \ s.entered \subseteq G \ base.entered
      BY <2>1
    <3>2. IsFiniteSet(G \ base.entered)
      BY <1>3, FS_Subset
    <3>3. /\ Cardinality(G \ s.entered) <= Cardinality(G \ base.entered)
          /\ Cardinality(G \ base.entered) \in Nat /\ Cardinality(G \ s.entered) \in Nat
      BY <3>1, <3>2, FS_Subset, FS_CardinalityType
    <3> QED
      BY <3>3
  <2>5. id \in G => \A x \in Stack(s) : id \in Below(reg, x)
    BY <2>1, <2>2 DEF Awaited
  <2>6. Visited(reg, s, id, acc[i + 1])
    BY <2>1, <2>3, <2>4, <2>5 DEF VisitsWell
  <2>7. acc[i + 1] \in S /\ s \in S
    BY <2>1, <2>6 DEF Visited
  <2> HIDE DEF S, s, id
  <2>8. /\ Sound(reg, acc[i + 1]) /\ Stack(acc[i + 1]) = Stack(base)
        /\ base.entered \subseteq acc[i + 1].entered
        /\ base.left \subseteq acc[i + 1].left
    BY <2>1, <2>6 DEF Visited, s
  <2>9. base.cyclic => acc[i + 1].cyclic
    BY <2>1, <2>6 DEF Visited, s
  <2>10. ASSUME NEW j \in 1..(i + 1), seq[j] \in G
         PROVE  seq[j] \in acc[i + 1].left \/ acc[i + 1].cyclic
    <3>1. CASE j = i + 1
      BY <2>6, <2>10, <3>1 DEF Visited, id
    <3>2. CASE j \in 1..i
      BY <2>1, <2>6, <2>10, <3>2 DEF Visited, s
    <3> QED
      BY <3>1, <3>2
  <2> QED
    BY <2>7, <2>8, <2>9, <2>10
<1> HIDE DEF T
<1>6. Nat \subseteq T
  BY <1>4, <1>5, SetInduction
<1>7. Far(Len(seq))
  BY <1>2, <1>6 DEF T
<1>8. \A d \in ToSet(seq) \cap G : d \in acc[Len(seq)].left \/ acc[Len(seq)].cyclic
  BY <1>2, <1>7 DEF ToSet
<1>10. VisitedAll(reg, base, seq, acc[Len(seq)])
  BY <1>7, <1>8 DEF VisitedAll
<1> QED
  BY <1>1, <1>10 DEF r

\* A visit that enters a gate: its marks before and after what it depends on.
Through(reg, deeper, s, id) ==
  LET below == FoldLeft(LAMBDA t, d : deeper[d][t],
                        [s EXCEPT !.entered = @ \cup {id}], Gate(reg, id).deps)
  IN [below EXCEPT !.left = @ \cup {id}]

\* A call that enters a gate, visits what it depends on and leaves it
\* (acceptance.py:109-116) is a good one if the calls it makes are.
LEMMA EnterAndLeave ==
  ASSUME NEW reg \in Registry, NEW deeper \in Visitors(reg), NEW depth \in Nat,
         VisitsWell(reg, deeper, depth),
         NEW s \in Searches(reg), NEW id \in GateIds(reg), Sound(reg, s),
         \A x \in Stack(s) : id \in Below(reg, x),
         Cardinality(GateIds(reg) \ s.entered) < depth + 1,
         id \notin s.entered
  PROVE  Visited(reg, s, id, Through(reg, deeper, s, id))
<1> DEFINE G == GateIds(reg)
           base == [s EXCEPT !.entered = @ \cup {id}]
           seq == Gate(reg, id).deps
           below == FoldLeft(LAMBDA t, d : deeper[d][t], base, seq)
           r == [below EXCEPT !.left = @ \cup {id}]
<1>1. /\ base \in Searches(reg) /\ base.entered = s.entered \cup {id}
      /\ base.left = s.left /\ base.cyclic = s.cyclic
  BY EnterTyped DEF Searches
<1>2. seq \in Seq(Names) /\ ToSet(seq) \cap G = DependsOn(reg, Gate(reg, id))
  <2>1. Gate(reg, id) \in GateRecord
    BY GateFound
  <2> QED
    BY <2>1 DEF GateRecord, DependsOn
<1> HIDE DEF base, seq
<1>3. Sound(reg, base)
  BY <1>1 DEF Sound
<1>4. Stack(base) = Stack(s) \cup {id} /\ id \notin Stack(s)
  BY <1>1 DEF Stack, Sound
<1>5. Cardinality(G \ base.entered) < depth
  <2>1. IsFiniteSet(G \ s.entered)
    BY GatesFinite, FS_Subset
  <2>2. id \in G \ s.entered /\ G \ base.entered = (G \ s.entered) \ {id}
    BY <1>1
  <2> DEFINE F == G \ s.entered
  <2>3. Cardinality(G \ base.entered) = Cardinality(F) - 1 /\ Cardinality(F) \in Nat
    <3>1. IsFiniteSet(F) /\ id \in F /\ G \ base.entered = F \ {id}
      BY <2>1, <2>2
    <3> HIDE DEF F, G
    <3> QED
      BY <3>1, FS_RemoveElement, FS_CardinalityType
  <2> QED
    BY <2>3
<1>6. ASSUME NEW i \in 1..Len(seq), seq[i] \in G, NEW x \in Stack(base)
      PROVE  seq[i] \in Below(reg, x)
  <2>1. seq[i] \in DependsOn(reg, Gate(reg, id))
    BY <1>2, <1>6 DEF ToSet
  <2>2. CASE x = id
    BY <2>1, <2>2, BelowCloses
  <2>3. CASE x \in Stack(s)
    <3>1. id \in Below(reg, x)
      BY <2>3
    <3> QED
      BY <2>1, <3>1, BelowCloses
  <2> QED
    BY <1>4, <2>2, <2>3
<1>13. Awaited(reg, base, seq)
  BY <1>6 DEF Awaited
<1>14. VisitedAll(reg, base, seq, below)
  <2> HIDE DEF below
  <2>1. below = FoldLeft(LAMBDA t, d : deeper[d][t], base, seq)
    BY DEF below
  <2> QED
    BY <1>1, <1>2, <1>3, <1>5, <1>13, <2>1, VisitsInTurn
<1>7. /\ below \in Searches(reg) /\ Sound(reg, below)
      /\ Stack(below) = Stack(base) /\ base.entered \subseteq below.entered
      /\ base.left \subseteq below.left /\ (base.cyclic => below.cyclic)
      /\ \A d \in ToSet(seq) \cap G : d \in below.left \/ below.cyclic
  BY <1>14 DEF VisitedAll
<1> HIDE DEF below
<1>8. /\ r \in Searches(reg) /\ r.left = below.left \cup {id}
      /\ r.entered = below.entered /\ r.cyclic = below.cyclic
  BY <1>7, EnterTyped DEF Searches
<1> HIDE DEF r
<1>9. id \in below.entered /\ id \notin below.left
  BY <1>4, <1>7 DEF Stack
<1>10. Stack(r) = Stack(s)
  BY <1>4, <1>7, <1>8 DEF Stack
<1>11. Sound(reg, r)
  <2>1. r.left \subseteq r.entered /\ (r.cyclic => Circular(reg))
    BY <1>7, <1>8, <1>9 DEF Sound
  <2>2. ASSUME ~r.cyclic
        PROVE  Closed(reg, r.left) /\ \A x \in r.left : x \notin Below(reg, x)
    <3>1. /\ Closed(reg, below.left) /\ \A x \in below.left : x \notin Below(reg, x)
          /\ DependsOn(reg, Gate(reg, id)) \subseteq below.left
      BY <1>2, <1>7, <1>8, <2>2 DEF Sound
    <3>2. Closed(reg, r.left)
      BY <1>8, <3>1 DEF Closed
    <3>3. Below(reg, id) \subseteq below.left
      <4>1. below.left \in SUBSET GateIds(reg)
        BY <1>7 DEF Searches
      <4> QED
        BY <3>1, <4>1, BelowCloses
    <3> QED
      BY <1>8, <1>9, <3>1, <3>2, <3>3
  <2> QED
    BY <2>1, <2>2 DEF Sound
<1>12. Visited(reg, s, id, r)
  BY <1>1, <1>7, <1>8, <1>10, <1>11 DEF Visited
<1> QED
  BY <1>12 DEF r, below, base, seq, Through

\* Calls nested one deeper are as good as those they make.
LEMMA VisitDeeper ==
  ASSUME NEW reg \in Registry, NEW deeper \in Visitors(reg), NEW depth \in Nat,
         VisitsWell(reg, deeper, depth)
  PROVE  VisitsWell(reg, Visit(reg, deeper), depth + 1)
<1> SUFFICES ASSUME NEW s \in Searches(reg), NEW id \in Names, Sound(reg, s),
                    id \in GateIds(reg) => \A x \in Stack(s) : id \in Below(reg, x),
                    Cardinality(GateIds(reg) \ s.entered) < depth + 1
             PROVE  Visited(reg, s, id, Visit(reg, deeper)[id][s])
  BY DEF VisitsWell
<1>1. CASE id \notin GateIds(reg) \/ id \in s.left
  <2>1. Visit(reg, deeper)[id][s] = s
    BY <1>1 DEF Visit
  <2> QED
    BY <1>1, <2>1 DEF Visited
<1>2. CASE id \in GateIds(reg) /\ id \notin s.left /\ id \in s.entered
  <2> DEFINE r == [s EXCEPT !.cyclic = TRUE]
  <2>1. Visit(reg, deeper)[id][s] = r
    BY <1>2 DEF Visit
  <2>2. id \in Below(reg, id)
    BY <1>2 DEF Stack
  <2>3. Circular(reg)
    BY <1>2, <2>2 DEF Circular
  <2>4. /\ r \in Searches(reg) /\ r.left = s.left /\ r.entered = s.entered
        /\ r.cyclic
    BY <1>2, EnterTyped DEF Searches
  <2> HIDE DEF r
  <2>5. Sound(reg, r) /\ Stack(r) = Stack(s)
    BY <2>3, <2>4 DEF Sound, Stack
  <2> QED
    BY <2>1, <2>4, <2>5 DEF Visited
<1>3. CASE id \in GateIds(reg) /\ id \notin s.left /\ id \notin s.entered
  <2>1. Visit(reg, deeper)[id][s] = Through(reg, deeper, s, id)
    BY <1>3 DEF Visit, Through
  <2> QED
    BY <1>3, <2>1, EnterAndLeave
<1> QED
  BY <1>1, <1>2, <1>3

\* By induction on the depth, every call of visit is a good one.
LEMMA VisitsAllWell ==
  ASSUME NEW reg \in Registry, NEW depth \in Nat
  PROVE  VisitsWell(reg, Visits(reg)[depth], depth)
<1> DEFINE T == {k \in Nat : VisitsWell(reg, Visits(reg)[k], k)}
<1>1. 0 \in T
  <2>1. \A s \in Searches(reg) : ~(Cardinality(GateIds(reg) \ s.entered) < 0)
    <3> TAKE s \in Searches(reg)
    <3>1. IsFiniteSet(GateIds(reg) \ s.entered)
      BY GatesFinite, FS_Subset
    <3>2. Cardinality(GateIds(reg) \ s.entered) \in Nat
      BY <3>1, FS_CardinalityType
    <3> QED
      BY <3>2
  <2> QED
    BY <2>1 DEF VisitsWell
<1>2. ASSUME NEW k \in Nat, k \in T
      PROVE  k + 1 \in T
  <2>1. /\ Visits(reg)[k] \in Visitors(reg)
        /\ Visits(reg)[k + 1] = Visit(reg, Visits(reg)[k])
    BY VisitsUnfold
  <2> QED
    BY <1>2, <2>1, VisitDeeper
<1> HIDE DEF T
<1>3. Nat \subseteq T
  BY <1>1, <1>2, SetInduction
<1> QED
  BY <1>3 DEF T

\* _detect_dependency_cycles finds a cycle exactly when there is one.
LEMMA SearchFinds ==
  ASSUME NEW reg \in Registry
  PROVE  Search(reg).cyclic <=> Circular(reg)
<1> DEFINE depth == Len(reg.gates) + 1
           visit == Visits(reg)[depth]
           base == [entered |-> {}, left |-> {}, cyclic |-> FALSE]
           seq == GateColumn(reg.gates)
           r == FoldLeft(LAMBDA s, id : visit[id][s], base, seq)
<1>1. depth \in Nat /\ Cardinality(GateIds(reg)) < depth
  BY GatesFinite
<1>2. visit \in Visitors(reg) /\ VisitsWell(reg, visit, depth)
  <2> HIDE DEF depth
  <2> QED
    BY <1>1, VisitsUnfold, VisitsAllWell
<1>3. base \in Searches(reg) /\ Stack(base) = {} /\ base.entered = {} /\ Sound(reg, base)
  BY DEF Searches, Stack, Sound, Closed
<1>4. seq \in Seq(Names) /\ ToSet(seq) = GateIds(reg)
  <2>1. /\ Len(reg.gates) \in Nat /\ DOMAIN reg.gates = 1..Len(reg.gates)
    BY DEF Registry
  <2>2. seq = [i \in 1..Len(reg.gates) |-> reg.gates[i].id]
    BY <2>1 DEF GateColumn
  <2>3. \A i \in 1..Len(reg.gates) : reg.gates[i].id \in GateIds(reg)
    BY <2>1 DEF GateIds, ToSet
  <2>4. \A i \in 1..Len(reg.gates) : reg.gates[i].id \in Names
    BY <2>3, GateFound
  <2>5. ToSet(seq) = GateIds(reg)
    BY <2>1, <2>2 DEF ToSet, GateIds
  <2> QED
    BY <2>1, <2>2, <2>4, <2>5
<1>5. Search(reg) = r
  BY DEF Search, SearchFrom
<1> HIDE DEF depth, visit, seq, base
<1>6. Cardinality(GateIds(reg) \ base.entered) < depth
  <2>1. GateIds(reg) \ base.entered = GateIds(reg)
    BY <1>3
  <2> QED
    BY <1>1, <2>1
<1>7. /\ r \in Searches(reg) /\ Sound(reg, r)
      /\ \A d \in ToSet(seq) \cap GateIds(reg) : d \in r.left \/ r.cyclic
  <2>1. Awaited(reg, base, seq)
    BY <1>3 DEF Awaited
  <2>2. VisitedAll(reg, base, seq, r)
    BY <1>1, <1>2, <1>3, <1>4, <1>6, <2>1, VisitsInTurn
  <2> QED
    BY <2>2 DEF VisitedAll
<1> HIDE DEF r
<1>8. CASE r.cyclic
  BY <1>5, <1>7, <1>8 DEF Sound
<1>9. CASE ~r.cyclic
  <2>1. \A x \in GateIds(reg) : x \notin Below(reg, x)
    BY <1>4, <1>7, <1>9 DEF Sound
  <2> QED
    BY <1>5, <1>9, <2>1 DEF Circular
<1> QED
  BY <1>8, <1>9

-----------------------------------------------------------------------------
(* validate_production_acceptance.                                          *)

\* A release without issues: what its gates depend on passed, on evidence.
LEMMA NoIssues ==
  ASSUME NEW reg \in Registry, Complete(reg, UNION {EvidenceIssues(reg), GateIssues(reg), SignoffIssues(reg)})
  PROVE  /\ \A id \in Required(reg) : Gate(reg, id).status = "passed"
         /\ \A g \in ToSet(reg.gates) : ~WithoutEvidence(g) /\ ~NotPassedBelow(reg, g)
         /\ ~Search(reg).cyclic
         /\ \A g \in ToSet(reg.gates) : \A e \in ToSet(g.evidence) :
              e.file \in {"verified", "elsewhere"}
<1>1. EvidenceIssues(reg) = {} /\ GateIssues(reg) = {}
  BY DEF Complete
<1>2. \A c, i : When(c, i) = {} => ~c
  BY DEF When
<1>3. /\ \A g \in ToSet(reg.gates) : ~WithoutEvidence(g) /\ ~NotPassedBelow(reg, g)
      /\ ~Search(reg).cyclic
  <2>1. /\ When(\E g \in ToSet(reg.gates) : WithoutEvidence(g), "gate.passed_without_evidence") = {}
        /\ When(\E g \in ToSet(reg.gates) : NotPassedBelow(reg, g), "gate.dependency_not_passed") = {}
        /\ When(Search(reg).cyclic, "gate.dependency_cycle") = {}
    BY <1>1 DEF GateIssues
  <2> QED
    BY <1>2, <2>1
<1> DEFINE lists == [i \in DOMAIN reg.gates |-> reg.gates[i].evidence]
           all == FlattenSeq(lists)
<1>4. \A f \in {"escapes", "missing", "changed"} : ~ \E e \in ToSet(all) : e.file = f
  <2>1. /\ When(\E e \in ToSet(all) : e.file = "escapes", "evidence.path_escape") = {}
        /\ When(\E e \in ToSet(all) : e.file = "missing", "evidence.missing") = {}
        /\ When(\E e \in ToSet(all) : e.file = "changed", "evidence.hash_mismatch") = {}
    BY <1>1 DEF EvidenceIssues
  <2> HIDE DEF all
  <2>2. /\ ~ \E e \in ToSet(all) : e.file = "escapes"
        /\ ~ \E e \in ToSet(all) : e.file = "missing"
        /\ ~ \E e \in ToSet(all) : e.file = "changed"
    BY <1>2, <2>1
  <2> QED
    BY <2>2
<1>5. /\ Len(reg.gates) \in Nat /\ DOMAIN reg.gates = 1..Len(reg.gates)
      /\ \A i \in 1..Len(reg.gates) : reg.gates[i].evidence \in Seq(EvidenceRecord)
  <2>1. \A g \in GateRecord : g.evidence \in Seq(EvidenceRecord)
    BY DEF GateRecord
  <2>2. reg.gates \in Seq(GateRecord)
    BY DEF Registry
  <2> QED
    BY <2>1, <2>2
<1>6. /\ lists \in Seq(Seq(EvidenceRecord)) /\ Len(lists) = Len(reg.gates)
      /\ \A i \in 1..Len(reg.gates) : lists[i] = reg.gates[i].evidence
  BY <1>5
<1> HIDE DEF lists
<1>7. ASSUME NEW g \in ToSet(reg.gates), NEW e \in ToSet(g.evidence)
      PROVE  e \in ToSet(all) /\ e \in EvidenceRecord
  <2>1. PICK i \in 1..Len(reg.gates) : g = reg.gates[i]
    BY <1>5, <1>7 DEF ToSet
  <2>2. PICK j \in 1..Len(lists[i]) : e = lists[i][j]
    BY <1>5, <1>6, <1>7, <2>1 DEF ToSet
  <2>3. all \in Seq(EvidenceRecord) /\ Gathers(all, lists, Len(lists))
    BY <1>6, FlattenGathers
  <2>4. i \in 1..Len(lists)
    BY <1>6, <2>1
  <2>5. PICK n \in 1..Len(all) : all[n] = lists[i][j]
    BY <2>2, <2>3, <2>4 DEF Gathers
  <2> HIDE DEF all
  <2>6. e = all[n] /\ all[n] \in EvidenceRecord /\ n \in DOMAIN all
    BY <2>2, <2>3, <2>5
  <2> QED
    BY <2>6 DEF ToSet
<1>8. ASSUME NEW g \in ToSet(reg.gates), NEW e \in ToSet(g.evidence)
      PROVE  e.file \in {"verified", "elsewhere"}
  BY <1>4, <1>7, <1>8 DEF EvidenceRecord
<1> QED
  BY <1>3, <1>8 DEF Complete

\* A release that validate_production_acceptance calls ready rests on proof.
LEMMA ReadyRestsOnProof ==
  ASSUME NEW reg \in Registry, Assess(reg).ready
  PROVE  /\ \A id \in RestsOn(reg) : Proven(Gate(reg, id))
         /\ ~Circular(reg)
         /\ \A role \in reg.roles : StatusOfRole(reg, role) = "approved"
<1> DEFINE found == UNION {EvidenceIssues(reg), GateIssues(reg), SignoffIssues(reg)}
<1>1. Complete(reg, found)
  BY DEF Assess
<1>2. \A role \in reg.roles : StatusOfRole(reg, role) = "approved"
  BY <1>1 DEF Complete
<1>3. /\ \A id \in Required(reg) : Gate(reg, id).status = "passed"
      /\ \A g \in ToSet(reg.gates) : ~WithoutEvidence(g) /\ ~NotPassedBelow(reg, g)
      /\ ~Search(reg).cyclic
      /\ \A g \in ToSet(reg.gates) : \A e \in ToSet(g.evidence) :
           e.file \in {"verified", "elsewhere"}
  BY <1>1, NoIssues
<1>4. ~Circular(reg)
  BY <1>3, SearchFinds
<1> DEFINE P == {id \in GateIds(reg) : Gate(reg, id).status = "passed"}
<1>5. \A id \in P : DependsOn(reg, Gate(reg, id)) \subseteq P
  <2> TAKE id \in P
  <2>1. Gate(reg, id) \in ToSet(reg.gates) /\ Gate(reg, id).status = "passed"
    BY GateFound
  <2> QED
    BY <1>3, <2>1 DEF NotPassedBelow, DependsOn
<1>6. Closed(reg, P)
  BY <1>5 DEF Closed
<1>7. Required(reg) \subseteq P
  BY <1>3 DEF Required
<1>8. \A id \in Required(reg) : Below(reg, id) \subseteq P
  BY <1>5, <1>6, <1>7, BelowCloses
<1>9. ASSUME NEW id \in RestsOn(reg)
      PROVE  Proven(Gate(reg, id))
  <2> DEFINE g == Gate(reg, id)
  <2>1. id \in P
    BY <1>7, <1>8, <1>9 DEF RestsOn
  <2>2. g \in ToSet(reg.gates) /\ g \in GateRecord /\ g.status = "passed"
    BY <2>1, GateFound
  <2> HIDE DEF g
  <2>3. g.evidence # <<>> /\ ToSet(Results(g)) = {"passed"}
    BY <1>3, <2>2 DEF WithoutEvidence
  <2>4. \A e \in ToSet(g.evidence) : e.result \in ToSet(Results(g))
    BY DEF ToSet, Results
  <2>5. Proven(g)
    BY <1>3, <2>2, <2>3, <2>4 DEF Proven
  <2> QED
    BY <2>5 DEF g
<1> QED
  BY <1>2, <1>4, <1>9

-----------------------------------------------------------------------------
(* The numbers of a set in their order are all of them.                     *)

\* sorted(node_by_id): every node once, in order (allocator.py:285).
LEMMA RankedAll ==
  ASSUME NEW S, S \subseteq Nat, IsFiniteSet(S)
  PROVE  /\ Ranked(S) \in Seq(S) /\ ToSet(Ranked(S)) = S
         /\ Cardinality(S) \in Nat /\ Len(Ranked(S)) = Cardinality(S)
         /\ \A i, j \in 1..Cardinality(S) : Ranked(S)[i] = Ranked(S)[j] => i = j
<1> DEFINE c == Cardinality(S)
           Less(n) == {m \in S : m < n}
           rank == [n \in S |-> Cardinality(Less(n)) + 1]
<1>1. c \in Nat /\ IsFiniteSet(1..c) /\ Cardinality(1..c) = c
  <2>1. c \in Nat
    BY FS_CardinalityType
  <2> HIDE DEF c
  <2> QED
    BY <2>1, FS_Interval
<1>2. \A n \in S : IsFiniteSet(Less(n)) /\ Cardinality(Less(n)) \in Nat
  <2> TAKE n \in S
  <2>1. Less(n) \in SUBSET S
    OBVIOUS
  <2> HIDE DEF Less
  <2> QED
    BY <2>1, FS_Subset, FS_CardinalityType
<1>3. ASSUME NEW n \in S
      PROVE  Cardinality(Less(n)) + 1 <= c
  <2>1. Less(n) \in SUBSET (S \ {n})
    OBVIOUS
  <2>2. IsFiniteSet(S \ {n}) /\ Cardinality(S \ {n}) = c - 1
    BY FS_RemoveElement
  <2> HIDE DEF Less, c
  <2>3. Cardinality(Less(n)) <= Cardinality(S \ {n})
    BY <2>1, <2>2, FS_Subset
  <2> QED
    BY <1>1, <1>2, <2>2, <2>3
<1>4. ASSUME NEW n \in S, NEW k \in S, n < k
      PROVE  Cardinality(Less(n)) < Cardinality(Less(k))
  <2>1. Less(n) \in SUBSET (Less(k) \ {n}) /\ n \in Less(k)
    <3>1. \A m \in S : m < n => m < k /\ m # n
      BY <1>4
    <3> QED
      BY <1>4, <3>1
  <2> HIDE DEF Less
  <2>2. IsFiniteSet(Less(k) \ {n}) /\ Cardinality(Less(k) \ {n}) = Cardinality(Less(k)) - 1
    BY <1>2, <2>1, FS_RemoveElement
  <2>3. Cardinality(Less(n)) <= Cardinality(Less(k) \ {n})
    BY <2>1, <2>2, FS_Subset
  <2> QED
    BY <1>2, <2>2, <2>3
<1>5. rank \in [S -> 1..c]
  <2> HIDE DEF Less, c
  <2> QED
    BY <1>1, <1>2, <1>3
<1>6. \A n, k \in S : rank[n] = rank[k] => n = k
  <2> HIDE DEF Less, c
  <2>1. \A n, k \in S : n < k => rank[n] # rank[k]
    BY <1>2, <1>4
  <2> HIDE DEF rank
  <2> QED
    BY <2>1
<1>7. \A n \in S : Cardinality(Less(n)) = rank[n] - 1
  <2> HIDE DEF Less
  <2> QED
    BY <1>2
<1> HIDE DEF rank
<1>8. rank \in Injection(S, 1..c)
  BY <1>5, <1>6 DEF Injection, IsInjective
<1>9. rank \in Surjection(S, 1..c)
  <2> HIDE DEF c
  <2>1. Cardinality(S) = Cardinality(1..c)
    BY <1>1 DEF c
  <2> QED
    BY <1>1, <1>8, <2>1, FS_Injection
<1>10. \A i \in 1..c : \E n \in S : rank[n] = i
  BY <1>9 DEF Surjection
<1>11. ASSUME NEW i \in 1..c
       PROVE  Ranked(S)[i] \in S /\ rank[Ranked(S)[i]] = i
  <2>1. Ranked(S)[i] = CHOOSE n \in S : Cardinality(Less(n)) = i - 1
    BY DEF Ranked
  <2> HIDE DEF Less, c
  <2>2. PICK n \in S : rank[n] = i
    BY <1>10
  <2>3. Cardinality(Less(n)) = i - 1
    BY <1>7, <2>2
  <2> DEFINE x == Ranked(S)[i]
  <2>4. x \in S /\ Cardinality(Less(x)) = i - 1
    BY <2>1, <2>3
  <2> HIDE DEF x
  <2>5. rank[x] \in 1..c /\ rank[x] - 1 = i - 1
    BY <1>5, <1>7, <2>4
  <2>6. rank[x] = i
    BY <1>1, <2>5
  <2> QED
    BY <2>4, <2>6 DEF x
<1>12. Ranked(S) = [i \in 1..c |-> Ranked(S)[i]]
  <2> DEFINE g(i) == CHOOSE n \in S : Cardinality(Less(n)) = i - 1
  <2>1. Ranked(S) = [i \in 1..c |-> g(i)]
    BY DEF Ranked
  <2> HIDE DEF g, c
  <2> QED
    BY <2>1
<1> HIDE DEF c
<1>13. Ranked(S) \in Seq(S) /\ DOMAIN Ranked(S) = 1..c
  BY <1>1, <1>11, <1>12
<1>14. \A n \in S : rank[n] \in 1..c /\ Ranked(S)[rank[n]] = n
  BY <1>5, <1>6, <1>11
<1>15. ToSet(Ranked(S)) = S
  BY <1>11, <1>13, <1>14 DEF ToSet
<1>16. \A i, j \in 1..c : Ranked(S)[i] = Ranked(S)[j] => i = j
  BY <1>11
<1>17. Len(Ranked(S)) = c
  BY <1>1, <1>13
<1> QED
  BY <1>1, <1>13, <1>15, <1>16, <1>17 DEF c

-----------------------------------------------------------------------------
(* A forest: every node has a parent but the root, which has none.          *)

Shape(nodes, root) ==
  /\ Ids(nodes) \subseteq Nat /\ IsFiniteSet(Ids(nodes)) /\ root \in Ids(nodes)
  /\ Parents(nodes) \in [Ids(nodes) \ {root} -> Ids(nodes)]
  /\ Under(nodes, root) = {}
  /\ \A n \in Ids(nodes) \ {root} : Under(nodes, n) = {Parents(nodes)[n]}

\* Above is closed under parents, and the least such set.
LEMMA AboveCloses ==
  ASSUME NEW nodes, NEW id
  PROVE  /\ Under(nodes, id) \subseteq Above(nodes, id)
         /\ Above(nodes, id) \subseteq Ids(nodes)
         /\ \A x \in Above(nodes, id) : Under(nodes, x) \subseteq Above(nodes, id)
         /\ \A S \in SUBSET Ids(nodes) :
              Under(nodes, id) \subseteq S /\ (\A x \in S : Under(nodes, x) \subseteq S)
                => Above(nodes, id) \subseteq S
<1>1. \A x : Under(nodes, x) \subseteq Ids(nodes)
  BY DEF Under
<1> QED
  BY <1>1 DEF Above

\* Above a node are its parent and what is above that.
LEMMA AboveUnfolds ==
  ASSUME NEW nodes, NEW root, Shape(nodes, root)
  PROVE  /\ Above(nodes, root) = {}
         /\ \A n \in Ids(nodes) \ {root} :
              Above(nodes, n) = {Parents(nodes)[n]} \cup Above(nodes, Parents(nodes)[n])
<1>1. Above(nodes, root) = {}
  <2>1. {} \in SUBSET Ids(nodes) /\ Under(nodes, root) \subseteq {}
    BY DEF Shape
  <2> QED
    BY <2>1, AboveCloses
<1>2. ASSUME NEW n \in Ids(nodes) \ {root}
      PROVE  Above(nodes, n) = {Parents(nodes)[n]} \cup Above(nodes, Parents(nodes)[n])
  <2> DEFINE p == Parents(nodes)[n]
             S == {p} \cup Above(nodes, p)
  <2>1. p \in Ids(nodes) /\ Under(nodes, n) = {p}
    BY DEF Shape
  <2> HIDE DEF p
  <2>2. S \in SUBSET Ids(nodes) /\ Under(nodes, n) \subseteq S
    BY <2>1, AboveCloses
  <2>3. \A x \in S : Under(nodes, x) \subseteq S
    BY AboveCloses
  <2>4. Above(nodes, n) \subseteq S
    <3> HIDE DEF S
    <3> QED
      BY <2>2, <2>3, AboveCloses
  <2>5. p \in Above(nodes, n)
    BY <2>1, AboveCloses
  <2>6. Above(nodes, p) \subseteq Above(nodes, n)
    <3>1. Under(nodes, p) \subseteq Above(nodes, n)
      BY <2>5, AboveCloses
    <3>2. Above(nodes, n) \in SUBSET Ids(nodes)
      BY AboveCloses
    <3>3. \A x \in Above(nodes, n) : Under(nodes, x) \subseteq Above(nodes, n)
      BY AboveCloses
    <3> QED
      BY <3>1, <3>2, <3>3, AboveCloses
  <2> QED
    BY <2>4, <2>5, <2>6 DEF p
<1> QED
  BY <1>1, <1>2

\* The depths that are known are one more than that of the parent.
Labelled(nodes, root, depths) ==
  /\ depths \in [Ids(nodes) -> Nat \cup {None}] /\ depths[root] = 0
  /\ \A n \in Measured(depths) \ {root} :
       /\ Parents(nodes)[n] \in Measured(depths)
       /\ depths[n] = depths[Parents(nodes)[n]] + 1

\* They count the nodes above, of which the root is one.
LEMMA LabelledCounts ==
  ASSUME NEW nodes, NEW root, Shape(nodes, root), NEW depths, Labelled(nodes, root, depths)
  PROVE  \A n \in Measured(depths) :
           /\ depths[n] \in Nat /\ n \in Ids(nodes)
           /\ n # root => root \in Above(nodes, n)
           /\ Cardinality(Above(nodes, n)) = depths[n]
<1> DEFINE M == Measured(depths)
           Right(n) ==
             /\ n # root => root \in Above(nodes, n)
             /\ IsFiniteSet(Above(nodes, n)) /\ Cardinality(Above(nodes, n)) = depths[n]
             /\ \A a \in Above(nodes, n) : a \in M /\ depths[a] < depths[n]
           T == {d \in Nat : \A n \in M : depths[n] = d => Right(n)}
<1>1. \A n \in M : n \in Ids(nodes) /\ depths[n] \in Nat
  BY DEF Measured, Labelled
<1>2. /\ root \in M /\ depths[root] = 0
      /\ \A n \in M \ {root} :
           /\ Parents(nodes)[n] \in M /\ depths[n] = depths[Parents(nodes)[n]] + 1
           /\ n \in Ids(nodes) \ {root}
  <2>1. None # 0
    BY NoneAssumption
  <2>2. depths[root] = 0 /\ root \in DOMAIN depths
    BY DEF Labelled, Shape
  <2>3. root \in M
    BY <2>1, <2>2 DEF Measured
  <2>4. \A n \in M \ {root} :
           /\ Parents(nodes)[n] \in M /\ depths[n] = depths[Parents(nodes)[n]] + 1
    BY DEF Labelled
  <2> QED
    BY <1>1, <2>2, <2>3, <2>4
<1> HIDE DEF M
<1>3. 0 \in T
  <2> SUFFICES ASSUME NEW n \in M, depths[n] = 0
               PROVE  Right(n)
    OBVIOUS
  <2>1. n = root
    <3>1. n # root => depths[Parents(nodes)[n]] \in Nat
      BY <1>1, <1>2
    <3> QED
      BY <1>2, <3>1
  <2>2. Above(nodes, n) = {}
    BY <2>1, AboveUnfolds
  <2> QED
    BY <2>1, <2>2, FS_EmptySet
<1>4. ASSUME NEW d \in Nat, d \in T
      PROVE  d + 1 \in T
  <2> SUFFICES ASSUME NEW n \in M, depths[n] = d + 1
               PROVE  Right(n)
    OBVIOUS
  <2> DEFINE p == Parents(nodes)[n]
  <2>1. n # root
    BY <1>2
  <2>2. p \in M /\ depths[n] = depths[p] + 1 /\ Above(nodes, n) = {p} \cup Above(nodes, p)
    BY <1>2, <2>1, AboveUnfolds
  <2> HIDE DEF p
  <2>3. depths[p] = d
    BY <1>1, <2>2
  <2>4. Right(p)
    BY <1>4, <2>2, <2>3
  <2> HIDE DEF T
  <2>5. p \notin Above(nodes, p)
    BY <1>1, <2>2, <2>4
  <2>6. IsFiniteSet(Above(nodes, n)) /\ Cardinality(Above(nodes, n)) = depths[n]
    <3>1. IsFiniteSet(Above(nodes, p)) /\ Above(nodes, n) = Above(nodes, p) \cup {p}
      BY <2>2, <2>4
    <3>2. /\ IsFiniteSet(Above(nodes, n))
          /\ Cardinality(Above(nodes, n)) = Cardinality(Above(nodes, p)) + 1
      BY <2>5, <3>1, FS_AddElement
    <3> QED
      BY <2>2, <2>4, <3>2
  <2>7. root \in Above(nodes, n)
    BY <2>2, <2>4
  <2>8. \A a \in Above(nodes, n) : a \in M /\ depths[a] < depths[n]
    BY <1>1, <2>2, <2>3, <2>4
  <2> QED
    BY <2>6, <2>7, <2>8
<1> HIDE DEF T
<1>5. Nat \subseteq T
  BY <1>3, <1>4, SetInduction
<1>6. \A n \in M : Right(n)
  BY <1>1, <1>5 DEF T
<1> QED
  BY <1>1, <1>6 DEF M

-----------------------------------------------------------------------------
(* The climb, where every node has a parent that is not known.              *)

Climbs(ids) == [end : {"none", "known", "cycle"}, at : ids, trail : Seq(ids)]

\* The trail goes from the start up to the node the climb is at, past nodes
\* that are not known and past none of them twice.
Climbing(parents, known, start, c) ==
  /\ \A i \in 1..Len(c.trail) : c.trail[i] \notin known
  /\ \A i \in 1..(Len(c.trail) - 1) : parents[c.trail[i]] = c.trail[i + 1]
  /\ \A i, j \in 1..Len(c.trail) : c.trail[i] = c.trail[j] => i = j
  /\ IF Len(c.trail) = 0 THEN c.at = start
     ELSE c.trail[1] = start /\ parents[c.trail[Len(c.trail)]] = c.at
  /\ c.end = "known" => c.at \in known
  /\ c.end = "cycle" => c.at \in ToSet(c.trail)

Rising(ids, parents, known) ==
  /\ IsFiniteSet(ids) /\ known \subseteq ids
  /\ ids \ known \subseteq DOMAIN parents
  /\ \A n \in ids \ known : parents[n] \in ids

\* What a turn makes of a climb.
Turned(ids, parents, known, c, u) ==
  /\ u \in Climbs(ids)
  /\ c.end # "none" => u = c
  /\ c.end = "none" /\ c.at \in known =>
       u.end = "known" /\ u.at = c.at /\ u.trail = c.trail
  /\ c.end = "none" /\ c.at \notin known /\ c.at \in ToSet(c.trail) =>
       u.end = "cycle" /\ u.at = c.at /\ u.trail = c.trail
  /\ c.end = "none" /\ c.at \notin known /\ c.at \notin ToSet(c.trail) =>
       u.end = "none" /\ u.at = parents[c.at] /\ u.trail = Append(c.trail, c.at)

\* A turn of the loop of allocator.py:288-297, by the four ways it can go.
LEMMA UpTyped ==
  ASSUME NEW ids, NEW parents, NEW known, Rising(ids, parents, known),
         NEW c \in Climbs(ids)
  PROVE  Turned(ids, parents, known, c, Up(ids, parents, known, c))
<1> DEFINE u == Up(ids, parents, known, c)
<1>1. /\ c.at \in ids /\ c.trail \in Seq(ids) /\ c.end \in {"none", "known", "cycle"}
      /\ c = [end |-> c.end, at |-> c.at, trail |-> c.trail]
  BY DEF Climbs
<1>2. c.at \notin known => c.at \in DOMAIN parents /\ parents[c.at] \in ids
  BY <1>1 DEF Rising
<1>3. CASE c.end # "none"
  BY <1>3 DEF Up, Turned
<1>4. CASE c.end = "none" /\ c.at \in known
  <2>1. u = [c EXCEPT !.end = "known"]
    BY <1>4 DEF Up
  <2> HIDE DEF u
  <2>2. u = [end |-> "known", at |-> c.at, trail |-> c.trail]
    BY <1>1, <2>1
  <2>3. u \in Climbs(ids) /\ u.end = "known" /\ u.at = c.at /\ u.trail = c.trail
    BY <1>1, <2>2 DEF Climbs
  <2> QED
    BY <1>4, <2>3 DEF Turned, u
<1>5. CASE c.end = "none" /\ c.at \notin known /\ c.at \in ToSet(c.trail)
  <2>1. u = [c EXCEPT !.end = "cycle"]
    BY <1>5 DEF Up
  <2> HIDE DEF u
  <2>2. u = [end |-> "cycle", at |-> c.at, trail |-> c.trail]
    BY <1>1, <2>1
  <2>3. u \in Climbs(ids) /\ u.end = "cycle" /\ u.at = c.at /\ u.trail = c.trail
    BY <1>1, <2>2 DEF Climbs
  <2> QED
    BY <1>5, <2>3 DEF Turned, u
<1>6. CASE c.end = "none" /\ c.at \notin known /\ c.at \notin ToSet(c.trail)
  <2>1. u = [c EXCEPT !.at = parents[c.at], !.trail = Append(@, c.at)]
    BY <1>1, <1>2, <1>6 DEF Up
  <2> DEFINE longer == Append(c.trail, c.at)
             p == parents[c.at]
  <2>2. longer \in Seq(ids) /\ p \in ids
    BY <1>1, <1>2, <1>6
  <2>3. u = [c EXCEPT !.at = p, !.trail = longer]
    BY <1>1, <2>1
  <2> HIDE DEF u, longer, p
  <2>4. u = [end |-> "none", at |-> p, trail |-> longer]
    BY <1>1, <1>6, <2>3
  <2>5. u \in Climbs(ids) /\ u.end = "none" /\ u.at = p /\ u.trail = longer
    BY <2>2, <2>4 DEF Climbs
  <2> QED
    BY <1>6, <2>5 DEF Turned, u, p, longer
<1> QED
  BY <1>1, <1>3, <1>4, <1>5, <1>6

\* A turn of the loop leaves a trail that goes up and repeats nothing.
LEMMA UpClimbs ==
  ASSUME NEW ids, NEW parents, NEW known, Rising(ids, parents, known),
         NEW start \in ids,
         NEW c \in Climbs(ids), Climbing(parents, known, start, c)
  PROVE  /\ Climbing(parents, known, start, Up(ids, parents, known, c))
         /\ Up(ids, parents, known, c).end = "none" =>
              /\ c.end = "none"
              /\ Len(Up(ids, parents, known, c).trail) = Len(c.trail) + 1
<1> DEFINE u == Up(ids, parents, known, c)
<1>0. /\ c.trail \in Seq(ids) /\ Len(c.trail) \in Nat /\ DOMAIN c.trail = 1..Len(c.trail)
      /\ c.end \in {"none", "known", "cycle"} /\ c.at \in ids
  BY DEF Climbs
<1>t. Turned(ids, parents, known, c, u)
  BY UpTyped
<1> HIDE DEF u
<1>1. CASE c.end # "none"
  <2>1. u = c
    BY <1>t, <1>1 DEF Turned
  <2> QED
    BY <1>1, <2>1 DEF u
<1>2. CASE c.end = "none" /\ c.at \in known
  <2>2. u.end = "known" /\ u.at = c.at /\ u.trail = c.trail
    BY <1>t, <1>2 DEF Turned
  <2>3. Climbing(parents, known, start, u) /\ u.end # "none"
    BY <1>2, <2>2 DEF Climbing
  <2> QED
    BY <2>3 DEF u
<1>3. CASE c.end = "none" /\ c.at \notin known /\ c.at \in ToSet(c.trail)
  <2>2. u.end = "cycle" /\ u.at = c.at /\ u.trail = c.trail
    BY <1>t, <1>3 DEF Turned
  <2>3. Climbing(parents, known, start, u) /\ u.end # "none"
    BY <1>3, <2>2 DEF Climbing
  <2> QED
    BY <2>3 DEF u
<1>4. CASE c.end = "none" /\ c.at \notin known /\ c.at \notin ToSet(c.trail)
  <2>2. u.end = "none" /\ u.at = parents[c.at] /\ u.trail = Append(c.trail, c.at)
    BY <1>t, <1>4 DEF Turned
  <2> DEFINE t == c.trail
             w == u.trail
             m == Len(t)
  <2>3. /\ m \in Nat /\ Len(w) = m + 1 /\ w[m + 1] = c.at
        /\ \A i \in 1..m : w[i] = t[i]
    BY <1>0, <2>2
  <2>4. \A i \in 1..m : t[i] \notin known /\ t[i] # c.at
    BY <1>0, <1>4 DEF Climbing, ToSet
  <2>5. /\ \A i \in 1..(m - 1) : parents[t[i]] = t[i + 1]
        /\ \A i, j \in 1..m : t[i] = t[j] => i = j
        /\ IF m = 0 THEN c.at = start ELSE t[1] = start /\ parents[t[m]] = c.at
    BY DEF Climbing
  <2> HIDE DEF t, w, m
  <2>6. \A i \in 1..Len(w) : w[i] \notin known
    <3> TAKE i \in 1..Len(w)
    <3>1. CASE i = m + 1
      BY <1>4, <2>3, <3>1
    <3>2. CASE i # m + 1
      BY <2>3, <2>4, <3>2
    <3> QED
      BY <3>1, <3>2
  <2>7. \A i \in 1..(Len(w) - 1) : parents[w[i]] = w[i + 1]
    <3> TAKE i \in 1..(Len(w) - 1)
    <3>0. i \in 1..m
      BY <2>3
    <3>1. CASE i = m
      BY <2>3, <2>5, <3>0, <3>1
    <3>2. CASE i # m
      <4>1. i \in 1..(m - 1) /\ i + 1 \in 1..m
        BY <2>3, <3>0, <3>2
      <4> QED
        BY <2>3, <2>5, <3>0, <4>1
    <3> QED
      BY <3>1, <3>2
  <2>8. \A i, j \in 1..Len(w) : w[i] = w[j] => i = j
    <3> SUFFICES ASSUME NEW i \in 1..Len(w), NEW j \in 1..Len(w), w[i] = w[j], i # j
                 PROVE  FALSE
      OBVIOUS
    <3>1. i \in 1..m \/ i = m + 1
      BY <2>3
    <3>2. j \in 1..m \/ j = m + 1
      BY <2>3
    <3>3. CASE i \in 1..m /\ j \in 1..m
      BY <2>3, <2>5, <3>3
    <3>4. CASE i = m + 1 /\ j \in 1..m
      BY <2>3, <2>4, <3>4
    <3>5. CASE i \in 1..m /\ j = m + 1
      BY <2>3, <2>4, <3>5
    <3> QED
      BY <3>1, <3>2, <3>3, <3>4, <3>5
  <2>9. w[1] = start /\ Len(w) # 0
    <3>1. CASE m = 0
      BY <2>3, <2>5, <3>1
    <3>2. CASE m # 0
      <4>1. 1 \in 1..m
        BY <2>3, <3>2
      <4> QED
        BY <2>3, <2>5, <3>2, <4>1
    <3> QED
      BY <2>3, <3>1, <3>2
  <2>10. parents[w[Len(w)]] = u.at
    BY <2>2, <2>3
  <2>11. Climbing(parents, known, start, u)
    BY <2>2, <2>6, <2>7, <2>8, <2>9, <2>10 DEF Climbing, w
  <2> QED
    BY <1>4, <2>3, <2>11 DEF u, w, m, t
<1> QED
  BY <1>0, <1>1, <1>2, <1>3, <1>4

\* The loop ends within a turn for each node and one, at a known node or in a cycle.
LEMMA ClimbEnds ==
  ASSUME NEW ids, NEW parents, NEW known, Rising(ids, parents, known), NEW start \in ids
  PROVE  LET c == Climb(ids, parents, known, start)
         IN  /\ c \in Climbs(ids) /\ Climbing(parents, known, start, c)
             /\ c.end \in {"known", "cycle"}
<1> DEFINE V == Climbs(ids)
           base == [end |-> "none", at |-> start, trail |-> <<>>]
           step == [c \in V |-> Up(ids, parents, known, c)]
           after == CHOOSE f : f = [turns \in Nat |->
                      IF turns = 0 THEN base ELSE Up(ids, parents, known, f[turns - 1])]
           last == Cardinality(ids) + 1
<1>1. base \in V /\ base.end = "none" /\ Len(base.trail) = 0
      /\ Climbing(parents, known, start, base)
  BY DEF Climbs, Climbing
<1>2. step \in [V -> V]
  <2>1. \A c \in V : Up(ids, parents, known, c) \in V
    BY UpTyped DEF Turned
  <2> HIDE DEF V
  <2> QED
    BY <2>1
<1>3. PICK f : Sequel(V, base, step, f)
  <2> HIDE DEF V, base, step
  <2> QED
    BY <1>1, <1>2, NatRecursion
<1>4. \A n \in Nat : n # 0 => n - 1 \in Nat /\ n - 1 + 1 = n
  OBVIOUS
<1>5. \A n \in Nat : f[n] = IF n = 0 THEN base ELSE Up(ids, parents, known, f[n - 1])
  <2> TAKE n \in Nat
  <2> HIDE DEF V, base
  <2>1. CASE n = 0
    BY <1>3, <2>1 DEF Sequel
  <2>2. CASE n # 0
    BY <1>3, <1>4, <2>2 DEF Sequel
  <2> QED
    BY <2>1, <2>2
<1>6. f = [turns \in Nat |-> IF turns = 0 THEN base ELSE Up(ids, parents, known, f[turns - 1])]
  <2> HIDE DEF V, base
  <2> QED
    BY <1>3, <1>5 DEF Sequel
<1>7. after = [turns \in Nat |-> IF turns = 0 THEN base ELSE Up(ids, parents, known, after[turns - 1])]
  <2> HIDE DEF base
  <2> QED
    BY <1>6
<1>8. Climb(ids, parents, known, start) = after[last]
  BY DEF Climb
<1>9. IsFiniteSet(ids) /\ Cardinality(ids) \in Nat
  BY FS_CardinalityType DEF Rising
<1> HIDE DEF base, step, after
<1>10. after[0] = base /\ \A n \in Nat : after[n + 1] = Up(ids, parents, known, after[n])
  <2>1. \A n \in Nat : n + 1 \in Nat /\ n + 1 # 0 /\ n + 1 - 1 = n
    OBVIOUS
  <2> QED
    BY <1>7, <2>1
<1> DEFINE Good(n) == /\ after[n] \in V /\ Climbing(parents, known, start, after[n])
                      /\ after[n].end = "none" => Len(after[n].trail) = n
           T == {n \in Nat : Good(n)}
<1>11. 0 \in T
  BY <1>1, <1>10
<1>12. ASSUME NEW n \in Nat, n \in T
       PROVE  n + 1 \in T
  <2> DEFINE c == after[n]
             u == after[n + 1]
  <2>1. u = Up(ids, parents, known, c)
    BY <1>10
  <2>2. Good(n)
    BY <1>12
  <2> HIDE DEF c, u, T
  <2>3. u \in V
    BY <2>1, <2>2, UpTyped DEF c, Turned
  <2>4. /\ Climbing(parents, known, start, u)
        /\ u.end = "none" => c.end = "none" /\ Len(u.trail) = Len(c.trail) + 1
    BY <2>1, <2>2, UpClimbs DEF c
  <2>5. u.end = "none" => Len(u.trail) = n + 1
    BY <2>2, <2>4 DEF c
  <2> QED
    BY <2>3, <2>4, <2>5 DEF u, T
<1> HIDE DEF T
<1>13. Nat \subseteq T
  BY <1>11, <1>12, SetInduction
<1> DEFINE c == after[last]
<1>14. /\ c \in V /\ Climbing(parents, known, start, c)
       /\ c.end = "none" => Len(c.trail) = last
  BY <1>9, <1>13 DEF T
<1> HIDE DEF c
<1>15. c.end # "none"
  <2> SUFFICES ASSUME c.end = "none" PROVE FALSE
    OBVIOUS
  <2> DEFINE g == [i \in 1..last |-> c.trail[i]]
  <2>1. c.trail \in Seq(ids) /\ Len(c.trail) = last
    BY <1>14 DEF Climbs
  <2>2. \A i, j \in 1..last : c.trail[i] = c.trail[j] => i = j
    BY <1>14, <2>1 DEF Climbing
  <2>3. g \in [1..last -> ids]
    BY <2>1
  <2>4. \A i, j \in 1..last : g[i] = g[j] => i = j
    BY <2>2
  <2> HIDE DEF g
  <2>5. IsFiniteSet(1..last) /\ Cardinality(1..last) = last
    BY <1>9, FS_Interval
  <2> HIDE DEF last
  <2>6. g \in Injection(1..last, ids)
    BY <2>3, <2>4 DEF Injection, IsInjective
  <2>7. Cardinality(1..last) <= Cardinality(ids)
    BY <1>9, <2>6, FS_Injection
  <2> QED
    BY <1>9, <2>5, <2>7 DEF last
<1>16. c.end \in {"known", "cycle"}
  BY <1>14, <1>15 DEF Climbs
<1> QED
  BY <1>8, <1>14, <1>16 DEF c

-----------------------------------------------------------------------------
(* One walk, from one start.                                                *)

\* The depths that are known grow, by the start unless a cycle is met, and a
\* cycle is only met where the root is not above.
Walked(nodes, root, start, walk, v) ==
  /\ v \in Walks(Ids(nodes)) /\ Labelled(nodes, root, v.depths)
  /\ Measured(walk.depths) \subseteq Measured(v.depths)
  /\ walk.cyclic => v.cyclic
  /\ start \in Measured(v.depths) \/ v.cyclic
  /\ v.cyclic => walk.cyclic \/ \E n \in Ids(nodes) \ {root} : root \notin Above(nodes, n)

\* Going down, each node is one deeper than the one that was passed after it.
LEMMA DescendLabels ==
  ASSUME NEW nodes, NEW root, Shape(nodes, root),
         NEW depths, Labelled(nodes, root, depths), NEW start \in Ids(nodes),
         NEW c \in Climbs(Ids(nodes)), c.end = "known",
         Climbing(Parents(nodes), Measured(depths), start, c)
  PROVE  /\ Labelled(nodes, root, Descend(depths, c))
         /\ Measured(Descend(depths, c)) = Measured(depths) \cup ToSet(c.trail)
<1> DEFINE ids == Ids(nodes)
           parents == Parents(nodes)
           known == Measured(depths)
           t == c.trail
           m == Len(t)
           rt == Reverse(t)
           base == depths[c.at]
           d == Descend(depths, c)
           at(n) == CHOOSE i \in DOMAIN rt : rt[i] = n
<1>1. /\ t \in Seq(ids) /\ m \in Nat /\ DOMAIN t = 1..m /\ c.at \in ids
      /\ \A i \in 1..m : t[i] \in ids
  BY DEF Climbs
<1>2. rt = [i \in 1..m |-> t[(m - i) + 1]]
  BY DEF Reverse
<1>3. c.at \in known /\ base \in Nat
  BY DEF Climbing, Labelled, Measured
<1>4. depths \in [ids -> Nat \cup {None}] /\ known \subseteq ids
      /\ \A n \in ids : n \in known <=> depths[n] \in Nat
  <2>1. depths \in [ids -> Nat \cup {None}]
    BY DEF Labelled
  <2> QED
    BY <2>1, NoneAssumption DEF Measured
<1>5. /\ \A i \in 1..m : t[i] \notin known
      /\ \A i \in 1..(m - 1) : parents[t[i]] = t[i + 1]
      /\ \A i, j \in 1..m : t[i] = t[j] => i = j
      /\ m # 0 => parents[t[m]] = c.at
  BY DEF Climbing
<1>6. /\ d = [n \in ids |->
                IF depths[n] # None THEN depths[n]
                ELSE IF n = c.at THEN base
                ELSE IF n \in ToSet(rt) THEN base + at(n)
                ELSE None]
  BY <1>4 DEF Descend
<1>7. ToSet(rt) = ToSet(t) /\ ToSet(t) = {t[i] : i \in 1..m}
  <2>1. \A i \in 1..m : (m - i) + 1 \in 1..m /\ (m - ((m - i) + 1)) + 1 = i
    BY <1>1
  <2> HIDE DEF t, m, rt
  <2>2. DOMAIN rt = 1..m /\ \A i \in 1..m : rt[i] = t[(m - i) + 1]
    BY <1>2
  <2>3. \A i \in 1..m : t[i] = rt[(m - i) + 1]
    BY <2>1, <2>2
  <2> QED
    BY <1>1, <2>1, <2>2, <2>3 DEF ToSet
<1>8. ASSUME NEW j \in 1..m
      PROVE  at(t[j]) = (m - j) + 1
  <2>1. (m - j) + 1 \in 1..m /\ (m - ((m - j) + 1)) + 1 = j
    BY <1>1
  <2> HIDE DEF t, m
  <2>2. DOMAIN rt = 1..m /\ \A i \in 1..m : rt[i] = t[(m - i) + 1]
    BY <1>2
  <2> HIDE DEF rt
  <2>3. rt[(m - j) + 1] = t[j]
    BY <2>1, <2>2
  <2>4. \A i \in 1..m : rt[i] = t[j] => i = (m - j) + 1
    <3> SUFFICES ASSUME NEW i \in 1..m, rt[i] = t[j]
                 PROVE  i = (m - j) + 1
      OBVIOUS
    <3>1. (m - i) + 1 \in 1..m
      BY <1>1
    <3>2. (m - i) + 1 = j
      BY <1>5, <2>2, <3>1
    <3> QED
      BY <1>1, <3>2
  <2> QED
    BY <2>1, <2>2, <2>3, <2>4
<1> HIDE DEF d, rt, at, base
<1>9. \A n \in known : d[n] = depths[n]
  BY <1>4, <1>6, NoneAssumption
<1>10. \A j \in 1..m : d[t[j]] = base + ((m - j) + 1) /\ d[t[j]] \in Nat
  <2> TAKE j \in 1..m
  <2>1. t[j] \in ids /\ depths[t[j]] = None /\ t[j] # c.at
    BY <1>1, <1>3, <1>4, <1>5
  <2>2. t[j] \in ToSet(rt)
    BY <1>7
  <2>3. d[t[j]] = base + at(t[j])
    BY <1>6, <2>1, <2>2
  <2>4. d[t[j]] = base + ((m - j) + 1)
    BY <1>8, <2>3
  <2> QED
    BY <1>1, <1>3, <2>4
<1>11. \A n \in ids \ (known \cup ToSet(t)) : d[n] = None
  BY <1>3, <1>4, <1>6, <1>7
<1> HIDE DEF t, m
<1>12. ids = Ids(nodes) /\ DOMAIN d = ids /\ Measured(d) = known \cup ToSet(t)
  <2>1. DOMAIN d = ids
    BY <1>6
  <2>2. \A n \in known \cup ToSet(t) : n \in ids /\ d[n] # None
    BY <1>1, <1>4, <1>7, <1>9, <1>10, NoneAssumption
  <2> QED
    BY <1>11, <2>1, <2>2 DEF Measured
<1>13. d \in [ids -> Nat \cup {None}]
  <2>1. \A n \in ids : d[n] \in Nat \cup {None}
    BY <1>4, <1>7, <1>9, <1>10, <1>11
  <2> QED
    BY <1>6, <2>1
<1>14. d[root] = 0
  <2>1. depths[root] = 0 /\ root \in ids
    BY DEF Labelled, Shape
  <2> QED
    BY <1>4, <1>9, <2>1
<1>15. ASSUME NEW n \in Measured(d) \ {root}
       PROVE  parents[n] \in Measured(d) /\ d[n] = d[parents[n]] + 1
  <2>1. CASE n \in known
    <3>1. parents[n] \in known /\ depths[n] = depths[parents[n]] + 1
      BY <1>15, <2>1 DEF Labelled
    <3> QED
      BY <1>9, <1>12, <2>1, <3>1
  <2>2. CASE n \notin known
    <3>1. PICK j \in 1..m : n = t[j]
      BY <1>7, <1>12, <1>15, <2>2
    <3>2. CASE j = m
      <4>1. parents[n] = c.at /\ m # 0
        BY <1>1, <1>5, <3>1, <3>2
      <4>2. d[parents[n]] = base
        BY <1>3, <1>9, <4>1 DEF base
      <4>3. d[n] = base + 1
        BY <1>1, <1>3, <1>10, <3>1, <3>2
      <4> QED
        BY <1>3, <1>12, <4>1, <4>2, <4>3
    <3>3. CASE j # m
      <4>1. j \in 1..(m - 1) /\ j + 1 \in 1..m
        BY <1>1, <3>1, <3>3
      <4>2. parents[n] = t[j + 1]
        BY <1>5, <3>1, <4>1
      <4>3. d[n] = base + ((m - j) + 1) /\ d[parents[n]] = base + ((m - (j + 1)) + 1)
        BY <1>10, <3>1, <4>1, <4>2
      <4>4. parents[n] \in Measured(d)
        BY <1>7, <1>12, <4>1, <4>2
      <4> QED
        BY <1>1, <1>3, <4>3, <4>4
    <3> QED
      BY <3>2, <3>3
  <2> QED
    BY <2>1, <2>2
<1> QED
  BY <1>12, <1>13, <1>14, <1>15 DEF Labelled, d, t

\* A cycle has no way to the root.
LEMMA CycleBelow ==
  ASSUME NEW nodes, NEW root, Shape(nodes, root), NEW known, root \in known,
         NEW start, NEW c \in Climbs(Ids(nodes)), c.end = "cycle",
         Climbing(Parents(nodes), known, start, c)
  PROVE  c.at \in Ids(nodes) \ {root} /\ root \notin Above(nodes, c.at)
<1> DEFINE t == c.trail
           m == Len(t)
           S == ToSet(t)
<1>1. /\ m \in Nat /\ DOMAIN t = 1..m /\ \A i \in 1..m : t[i] \in Ids(nodes)
  BY DEF Climbs
<1>2. /\ \A i \in 1..m : t[i] \notin known
      /\ \A i \in 1..(m - 1) : Parents(nodes)[t[i]] = t[i + 1]
      /\ m # 0 => Parents(nodes)[t[m]] = c.at
      /\ c.at \in S
  BY DEF Climbing
<1> HIDE DEF t, m
<1>3. S \in SUBSET Ids(nodes) /\ root \notin S
  BY <1>1, <1>2 DEF ToSet
<1>4. \A x \in S : Parents(nodes)[x] \in S
  <2> TAKE x \in S
  <2>1. PICK i \in 1..m : x = t[i]
    BY <1>1 DEF ToSet
  <2>2. CASE i = m
    BY <1>1, <1>2, <2>1, <2>2
  <2>3. CASE i # m
    <3>1. i \in 1..(m - 1) /\ i + 1 \in 1..m
      BY <1>1, <2>1, <2>3
    <3> QED
      BY <1>1, <1>2, <2>1, <3>1 DEF ToSet
  <2> QED
    BY <2>2, <2>3
<1>5. \A x \in S : Under(nodes, x) \subseteq S
  BY <1>3, <1>4 DEF Shape
<1> HIDE DEF S
<1>6. Above(nodes, c.at) \subseteq S
  BY <1>2, <1>3, <1>5, AboveCloses
<1> QED
  BY <1>2, <1>3, <1>6

\* One start of the walk keeps what the depths mean (allocator.py:284-309).
LEMMA WalksOn ==
  ASSUME NEW nodes, NEW root, Shape(nodes, root), NEW start \in Ids(nodes),
         NEW walk \in Walks(Ids(nodes)), Labelled(nodes, root, walk.depths)
  PROVE  Walked(nodes, root, start, walk, WalkFrom(Ids(nodes), Parents(nodes))[start][walk])
<1> DEFINE ids == Ids(nodes)
           parents == Parents(nodes)
           known == Measured(walk.depths)
           c == Climb(ids, parents, known, start)
           v == WalkFrom(ids, parents)[start][walk]
<1>1. /\ walk.depths \in [ids -> Nat \cup {None}] /\ walk.cyclic \in BOOLEAN
      /\ walk = [depths |-> walk.depths, cyclic |-> walk.cyclic]
  BY DEF Walks
<1>2. known \subseteq ids /\ root \in known
  <2>1. walk.depths[root] = 0 /\ root \in ids
    BY DEF Labelled, Shape
  <2> QED
    BY <1>1, <2>1, NoneAssumption DEF Measured
<1>3. Rising(ids, parents, known)
  <2> HIDE DEF known
  <2> QED
    BY <1>2 DEF Rising, Shape
<1>4. c \in Climbs(ids) /\ Climbing(parents, known, start, c) /\ c.end \in {"known", "cycle"}
  <2> HIDE DEF known, ids, parents
  <2> QED
    BY <1>3, ClimbEnds DEF ids
<1>5. v = CASE c.end = "cycle" -> [walk EXCEPT !.cyclic = TRUE]
            [] c.end = "lost"  -> walk
            [] OTHER -> [walk EXCEPT !.depths = Descend(@, c)]
  <2> HIDE DEF known
  <2> QED
    BY DEF WalkFrom, known
<1> HIDE DEF c, v
<1>6. CASE c.end = "cycle"
  <2>1. v = [depths |-> walk.depths, cyclic |-> TRUE]
    BY <1>1, <1>5, <1>6
  <2>2. v \in Walks(ids) /\ v.depths = walk.depths /\ v.cyclic
    BY <1>1, <2>1 DEF Walks
  <2>3. c.at \in ids \ {root} /\ root \notin Above(nodes, c.at)
    <3> HIDE DEF known
    <3> QED
      BY <1>2, <1>4, <1>6, CycleBelow
  <2> HIDE DEF known
  <2>4. Measured(walk.depths) \subseteq Measured(v.depths) /\ Labelled(nodes, root, v.depths)
    BY <2>2
  <2> QED
    BY <2>2, <2>3, <2>4 DEF Walked, v
<1>7. CASE c.end = "known"
  <2> DEFINE d == Descend(walk.depths, c)
  <2>1. v = [walk EXCEPT !.depths = d]
    BY <1>5, <1>7
  <2>2. Labelled(nodes, root, d) /\ Measured(d) = known \cup ToSet(c.trail)
    BY <1>4, <1>7, DescendLabels
  <2> HIDE DEF d
  <2>3. v = [depths |-> d, cyclic |-> walk.cyclic]
    BY <1>1, <2>1
  <2>4. v \in Walks(ids) /\ v.depths = d /\ v.cyclic = walk.cyclic
    BY <1>1, <2>2, <2>3 DEF Walks, Labelled
  <2>5. start \in Measured(d)
    <3>1. c.trail \in Seq(ids) /\ Len(c.trail) \in Nat /\ DOMAIN c.trail = 1..Len(c.trail)
      BY <1>4 DEF Climbs
    <3>2. CASE Len(c.trail) = 0
      BY <1>4, <1>7, <2>2, <3>2 DEF Climbing
    <3>3. CASE Len(c.trail) # 0
      <4>1. c.trail[1] = start /\ 1 \in DOMAIN c.trail
        BY <1>4, <3>1, <3>3 DEF Climbing
      <4> QED
        BY <2>2, <4>1 DEF ToSet
    <3> QED
      BY <3>2, <3>3
  <2> QED
    BY <2>2, <2>4, <2>5 DEF Walked, v
<1> QED
  BY <1>4, <1>6, <1>7 DEF v

-----------------------------------------------------------------------------
(* The walk from every node in turn.                                        *)

\* Every depth is known at the end, or a cycle was met.
Walkthrough(nodes, root, walk) ==
  /\ walk \in Walks(Ids(nodes)) /\ Labelled(nodes, root, walk.depths)
  /\ Measured(walk.depths) = Ids(nodes) \/ walk.cyclic
  /\ walk.cyclic => \E n \in Ids(nodes) \ {root} : root \notin Above(nodes, n)

\* The whole walk, over all starts: every depth, or a cycle.
LEMMA WalkKnows ==
  ASSUME NEW nodes, NEW root, Shape(nodes, root)
  PROVE  Walkthrough(nodes, root, Walk(Ids(nodes), Parents(nodes), {root}))
<1> DEFINE ids == Ids(nodes)
           V == {w \in Walks(ids) : Labelled(nodes, root, w.depths)}
           from == WalkFrom(ids, Parents(nodes))
           depths == [n \in ids |-> IF n \in {root} THEN 0 ELSE None]
           base == [depths |-> depths, cyclic |-> FALSE]
           seq == Ranked(ids)
           r == Walk(ids, Parents(nodes), {root})
           Hung == \E n \in ids \ {root} : root \notin Above(nodes, n)
<1>1. Labelled(nodes, root, depths) /\ depths \in [ids -> Nat \cup {None}]
  <2>1. root \in ids /\ depths \in [ids -> Nat \cup {None}] /\ depths[root] = 0
    BY DEF Shape
  <2>2. Measured(depths) = {root}
    BY <2>1, NoneAssumption DEF Measured
  <2> HIDE DEF depths
  <2> QED
    BY <2>1, <2>2 DEF Labelled
<1> HIDE DEF depths
<1>2. base \in V /\ base.cyclic = FALSE
  <2>1. base \in Walks(ids) /\ base.depths = depths /\ base.cyclic = FALSE
    BY <1>1 DEF Walks
  <2> HIDE DEF base
  <2> QED
    BY <1>1, <2>1
<1>3. seq \in Seq(ids) /\ ToSet(seq) = ids
  BY RankedAll DEF Shape
<1>4. \A start \in ids : \A w \in V : Walked(nodes, root, start, w, from[start][w])
  BY WalksOn
<1>5. \A start \in ids : \A w \in V : from[start][w] \in V
  BY <1>4 DEF Walked
<1> DEFINE f == FoldLeft(LAMBDA t, d : from[d][t], base, seq)
<1>6. r = f
  BY DEF Walk, depths
<1> HIDE DEF base, seq, from, r
<1>7. PICK acc : Folding(V, from, base, seq, acc)
  <2> HIDE DEF V
  <2> QED
    BY <1>2, <1>3, <1>5, FoldLeftRuns
<1>f. f = acc[Len(seq)]
  BY <1>7 DEF Folding
<1> HIDE DEF f
<1>g. acc[0] = base /\ \A i \in 1..Len(seq) : acc[i] = from[seq[i]][acc[i - 1]]
  BY <1>7 DEF Folding
<1>8. /\ acc[0] = base /\ Len(seq) \in Nat /\ DOMAIN seq = 1..Len(seq)
      /\ \A i \in 1..Len(seq) : seq[i] \in ids
      /\ \A i \in 1..Len(seq) : acc[i] = from[seq[i]][acc[i - 1]]
      /\ r = acc[Len(seq)]
  BY <1>3, <1>6, <1>f, <1>g
<1> DEFINE Far(i) ==
             /\ acc[i] \in V /\ (acc[i].cyclic => Hung)
             /\ \A j \in 1..i : seq[j] \in Measured(acc[i].depths) \/ acc[i].cyclic
           T == {i \in Nat : i <= Len(seq) => Far(i)}
<1>9. 0 \in T
  BY <1>2, <1>8
<1>10. ASSUME NEW i \in Nat, i \in T
       PROVE  i + 1 \in T
  <2> SUFFICES ASSUME i + 1 <= Len(seq)
               PROVE  Far(i + 1)
    OBVIOUS
  <2> DEFINE w == acc[i]
             u == acc[i + 1]
  <2>1. i + 1 \in 1..Len(seq) /\ i + 1 - 1 = i /\ i <= Len(seq)
    BY <1>8
  <2>2. w \in V /\ (w.cyclic => Hung)
        /\ \A j \in 1..i : seq[j] \in Measured(w.depths) \/ w.cyclic
    BY <1>10, <2>1
  <2>3. u = from[seq[i + 1]][w] /\ seq[i + 1] \in ids
    BY <1>8, <2>1
  <2> HIDE DEF T, V, w, u, Hung
  <2>4. Walked(nodes, root, seq[i + 1], w, u)
    BY <1>4, <2>2, <2>3
  <2>5. u \in V
    BY <2>4 DEF Walked, V
  <2>6. u.cyclic => Hung
    BY <2>2, <2>4 DEF Walked, Hung
  <2>7. \A j \in 1..(i + 1) : seq[j] \in Measured(u.depths) \/ u.cyclic
    <3> TAKE j \in 1..(i + 1)
    <3>1. CASE j = i + 1
      BY <2>4, <3>1 DEF Walked
    <3>2. CASE j # i + 1
      <4>1. j \in 1..i
        BY <3>2
      <4> QED
        BY <2>2, <2>4, <4>1 DEF Walked
    <3> QED
      BY <3>1, <3>2
  <2> QED
    BY <2>5, <2>6, <2>7 DEF u
<1> HIDE DEF T, Hung
<1>11. Nat \subseteq T
  BY <1>9, <1>10, SetInduction
<1>12. /\ r \in V /\ (r.cyclic => Hung)
       /\ \A j \in 1..Len(seq) : seq[j] \in Measured(r.depths) \/ r.cyclic
  BY <1>8, <1>11 DEF T
<1>13. Measured(r.depths) = ids \/ r.cyclic
  <2>1. \A n \in ids : n \in Measured(r.depths) \/ r.cyclic
    BY <1>3, <1>8, <1>12 DEF ToSet
  <2>2. Measured(r.depths) \subseteq ids
    BY <1>12 DEF Measured, Walks
  <2> QED
    BY <2>1, <2>2
<1> QED
  BY <1>12, <1>13 DEF Walkthrough, Hung, r

\* A limit on the depths is one on the nodes above each node.
LEMMA WalkAccepts ==
  ASSUME NEW nodes, NEW root, Shape(nodes, root), NEW limit \in Nat
  PROVE  LET walk == Walk(Ids(nodes), Parents(nodes), {root})
         IN  (~walk.cyclic /\ ~Deeper(walk, limit))
             <=> \A n \in Ids(nodes) \ {root} :
                   root \in Above(nodes, n) /\ Cardinality(Above(nodes, n)) <= limit
<1> DEFINE walk == Walk(Ids(nodes), Parents(nodes), {root})
           Within == \A n \in Ids(nodes) \ {root} :
                       root \in Above(nodes, n) /\ Cardinality(Above(nodes, n)) <= limit
<1>1. Walkthrough(nodes, root, walk)
  BY WalkKnows
<1> HIDE DEF walk
<1>2. \A n \in Measured(walk.depths) :
           /\ walk.depths[n] \in Nat /\ n \in Ids(nodes)
           /\ n # root => root \in Above(nodes, n)
           /\ Cardinality(Above(nodes, n)) = walk.depths[n]
  BY <1>1, LabelledCounts DEF Walkthrough
<1>3. ASSUME ~walk.cyclic, ~Deeper(walk, limit)
      PROVE  Within
  <2>1. Measured(walk.depths) = Ids(nodes)
    BY <1>1, <1>3 DEF Walkthrough
  <2>2. \A n \in Ids(nodes) : ~(walk.depths[n] > limit)
    BY <1>3, <2>1 DEF Deeper
  <2> QED
    BY <1>2, <2>1, <2>2
<1>4. ASSUME Within
      PROVE  ~walk.cyclic /\ ~Deeper(walk, limit)
  <2>1. ~walk.cyclic
    BY <1>1, <1>4 DEF Walkthrough
  <2>2. ASSUME NEW n \in Measured(walk.depths)
        PROVE  ~(walk.depths[n] > limit)
    <3>1. CASE n = root
      <4>1. walk.depths[n] = 0
        BY <1>1, <3>1 DEF Walkthrough, Labelled
      <4> QED
        BY <4>1
    <3>2. CASE n # root
      <4>1. Cardinality(Above(nodes, n)) <= limit /\ walk.depths[n] \in Nat
            /\ Cardinality(Above(nodes, n)) = walk.depths[n]
        BY <1>2, <1>4, <3>2
      <4> QED
        BY <4>1
    <3> QED
      BY <3>1, <3>2
  <2> QED
    BY <2>1, <2>2 DEF Deeper
<1> HIDE DEF Within
<1> QED
  BY <1>3, <1>4 DEF walk, Within

-----------------------------------------------------------------------------
(* Lists without repetition.                                                *)

\* The greatest of one number.
LEMMA MaxOfOne == \A i \in Nat : Max({i}) = i
BY DEF Max

\* Entries, names and numbers of a list.
LEMMA Listed ==
  ASSUME NEW R, NEW list \in Seq(R)
  PROVE  /\ Len(list) \in Nat /\ DOMAIN list = 1..Len(list)
         /\ \A i \in 1..Len(list) : list[i] \in R
         /\ ToSet(list) = {list[i] : i \in 1..Len(list)}
         /\ Ids(list) = {list[i].id : i \in 1..Len(list)}
         /\ Column(list) = [i \in 1..Len(list) |-> list[i].id]
         /\ IsFiniteSet(1..Len(list))
<1>1. Len(list) \in Nat /\ DOMAIN list = 1..Len(list)
      /\ \A i \in 1..Len(list) : list[i] \in R
  OBVIOUS
<1> QED
  BY <1>1, FS_Interval DEF ToSet, Ids, Column

\* Without repetition a name stands for one entry.
LEMMA ListedOnce ==
  ASSUME NEW R, NEW list \in Seq(R), ~Repeated(Column(list))
  PROVE  /\ \A i, j \in 1..Len(list) : list[i].id = list[j].id => i = j
         /\ \A i \in 1..Len(list) :
              /\ Entry(list, list[i].id) = list[i]
              /\ {k \in 1..Len(list) : list[k].id = list[i].id} = {i}
<1>1. \A i, j \in 1..Len(list) : list[i].id = list[j].id => i = j
  <2> DEFINE c == Column(list)
  <2>1. c = [i \in 1..Len(list) |-> list[i].id]
    BY Listed
  <2> HIDE DEF c
  <2>2. \A i, j \in 1..Len(list) : c[i] = c[j] => i = j
    BY <2>1 DEF Repeated, c
  <2> QED
    BY <2>1, <2>2
<1>2. ASSUME NEW i \in 1..Len(list)
      PROVE  /\ Entry(list, list[i].id) = list[i]
             /\ {k \in 1..Len(list) : list[k].id = list[i].id} = {i}
  <2> DEFINE j == CHOOSE k \in DOMAIN list : list[k].id = list[i].id
  <2>1. j \in 1..Len(list) /\ list[j].id = list[i].id
    BY Listed
  <2>2. j = i
    BY <1>1, <2>1
  <2>3. Entry(list, list[i].id) = list[j]
    BY DEF Entry
  <2> HIDE DEF j
  <2> QED
    BY <1>1, <2>2, <2>3
<1> QED
  BY <1>1, <1>2

\* hierarchy_types: without repetition, the type of that entry (intent.py:340-341).
LEMMA TypeOfNode ==
  ASSUME NEW R, NEW nodes \in Seq(R), ~Repeated(Column(nodes)), NEW i \in 1..Len(nodes)
  PROVE  TypeIn(nodes, nodes[i].id) = nodes[i].type
<1> DEFINE id == nodes[i].id
           I == {k \in 1..Len(nodes) : nodes[k].id = id}
<1>1. I = {i}
  BY ListedOnce
<1>2. Max(I) = i /\ I # {}
  BY <1>1, MaxOfOne, Listed
<1>3. SelectLastInSeq(nodes, LAMBDA n : n.id = id) = i
  BY <1>2 DEF SelectLastInSeq
<1> QED
  BY <1>3 DEF TypeIn

\* The entries that name a parent.
Lower(nodes) == {i \in 1..Len(nodes) : nodes[i].type # "global" /\ nodes[i].parent # None}

\* parents: without repetition, what the entry of a node names (intent.py:346-350).
LEMMA ParentOfNode ==
  ASSUME NEW R, NEW nodes \in Seq(R), ~Repeated(Column(nodes))
  PROVE  /\ DOMAIN Parents(nodes) = {nodes[i].id : i \in Lower(nodes)}
         /\ \A i \in Lower(nodes) : Parents(nodes)[nodes[i].id] = nodes[i].parent
         /\ \A i \in 1..Len(nodes) :
              Under(nodes, nodes[i].id) = {nodes[i].parent} \cap Ids(nodes)
<1> DEFINE below == {i \in DOMAIN nodes : nodes[i].type # "global" /\ nodes[i].parent # None}
           last(id) == Max({i \in below : nodes[i].id = id})
<1>1. below = Lower(nodes)
  BY Listed DEF Lower
<1>2. Parents(nodes) = [id \in {nodes[i].id : i \in below} |-> nodes[last(id)].parent]
  BY DEF Parents
<1>3. ASSUME NEW i \in Lower(nodes)
      PROVE  Parents(nodes)[nodes[i].id] = nodes[i].parent
  <2>1. i \in 1..Len(nodes) /\ Lower(nodes) \subseteq 1..Len(nodes)
    BY DEF Lower
  <2>2. {k \in below : nodes[k].id = nodes[i].id} = {i}
    <3> HIDE DEF below
    <3>1. \A k \in below : nodes[k].id = nodes[i].id => k = i
      BY <1>1, <2>1, ListedOnce
    <3> QED
      BY <1>1, <3>1
  <2>3. last(nodes[i].id) = i
    BY <2>1, <2>2, MaxOfOne
  <2> HIDE DEF last, below
  <2>4. nodes[i].id \in {nodes[k].id : k \in below}
    BY <1>1
  <2> QED
    BY <1>2, <2>3, <2>4
<1>4. ASSUME NEW i \in 1..Len(nodes)
      PROVE  Under(nodes, nodes[i].id) = {nodes[i].parent} \cap Ids(nodes)
  <2>1. {m \in ToSet(nodes) : m.id = nodes[i].id} = {nodes[i]}
    <3>1. \A m \in ToSet(nodes) : m.id = nodes[i].id => m = nodes[i]
      BY Listed, ListedOnce
    <3> QED
      BY <3>1, Listed
  <2> QED
    BY <2>1 DEF Under
<1> QED
  BY <1>1, <1>2, <1>3, <1>4

-----------------------------------------------------------------------------
(* What is checked of each node by itself.                                  *)

\* Entry r is the root, and every other entry is of a type that its parent holds.
Rooted(nodes, r) ==
  /\ ~Repeated(Column(nodes))
  /\ r \in 1..Len(nodes) /\ nodes[r].type = "global" /\ nodes[r].parent = None
  /\ \A i \in (1..Len(nodes)) \ {r} :
       /\ nodes[i].type # "global" /\ nodes[i].parent \in Ids(nodes)
       /\ nodes[i].type \in AllowedChildren[Entry(nodes, nodes[i].parent).type]

\* Nodes that pass one by one form a forest with one root, or hang on a cycle.
LEMMA RootedShape ==
  ASSUME NEW nodes \in Seq(NodeRecord), NEW r, Rooted(nodes, r)
  PROVE  /\ Shape(nodes, nodes[r].id)
         /\ {n.id : n \in Globals(nodes)} = {nodes[r].id}
         /\ {id \in Ids(nodes) : TypeIn(nodes, id) = "global"} = {nodes[r].id}
<1> DEFINE m == Len(nodes)
           ids == Ids(nodes)
           root == nodes[r].id
           parents == Parents(nodes)
<1>1. /\ m \in Nat /\ DOMAIN nodes = 1..m /\ ids = {nodes[i].id : i \in 1..m}
      /\ ToSet(nodes) = {nodes[i] : i \in 1..m} /\ IsFiniteSet(1..m)
      /\ \A i \in 1..m : nodes[i].id \in Nat
  <2>1. \A n \in NodeRecord : n.id \in Nat
    BY DEF NodeRecord
  <2> QED
    BY <2>1, Listed
<1>2. \A i, j \in 1..m : nodes[i].id = nodes[j].id => i = j
  BY ListedOnce DEF Rooted
<1>3. /\ r \in 1..m /\ nodes[r].type = "global" /\ nodes[r].parent = None
      /\ \A i \in (1..m) \ {r} : nodes[i].type # "global" /\ nodes[i].parent \in ids
  BY DEF Rooted
<1>4. /\ DOMAIN parents = {nodes[i].id : i \in Lower(nodes)}
      /\ \A i \in Lower(nodes) : parents[nodes[i].id] = nodes[i].parent
      /\ \A i \in 1..m : Under(nodes, nodes[i].id) = {nodes[i].parent} \cap ids
  BY ParentOfNode DEF Rooted
<1>5. \A i \in 1..m : TypeIn(nodes, nodes[i].id) = nodes[i].type
  BY TypeOfNode DEF Rooted
<1>6. IsFiniteSet(ids)
  <2> DEFINE h == [i \in 1..m |-> nodes[i].id]
  <2>1. h \in Surjection(1..m, ids)
    BY <1>1 DEF Surjection
  <2> HIDE DEF h, ids, m
  <2> QED
    BY <1>1, <2>1, FS_Surjection
<1> HIDE DEF ids, m, parents
<1>7. ids \subseteq Nat /\ root \in ids /\ None \notin ids
  BY <1>1, <1>3, NoneAssumption
<1>8. Lower(nodes) = (1..m) \ {r}
  BY <1>3, <1>7 DEF Lower, m
<1>9. {nodes[i].id : i \in (1..m) \ {r}} = ids \ {root}
  BY <1>1, <1>2, <1>3
<1>10. parents \in [ids \ {root} -> ids]
  <2>1. DOMAIN parents = ids \ {root}
    BY <1>4, <1>8, <1>9
  <2>2. \A n \in ids \ {root} : parents[n] \in ids
    BY <1>3, <1>4, <1>8, <1>9
  <2>3. parents = [n \in DOMAIN parents |-> parents[n]]
    BY DEF parents, Parents
  <2> QED
    BY <2>1, <2>2, <2>3
<1>11. Under(nodes, root) = {}
  BY <1>3, <1>4, <1>7
<1>12. \A n \in ids \ {root} : Under(nodes, n) = {parents[n]}
  <2> TAKE n \in ids \ {root}
  <2>1. PICK i \in (1..m) \ {r} : n = nodes[i].id
    BY <1>9
  <2>2. parents[n] = nodes[i].parent
    BY <1>4, <1>8, <2>1
  <2>3. Under(nodes, n) = {nodes[i].parent} \cap ids /\ nodes[i].parent \in ids
    BY <1>3, <1>4, <2>1
  <2> QED
    BY <2>2, <2>3
<1>13. Shape(nodes, root)
  BY <1>6, <1>7, <1>10, <1>11, <1>12 DEF Shape, ids, parents
<1>14. {n.id : n \in Globals(nodes)} = {root}
  <2>1. Globals(nodes) = {nodes[r]}
    BY <1>1, <1>3 DEF Globals
  <2> QED
    BY <2>1
<1>15. {id \in ids : TypeIn(nodes, id) = "global"} = {root}
  BY <1>1, <1>3, <1>5
<1> QED
  BY <1>13, <1>14, <1>15 DEF ids

\* The allocator's own checks of the nodes.
LEMMA AcceptedRooted ==
  ASSUME NEW nodes \in Seq(NodeRecord)
  PROVE  NodesAccepted(nodes) <=> \E r \in 1..Len(nodes) : Rooted(nodes, r)
<1> DEFINE m == Len(nodes)
<1>1. /\ m \in Nat /\ ToSet(nodes) = {nodes[i] : i \in 1..m} /\ IsFiniteSet(1..m)
  BY Listed
<1>2. ASSUME NodesAccepted(nodes)
      PROVE  \E r \in 1..m : Rooted(nodes, r)
  <2>1. IsFiniteSet(Globals(nodes))
    <3> DEFINE h == [i \in 1..m |-> nodes[i]]
    <3>1. h \in Surjection(1..m, ToSet(nodes))
      BY <1>1 DEF Surjection
    <3> HIDE DEF h, m
    <3>2. IsFiniteSet(ToSet(nodes))
      BY <1>1, <3>1, FS_Surjection
    <3>3. Globals(nodes) \in SUBSET ToSet(nodes)
      BY DEF Globals
    <3> QED
      BY <3>2, <3>3, FS_Subset
  <2>2. Cardinality(Globals(nodes)) = 1
    BY <1>2 DEF NodesAccepted
  <2>3. PICK g : Globals(nodes) = {g}
    BY <2>1, <2>2, FS_Singleton
  <2>4. PICK r \in 1..m : g = nodes[r] /\ nodes[r].type = "global"
    BY <1>1, <2>3 DEF Globals
  <2>5. nodes[r].parent = None /\ ~Repeated(Column(nodes))
    BY <1>2, <2>3, <2>4 DEF NodesAccepted
  <2>6. \A i \in (1..m) \ {r} : nodes[i] \in ToSet(nodes) \ Globals(nodes)
    BY <1>1, <2>3, <2>4, <2>5, ListedOnce
  <2>7. \A i \in (1..m) \ {r} :
          /\ nodes[i].type # "global" /\ nodes[i].parent \in Ids(nodes)
          /\ nodes[i].type \in AllowedChildren[Entry(nodes, nodes[i].parent).type]
    BY <1>2, <2>6 DEF NodesAccepted, Globals
  <2> QED
    BY <2>4, <2>5, <2>7 DEF Rooted
<1>3. ASSUME NEW r \in 1..m, Rooted(nodes, r)
      PROVE  NodesAccepted(nodes)
  <2>1. Globals(nodes) = {nodes[r]}
    BY <1>1, <1>3 DEF Rooted, Globals
  <2>2. Cardinality(Globals(nodes)) = 1
    BY <2>1, FS_Singleton
  <2>3. \A n \in ToSet(nodes) \ Globals(nodes) :
          /\ n.parent \in Ids(nodes)
          /\ n.type \in AllowedChildren[Entry(nodes, n.parent).type]
    BY <1>1, <1>3, <2>1 DEF Rooted
  <2>4. ~Repeated(Column(nodes)) /\ \A n \in Globals(nodes) : n.parent = None
    BY <1>3, <2>1 DEF Rooted
  <2> QED
    BY <2>2, <2>3, <2>4 DEF NodesAccepted
<1> QED
  BY <1>2, <1>3

\* The definition of a hierarchy, entry by entry.
LEMMA HierarchyRooted ==
  ASSUME NEW nodes \in Seq(NodeRecord), NEW limit
  PROVE  IsHierarchy(nodes, limit) <=>
           \E r \in 1..Len(nodes) :
             /\ Rooted(nodes, r)
             /\ \A n \in Ids(nodes) \ {nodes[r].id} :
                  nodes[r].id \in Above(nodes, n) /\ Cardinality(Above(nodes, n)) <= limit
<1> DEFINE m == Len(nodes)
           High(id, n) == id \in Above(nodes, n) /\ Cardinality(Above(nodes, n)) <= limit
<1>1. /\ m \in Nat /\ ToSet(nodes) = {nodes[i] : i \in 1..m}
      /\ Ids(nodes) = {nodes[i].id : i \in 1..m}
  BY Listed
<1>2. IsHierarchy(nodes, limit) <=>
        /\ ~Repeated(Column(nodes))
        /\ \E root \in ToSet(nodes) :
             /\ root.type = "global" /\ root.parent = None
             /\ \A n \in ToSet(nodes) \ {root} :
                  /\ n.type # "global"
                  /\ n.parent \in Ids(nodes)
                  /\ n.type \in AllowedChildren[Entry(nodes, n.parent).type]
                  /\ High(root.id, n.id)
  BY DEF IsHierarchy
<1> HIDE DEF High
<1>3. ASSUME IsHierarchy(nodes, limit)
      PROVE  \E r \in 1..m : /\ Rooted(nodes, r)
                             /\ \A n \in Ids(nodes) \ {nodes[r].id} : High(nodes[r].id, n)
  <2>1. PICK root \in ToSet(nodes) :
             /\ root.type = "global" /\ root.parent = None
             /\ \A n \in ToSet(nodes) \ {root} :
                  /\ n.type # "global"
                  /\ n.parent \in Ids(nodes)
                  /\ n.type \in AllowedChildren[Entry(nodes, n.parent).type]
                  /\ High(root.id, n.id)
    BY <1>2, <1>3
  <2>2. PICK r \in 1..m : root = nodes[r]
    BY <1>1
  <2>3. ~Repeated(Column(nodes))
    BY <1>2, <1>3
  <2>4. \A i \in (1..m) \ {r} : nodes[i] \in ToSet(nodes) \ {root}
    BY <1>1, <2>2, <2>3, ListedOnce
  <2>5. \A i \in (1..m) \ {r} :
          /\ nodes[i].type # "global" /\ nodes[i].parent \in Ids(nodes)
          /\ nodes[i].type \in AllowedChildren[Entry(nodes, nodes[i].parent).type]
          /\ High(nodes[r].id, nodes[i].id)
    BY <2>1, <2>2, <2>4
  <2>6. Rooted(nodes, r)
    BY <2>1, <2>2, <2>3, <2>5 DEF Rooted
  <2>7. \A n \in Ids(nodes) \ {nodes[r].id} : High(nodes[r].id, n)
    BY <1>1, <2>5
  <2> QED
    BY <2>6, <2>7
<1>4. ASSUME NEW r \in 1..m, Rooted(nodes, r),
             \A n \in Ids(nodes) \ {nodes[r].id} : High(nodes[r].id, n)
      PROVE  IsHierarchy(nodes, limit)
  <2>1. ~Repeated(Column(nodes)) /\ nodes[r] \in ToSet(nodes)
        /\ nodes[r].type = "global" /\ nodes[r].parent = None
    BY <1>1, <1>4 DEF Rooted
  <2>2. ASSUME NEW n \in ToSet(nodes) \ {nodes[r]}
        PROVE  /\ n.type # "global"
               /\ n.parent \in Ids(nodes)
               /\ n.type \in AllowedChildren[Entry(nodes, n.parent).type]
               /\ High(nodes[r].id, n.id)
    <3>1. PICK i \in (1..m) \ {r} : n = nodes[i]
      BY <1>1
    <3>2. nodes[i].id # nodes[r].id /\ nodes[i].id \in Ids(nodes)
      BY <1>1, <2>1, ListedOnce
    <3> QED
      BY <1>4, <3>1, <3>2 DEF Rooted
  <2> QED
    BY <1>2, <2>1, <2>2
<1> QED
  BY <1>3, <1>4 DEF High

\* No issue is raised exactly when its condition does not hold.
LEMMA RaisesNothing == \A c, i : Raise(c, i) = {} <=> ~c
BY DEF Raise

\* The validator: its issues, one by one.
LEMMA NoNodeIssues ==
  ASSUME NEW nodes \in Seq(NodeRecord)
  PROVE  NodeIssues(nodes) = {} <=>
           LET globals == {i \in DOMAIN nodes : nodes[i].type = "global"}
               parents == Parents(nodes)
               walk == Walk(Ids(nodes), parents,
                            {id \in Ids(nodes) : TypeIn(nodes, id) = "global"})
           IN  /\ ~Repeated(Column(nodes)) /\ Cardinality(globals) = 1
               /\ \A i \in globals : nodes[i].parent = None
               /\ \A i \in DOMAIN nodes \ globals : nodes[i].parent # None
               /\ \A n \in DOMAIN parents : parents[n] \in Ids(nodes)
               /\ \A n \in DOMAIN parents :
                    parents[n] \in Ids(nodes) =>
                      TypeIn(nodes, n) \in AllowedChildren[TypeIn(nodes, parents[n])]
               /\ ~walk.cyclic /\ ~Deeper(walk, MaxHierarchyDepth)
<1> DEFINE parents == Parents(nodes)
           ids     == Ids(nodes)
           globals == {i \in DOMAIN nodes : nodes[i].type = "global"}
           walk    == Walk(ids, parents, {id \in ids : TypeIn(nodes, id) = "global"})
           D1 == Repeated(Column(nodes))
           D2 == Cardinality(globals) # 1
           D3 == \E i \in globals : nodes[i].parent # None
           D4 == \E i \in DOMAIN nodes \ globals : nodes[i].parent = None
           D5 == \E n \in DOMAIN parents : parents[n] \notin ids
           D6 == \E n \in DOMAIN parents :
                   /\ parents[n] \in ids
                   /\ TypeIn(nodes, n) \notin AllowedChildren[TypeIn(nodes, parents[n])]
           D7 == walk.cyclic
           D8 == Deeper(walk, MaxHierarchyDepth)
<1> DEFINE R1 == Raise(D1, "duplicate hierarchy node id")
           R2 == Raise(D2, "hierarchy.global_count")
           R3 == Raise(D3, "hierarchy.global_parent")
           R4 == Raise(D4, "required.string")
           R5 == Raise(D5, "reference.hierarchy_parent")
           R6 == Raise(D6, "hierarchy.parent_type")
           R7 == Raise(D7, "hierarchy.cycle")
           R8 == Raise(D8, "hierarchy.too_deep")
           raised == {R1, R2, R3, R4, R5, R6, R7, R8}
<1>1. NodeIssues(nodes) = UNION raised
  BY DEF NodeIssues
<1> HIDE DEF D1, D2, D3, D4, D5, D6, D7, D8
<1>2. NodeIssues(nodes) = {} <=>
        /\ R1 = {} /\ R2 = {} /\ R3 = {} /\ R4 = {}
        /\ R5 = {} /\ R6 = {} /\ R7 = {} /\ R8 = {}
  <2> HIDE DEF R1, R2, R3, R4, R5, R6, R7, R8
  <2>1. (\A r \in raised : r = {}) <=>
          /\ R1 = {} /\ R2 = {} /\ R3 = {} /\ R4 = {}
          /\ R5 = {} /\ R6 = {} /\ R7 = {} /\ R8 = {}
    OBVIOUS
  <2> HIDE DEF raised
  <2>2. UNION raised = {} <=> \A r \in raised : r = {}
    OBVIOUS
  <2> QED
    BY <1>1, <2>1, <2>2
<1>3. NodeIssues(nodes) = {} <=>
        ~D1 /\ ~D2 /\ ~D3 /\ ~D4 /\ ~D5 /\ ~D6 /\ ~D7 /\ ~D8
  BY <1>2, RaisesNothing
<1> QED
  BY <1>3 DEF D1, D2, D3, D4, D5, D6, D7, D8

\* validate_intent raises no issue on the nodes exactly when each passes by itself
\* and the walk from all of them meets neither a cycle nor the limit.
LEMMA IssuesRooted ==
  ASSUME NEW nodes \in Seq(NodeRecord)
  PROVE  NodeIssues(nodes) = {} <=>
           \E r \in 1..Len(nodes) :
             /\ Rooted(nodes, r)
             /\ ~Walk(Ids(nodes), Parents(nodes), {nodes[r].id}).cyclic
             /\ ~Deeper(Walk(Ids(nodes), Parents(nodes), {nodes[r].id}), MaxHierarchyDepth)
<1> DEFINE m == Len(nodes)
           ids == Ids(nodes)
           parents == Parents(nodes)
           globals == {i \in DOMAIN nodes : nodes[i].type = "global"}
           tops == {id \in ids : TypeIn(nodes, id) = "global"}
           walk(top) == Walk(ids, parents, top)
           Calm(top) == ~walk(top).cyclic /\ ~Deeper(walk(top), MaxHierarchyDepth)
           Typed == /\ \A n \in DOMAIN parents : parents[n] \in ids
                    /\ \A n \in DOMAIN parents :
                         parents[n] \in ids =>
                           TypeIn(nodes, n) \in AllowedChildren[TypeIn(nodes, parents[n])]
<1>1. /\ m \in Nat /\ DOMAIN nodes = 1..m /\ IsFiniteSet(1..m)
      /\ ids = {nodes[i].id : i \in 1..m}
  BY Listed
<1>2. NodeIssues(nodes) = {} <=>
        /\ ~Repeated(Column(nodes)) /\ Cardinality(globals) = 1
        /\ \A i \in globals : nodes[i].parent = None
        /\ \A i \in DOMAIN nodes \ globals : nodes[i].parent # None
        /\ Typed /\ Calm(tops)
  BY NoNodeIssues
<1> HIDE DEF Calm, walk
<1>3. \A r : Rooted(nodes, r) => tops = {nodes[r].id}
  BY RootedShape
<1>4. ASSUME ~Repeated(Column(nodes))
      PROVE  /\ DOMAIN parents = {nodes[i].id : i \in Lower(nodes)}
             /\ \A i \in Lower(nodes) : parents[nodes[i].id] = nodes[i].parent
             /\ \A i \in 1..m : /\ TypeIn(nodes, nodes[i].id) = nodes[i].type
                                /\ Entry(nodes, nodes[i].id) = nodes[i]
  <2>1. /\ DOMAIN parents = {nodes[i].id : i \in Lower(nodes)}
        /\ \A i \in Lower(nodes) : parents[nodes[i].id] = nodes[i].parent
    <3>1. /\ DOMAIN parents = {nodes[i].id : i \in Lower(nodes)}
          /\ \A i \in Lower(nodes) : parents[nodes[i].id] = nodes[i].parent
          /\ \A i \in 1..m : Under(nodes, nodes[i].id) = {nodes[i].parent} \cap ids
      BY <1>4, ParentOfNode
    <3> QED
      BY <3>1
  <2>2. \A i \in 1..m : TypeIn(nodes, nodes[i].id) = nodes[i].type
    BY <1>4, TypeOfNode
  <2>3. \A i \in 1..m : Entry(nodes, nodes[i].id) = nodes[i]
    BY <1>4, ListedOnce
  <2> HIDE DEF parents, m
  <2> QED
    BY <2>1, <2>2, <2>3
<1>5. ASSUME NodeIssues(nodes) = {}
      PROVE  \E r \in 1..m : Rooted(nodes, r) /\ Calm({nodes[r].id})
  <2>0. /\ ~Repeated(Column(nodes)) /\ Cardinality(globals) = 1
        /\ \A i \in globals : nodes[i].parent = None
        /\ \A i \in DOMAIN nodes \ globals : nodes[i].parent # None
        /\ Typed /\ Calm(tops)
    BY <1>2, <1>5
  <2>1. globals \in SUBSET (1..m)
    BY <1>1
  <2>2. IsFiniteSet(globals)
    <3> HIDE DEF globals, m
    <3> QED
      BY <1>1, <2>1, FS_Subset
  <2>3. PICK r : globals = {r}
    <3> HIDE DEF globals
    <3> QED
      BY <2>0, <2>2, FS_Singleton
  <2>4. r \in 1..m /\ nodes[r].type = "global" /\ nodes[r].parent = None
    <3>1. r \in globals
      BY <2>3
    <3> QED
      BY <1>1, <2>0, <3>1
  <2>5. (1..m) \ {r} = Lower(nodes)
    BY <1>1, <2>0, <2>3, <2>4 DEF Lower
  <2>6. ASSUME NEW i \in (1..m) \ {r}
        PROVE  /\ nodes[i].type # "global" /\ nodes[i].parent \in ids
               /\ nodes[i].type \in AllowedChildren[Entry(nodes, nodes[i].parent).type]
    <3> DEFINE n == nodes[i].id
    <3>1. n \in DOMAIN parents /\ parents[n] = nodes[i].parent /\ i \in Lower(nodes)
      BY <1>4, <2>0, <2>5
    <3>2. parents[n] \in ids
          /\ TypeIn(nodes, n) \in AllowedChildren[TypeIn(nodes, parents[n])]
      BY <2>0, <3>1
    <3>3. PICK k \in 1..m : parents[n] = nodes[k].id
      BY <1>1, <3>2
    <3>4. TypeIn(nodes, n) = nodes[i].type /\ TypeIn(nodes, parents[n]) = nodes[k].type
          /\ Entry(nodes, parents[n]) = nodes[k]
      BY <1>4, <2>0, <3>3
    <3>5. nodes[i].type # "global"
      BY <3>1 DEF Lower
    <3> HIDE DEF parents, ids, n
    <3> QED
      BY <3>1, <3>2, <3>4, <3>5
  <2>7. Rooted(nodes, r)
    BY <2>0, <2>4, <2>6 DEF Rooted
  <2>8. Calm({nodes[r].id})
    <3> HIDE DEF tops
    <3> QED
      BY <1>3, <2>0, <2>7
  <2> QED
    BY <2>4, <2>7, <2>8
<1>6. ASSUME NEW r \in 1..m, Rooted(nodes, r), Calm({nodes[r].id})
      PROVE  NodeIssues(nodes) = {}
  <2>1. /\ ~Repeated(Column(nodes)) /\ nodes[r].type = "global" /\ nodes[r].parent = None
        /\ \A i \in (1..m) \ {r} :
             /\ nodes[i].type # "global" /\ nodes[i].parent \in ids
             /\ nodes[i].type \in AllowedChildren[Entry(nodes, nodes[i].parent).type]
    BY <1>6 DEF Rooted
  <2>2. globals = {r}
    BY <1>1, <2>1
  <2>3. Cardinality(globals) = 1
    BY <2>2, FS_Singleton
  <2>4. None \notin ids
    <3>1. \A n \in NodeRecord : n.id \in Nat
      BY DEF NodeRecord
    <3> QED
      BY <1>1, <3>1, Listed, NoneAssumption
  <2>5. \A i \in DOMAIN nodes \ globals : nodes[i].parent # None
    BY <1>1, <2>1, <2>2, <2>4
  <2>6. ASSUME NEW n \in DOMAIN parents
        PROVE  /\ parents[n] \in ids
               /\ TypeIn(nodes, n) \in AllowedChildren[TypeIn(nodes, parents[n])]
    <3>1. PICK i \in Lower(nodes) : n = nodes[i].id
      BY <1>4, <2>1
    <3>2. i \in (1..m) \ {r} /\ parents[n] = nodes[i].parent
      BY <1>4, <2>1, <3>1 DEF Lower
    <3>3. PICK k \in 1..m : nodes[i].parent = nodes[k].id
      BY <1>1, <2>1, <3>2
    <3>4. TypeIn(nodes, n) = nodes[i].type /\ TypeIn(nodes, parents[n]) = nodes[k].type
          /\ Entry(nodes, nodes[i].parent) = nodes[k]
      BY <1>4, <2>1, <3>1, <3>2, <3>3
    <3> HIDE DEF parents, ids
    <3> QED
      BY <2>1, <3>2, <3>4
  <2>7. Calm(tops)
    <3> HIDE DEF tops
    <3> QED
      BY <1>3, <1>6
  <2> HIDE DEF tops
  <2>8. \A i \in globals : nodes[i].parent = None
    BY <2>1, <2>2
  <2> HIDE DEF globals, ids, parents
  <2>9. Typed
    BY <2>6
  <2> HIDE DEF Typed
  <2> QED
    BY <1>2, <2>1, <2>3, <2>5, <2>7, <2>8, <2>9
<1> QED
  BY <1>5, <1>6 DEF Calm, walk

-----------------------------------------------------------------------------
(* The zones.                                                               *)

Ascents(ids) == [end : {"none", "found", "ended"}, at : ids, visited : SUBSET ids]

\* Where the search is, it got to by going up.
Ascending(nodes, node, ancestor, s) ==
  /\ s \in Ascents(Ids(nodes))
  /\ s.at = node \/ s.at \in Above(nodes, node)
  /\ s.end = "found" => s.at = ancestor

\* A turn of is_descendant (allocator.py:403-409) goes to the parent or ends.
LEMMA OnwardAscends ==
  ASSUME NEW nodes, NEW root, Shape(nodes, root), NEW ancestor, NEW s \in Ascents(Ids(nodes))
  PROVE  /\ Onward(Parents(nodes), ancestor, s) \in Ascents(Ids(nodes))
         /\ \A node \in Ids(nodes) :
              Ascending(nodes, node, ancestor, s)
                => Ascending(nodes, node, ancestor, Onward(Parents(nodes), ancestor, s))
<1> DEFINE ids == Ids(nodes)
           parents == Parents(nodes)
           n == s.at
           u == Onward(parents, ancestor, s)
<1>1. /\ n \in ids /\ s.visited \in SUBSET ids /\ s.end \in {"none", "found", "ended"}
      /\ s = [end |-> s.end, at |-> n, visited |-> s.visited]
  BY DEF Ascents
<1>2. n \in DOMAIN parents => parents[n] \in ids /\ Under(nodes, n) = {parents[n]}
  BY <1>1 DEF Shape
<1>3. CASE s.end # "none"
  BY <1>3 DEF Onward
<1>4. CASE s.end = "none" /\ n = ancestor
  <2>1. u = [s EXCEPT !.end = "found"]
    BY <1>4 DEF Onward
  <2> HIDE DEF u
  <2>2. u = [end |-> "found", at |-> n, visited |-> s.visited]
    BY <1>1, <2>1
  <2>3. u \in Ascents(ids) /\ u.at = n
    BY <1>1, <2>2 DEF Ascents
  <2> QED
    BY <1>4, <2>3 DEF Ascending, u
<1>5. CASE s.end = "none" /\ n # ancestor /\ (n \in s.visited \/ n \notin DOMAIN parents)
  <2>1. u = [s EXCEPT !.end = "ended"]
    BY <1>5 DEF Onward
  <2> HIDE DEF u
  <2>2. u = [end |-> "ended", at |-> n, visited |-> s.visited]
    BY <1>1, <2>1
  <2>3. u \in Ascents(ids) /\ u.at = n /\ u.end = "ended"
    BY <1>1, <2>2 DEF Ascents
  <2> QED
    BY <1>5, <2>3 DEF Ascending, u
<1>6. CASE s.end = "none" /\ n # ancestor /\ n \notin s.visited /\ n \in DOMAIN parents
  <2> DEFINE p == parents[n]
             more == s.visited \cup {n}
  <2>1. u = [s EXCEPT !.at = p, !.visited = more]
    BY <1>6 DEF Onward
  <2>2. p \in ids /\ Under(nodes, n) = {p} /\ more \in SUBSET ids
    BY <1>1, <1>2, <1>6
  <2> HIDE DEF u, p, more, n
  <2>3. u = [end |-> "none", at |-> p, visited |-> more]
    BY <1>1, <1>6, <2>1
  <2>4. u \in Ascents(ids) /\ u.at = p /\ u.end = "none"
    BY <2>2, <2>3 DEF Ascents
  <2>5. \A node : n = node \/ n \in Above(nodes, node) => p \in Above(nodes, node)
    BY <2>2, AboveCloses
  <2> QED
    BY <2>4, <2>5 DEF Ascending, u, n
<1> QED
  BY <1>1, <1>3, <1>4, <1>5, <1>6

\* is_descendant only says yes of a node that is above, or of the node itself.
LEMMA DescendsMeansAbove ==
  ASSUME NEW nodes, NEW root, Shape(nodes, root), NEW node \in Ids(nodes), NEW ancestor,
         DescendsFrom(Parents(nodes), node, ancestor)
  PROVE  node = ancestor \/ ancestor \in Above(nodes, node)
<1> DEFINE ids == Ids(nodes)
           parents == Parents(nodes)
           V == Ascents(ids)
           base == [end |-> "none", at |-> node, visited |-> {}]
           step == [s \in V |-> Onward(parents, ancestor, s)]
           after == CHOOSE f : f = [turns \in Nat |->
                      IF turns = 0 THEN base ELSE Onward(parents, ancestor, f[turns - 1])]
           last == Cardinality(DOMAIN parents) + 1
<1>1. base \in V /\ Ascending(nodes, node, ancestor, base)
  <2>1. base \in V /\ base.at = node /\ base.end = "none"
    BY DEF Ascents
  <2> HIDE DEF base
  <2> QED
    BY <2>1 DEF Ascending
<1>2. step \in [V -> V]
  <2>1. \A s \in V : Onward(parents, ancestor, s) \in V
    BY OnwardAscends
  <2> HIDE DEF V
  <2> QED
    BY <2>1
<1>3. PICK f : Sequel(V, base, step, f)
  <2> HIDE DEF V, base, step
  <2> QED
    BY <1>1, <1>2, NatRecursion
<1>4. \A n \in Nat : n # 0 => n - 1 \in Nat /\ n - 1 + 1 = n
  OBVIOUS
<1>5. \A n \in Nat : f[n] = IF n = 0 THEN base ELSE Onward(parents, ancestor, f[n - 1])
  <2> TAKE n \in Nat
  <2> HIDE DEF V, base
  <2>1. CASE n = 0
    BY <1>3, <2>1 DEF Sequel
  <2>2. CASE n # 0
    BY <1>3, <1>4, <2>2 DEF Sequel
  <2> QED
    BY <2>1, <2>2
<1>6. f = [turns \in Nat |-> IF turns = 0 THEN base ELSE Onward(parents, ancestor, f[turns - 1])]
  <2> HIDE DEF V, base
  <2> QED
    BY <1>3, <1>5 DEF Sequel
<1>7. after = [turns \in Nat |-> IF turns = 0 THEN base ELSE Onward(parents, ancestor, after[turns - 1])]
  <2> HIDE DEF base
  <2> QED
    BY <1>6
<1>8. after[last].end = "found"
  BY DEF DescendsFrom
<1>9. last \in Nat
  <2>1. DOMAIN parents \in SUBSET ids /\ IsFiniteSet(ids)
    BY DEF Shape
  <2> HIDE DEF parents, ids
  <2>2. Cardinality(DOMAIN parents) \in Nat
    BY <2>1, FS_Subset, FS_CardinalityType
  <2> QED
    BY <2>2
<1> HIDE DEF base, step, after, last
<1>10. after[0] = base /\ \A n \in Nat : after[n + 1] = Onward(parents, ancestor, after[n])
  <2>1. \A n \in Nat : n + 1 \in Nat /\ n + 1 # 0 /\ n + 1 - 1 = n
    OBVIOUS
  <2> QED
    BY <1>7, <2>1
<1> DEFINE T == {n \in Nat : Ascending(nodes, node, ancestor, after[n])}
<1>11. 0 \in T
  BY <1>1, <1>10
<1>12. ASSUME NEW n \in Nat, n \in T
       PROVE  n + 1 \in T
  <2>1. Ascending(nodes, node, ancestor, after[n]) /\ after[n] \in V
    BY <1>12 DEF Ascending
  <2>2. Ascending(nodes, node, ancestor, Onward(parents, ancestor, after[n]))
    BY <2>1, OnwardAscends
  <2> QED
    BY <1>10, <2>2
<1> HIDE DEF T
<1>13. Nat \subseteq T
  BY <1>11, <1>12, SetInduction
<1>14. Ascending(nodes, node, ancestor, after[last])
  BY <1>9, <1>13 DEF T
<1> QED
  BY <1>8, <1>14 DEF Ascending

\* Zones that the allocator accepts lie inside their sites (allocator.py:399-447).
LEMMA AcceptedInside ==
  ASSUME NEW campus \in Campus, NEW used, NEW networks, CampusAccepted(campus, used, networks)
  PROVE  ZonesInside(campus)
<1>1. campus.nodes \in Seq(NodeRecord)
  BY DEF Campus
<1>2. NodesAccepted(campus.nodes) /\ ZonesAccepted(campus, networks)
  BY DEF CampusAccepted
<1>3. PICK r \in 1..Len(campus.nodes) : Rooted(campus.nodes, r)
  BY <1>1, <1>2, AcceptedRooted
<1>4. Shape(campus.nodes, campus.nodes[r].id)
  BY <1>1, <1>3, RootedShape
<1>5. \A z \in ToSet(campus.zones) :
        /\ z.node \in Ids(campus.nodes)
        /\ DescendsFrom(Parents(campus.nodes), z.node, Entry(campus.sites, z.site).node)
  BY <1>2 DEF ZonesAccepted
<1> QED
  BY <1>4, <1>5, DescendsMeansAbove DEF ZonesInside

\* Zones that raise no issue lie inside their sites (intent.py:806-863).
LEMMA IssuesInside ==
  ASSUME NEW campus \in Campus, NEW used, NEW networks, CampusIssues(campus, used, networks) = {}
  PROVE  ZonesInside(campus)
<1> DEFINE sites == campus.sites
           place(id) == sites[SelectLastInSeq(sites, LAMBDA s : s.id = id)].node
<1>1. campus.nodes \in Seq(NodeRecord) /\ sites \in Seq(SiteRecord)
  BY DEF Campus
<1>2. NodeIssues(campus.nodes) = {} /\ SiteIssues(campus) = {} /\ ZoneIssues(campus, networks) = {}
  BY DEF CampusIssues
<1>3. PICK r \in 1..Len(campus.nodes) : Rooted(campus.nodes, r)
  BY <1>1, <1>2, IssuesRooted
<1>4. Shape(campus.nodes, campus.nodes[r].id)
  BY <1>1, <1>3, RootedShape
<1>5. ~Repeated(Column(sites))
  <2>1. Raise(Repeated(Column(sites)), "duplicate fabric site id") = {}
    BY <1>2 DEF SiteIssues
  <2> QED
    BY <2>1, RaisesNothing
<1> DEFINE E1 == \E z \in ToSet(campus.zones) : z.site \notin Ids(sites)
           E2 == \E z \in ToSet(campus.zones) : z.node \notin Ids(campus.nodes)
           E3 == \E z \in ToSet(campus.zones) :
                   /\ z.site \in Ids(sites) /\ z.node \in Ids(campus.nodes)
                   /\ ~DescendsFrom(Parents(campus.nodes), z.node, place(z.site))
<1>6. /\ Raise(E1, "reference.fabric_site") = {} /\ Raise(E2, "reference.hierarchy_node") = {}
      /\ Raise(E3, "zone.outside_site") = {}
  BY <1>2 DEF ZoneIssues
<1> HIDE DEF E1, E2, E3
<1>7. ~E1 /\ ~E2 /\ ~E3
  BY <1>6, RaisesNothing
<1> HIDE DEF place
<1>8. ASSUME NEW z \in ToSet(campus.zones)
      PROVE  /\ z.site \in Ids(sites) /\ z.node \in Ids(campus.nodes)
             /\ DescendsFrom(Parents(campus.nodes), z.node, place(z.site))
  BY <1>7 DEF E1, E2, E3
<1>9. \A id \in Ids(sites) : place(id) = Entry(sites, id).node
  <2> TAKE id \in Ids(sites)
  <2>1. PICK i \in 1..Len(sites) : id = sites[i].id
    BY <1>1, Listed
  <2> DEFINE I == {k \in 1..Len(sites) : sites[k].id = id}
  <2>2. I = {i} /\ Entry(sites, id) = sites[i]
    BY <1>1, <1>5, <2>1, ListedOnce
  <2>3. Max(I) = i /\ I # {}
    <3>1. i \in Nat
      BY <1>1, Listed
    <3> HIDE DEF I
    <3> QED
      BY <2>2, <3>1, MaxOfOne
  <2>4. SelectLastInSeq(sites, LAMBDA s : s.id = id) = i
    BY <2>3 DEF SelectLastInSeq
  <2>5. place(id) = sites[i].node
    BY <2>4 DEF place
  <2> QED
    BY <2>2, <2>5
<1> HIDE DEF sites
<1>10. ASSUME NEW z \in ToSet(campus.zones)
       PROVE  z.node = Entry(campus.sites, z.site).node
              \/ Entry(campus.sites, z.site).node \in Above(campus.nodes, z.node)
  <2>1. z.node = place(z.site) \/ place(z.site) \in Above(campus.nodes, z.node)
    BY <1>4, <1>8, DescendsMeansAbove
  <2> QED
    BY <1>8, <1>9, <2>1 DEF sites
<1> QED
  BY <1>10 DEF ZonesInside

-----------------------------------------------------------------------------
\* Both walks accept the hierarchies within their limits, and nothing else.
LEMMA ChecksAgree ==
  ASSUME NEW nodes \in Seq(NodeRecord)
  PROVE  /\ (NodesAccepted(nodes) /\ DepthsAccepted(nodes)) <=> IsHierarchy(nodes, MaxDepth)
         /\ NodeIssues(nodes) = {} <=> IsHierarchy(nodes, MaxHierarchyDepth)
<1> DEFINE walk(id) == Walk(Ids(nodes), Parents(nodes), {id})
           Calm(id, limit) == ~walk(id).cyclic /\ ~Deeper(walk(id), limit)
           High(id, limit) == \A n \in Ids(nodes) \ {id} :
                                id \in Above(nodes, n) /\ Cardinality(Above(nodes, n)) <= limit
<1>1. MaxDepth \in Nat /\ MaxHierarchyDepth \in Nat
  BY DepthAssumption
<1>2. \A r : \A limit \in Nat : Rooted(nodes, r) => (Calm(nodes[r].id, limit) <=> High(nodes[r].id, limit))
  BY RootedShape, WalkAccepts
<1>3. \A limit : IsHierarchy(nodes, limit) <=>
        \E r \in 1..Len(nodes) : Rooted(nodes, r) /\ High(nodes[r].id, limit)
  BY HierarchyRooted
<1>4. NodeIssues(nodes) = {} <=>
        \E r \in 1..Len(nodes) : Rooted(nodes, r) /\ Calm(nodes[r].id, MaxHierarchyDepth)
  BY IssuesRooted
<1>5. NodesAccepted(nodes) <=> \E r \in 1..Len(nodes) : Rooted(nodes, r)
  BY AcceptedRooted
<1>6. \A r : Rooted(nodes, r) => (DepthsAccepted(nodes) <=> Calm(nodes[r].id, MaxDepth))
  <2>1. \A r : Rooted(nodes, r) => {n.id : n \in Globals(nodes)} = {nodes[r].id}
    BY RootedShape
  <2> QED
    BY <2>1 DEF DepthsAccepted
<1> HIDE DEF Calm, High, walk
<1> QED
  BY <1>1, <1>2, <1>3, <1>4, <1>5, <1>6

\* What HierarchyMatchesTree says, of every campus.
LEMMA CampusChecked ==
  ASSUME NEW campus \in Campus
  PROVE  /\ (NodesAccepted(campus.nodes) /\ DepthsAccepted(campus.nodes))
              <=> IsHierarchy(campus.nodes, MaxDepth)
         /\ NodeIssues(campus.nodes) = {} <=> IsHierarchy(campus.nodes, MaxHierarchyDepth)
         /\ CampusAccepted(campus, campus.used, campus.networks) => ZonesInside(campus)
         /\ CampusIssues(campus, campus.used, campus.networks) = {} => ZonesInside(campus)
<1>1. campus.nodes \in Seq(NodeRecord)
  BY DEF Campus
<1> QED
  BY <1>1, ChecksAgree, AcceptedInside, IssuesInside

-----------------------------------------------------------------------------
(* Requirements, and the lists and numbers of a design.                     *)

\* A record of requirements has its fields of their types.
LEMMA RequirementTyped ==
  ASSUME NEW req \in Requirement
  PROVE  /\ req.schema \in {"1.1", "1.2"} /\ req.mode \in {"lisp_bgp", "lisp_pubsub"}
         /\ req.campus.nodes \in Seq(NodeRecord) /\ req.campus.sites \in Seq(SiteRecord)
         /\ req.campus.zones \in Seq(ZoneRecord)
         /\ req.campus.model \in {"single_site", "distributed_campus"}
         /\ req.devices \in Seq(DeviceRecord) /\ req.fusion \in Seq(FusionRecord)
         /\ req.links \in Seq(LinkRecord) /\ req.networks \in Seq(NetworkRecord)
         /\ req.networks # <<>> /\ req.attachments \in Seq(AttachmentRecord)
         /\ req.schema = "1.2" <=> req.services # None
         /\ req.schema = "1.2" <=> req.policy # None
         /\ req.schema = "1.2" => req.services \in SharedRecord
         /\ req.schema = "1.2" => req.policy \in PolicyRecord
         /\ req.handoff \in HandoffRecord
BY DEF Requirement

\* What no two of are the same, of numbers in a sequence.
LEMMA Distinct ==
  ASSUME NEW n \in Nat, NEW s, DOMAIN s = 1..n
  PROVE  ~Repeated(s) <=> \A i, j \in 1..n : s[i] = s[j] => i = j
BY DEF Repeated

\* One sequence after the other.
LEMMA Concat ==
  ASSUME NEW A, NEW B, NEW s \in Seq(A), NEW t \in Seq(B), NEW u, u = s \o t
  PROVE  /\ Len(s) \in Nat /\ Len(t) \in Nat /\ Len(u) = Len(s) + Len(t)
         /\ DOMAIN u = 1..(Len(s) + Len(t)) /\ u \in Seq(A \cup B)
         /\ \A i \in 1..(Len(s) + Len(t)) :
              u[i] = IF i <= Len(s) THEN s[i] ELSE t[i - Len(s)]
<1>1. s \in Seq(A \cup B) /\ t \in Seq(A \cup B)
  OBVIOUS
<1> QED
  BY <1>1

\* Two sequences without repetition that have nothing in common.
LEMMA DistinctConcat ==
  ASSUME NEW A, NEW B, NEW s \in Seq(A), NEW t \in Seq(B),
         ~Repeated(s), ~Repeated(t), A \cap B = {}
  PROVE  ~Repeated(s \o t) /\ s \o t \in Seq(A \cup B)
<1> DEFINE u == s \o t
           n == Len(s)
           m == Len(t)
<1>0. u = s \o t
  OBVIOUS
<1>1. /\ n \in Nat /\ m \in Nat /\ DOMAIN s = 1..n /\ DOMAIN t = 1..m
      /\ \A i \in 1..n : s[i] \in A
      /\ \A i \in 1..m : t[i] \in B
  OBVIOUS
<1>2. u \in Seq(A \cup B) /\ DOMAIN u = 1..(n + m)
  <2> HIDE DEF u
  <2> QED
    BY <1>0, Concat
<1>3. \A i \in 1..(n + m) : u[i] = IF i <= n THEN s[i] ELSE t[i - n]
  <2> HIDE DEF u
  <2> QED
    BY <1>0, Concat
<1>4. /\ \A i, j \in 1..n : s[i] = s[j] => i = j
      /\ \A i, j \in 1..m : t[i] = t[j] => i = j
  BY <1>1, Distinct
<1> HIDE DEF u, n, m
<1>5. \A i \in 1..(n + m) : (i <= n => i \in 1..n) /\ (~(i <= n) => i - n \in 1..m)
  BY <1>1
<1>6. ASSUME NEW i \in 1..(n + m), NEW j \in 1..(n + m), u[i] = u[j]
      PROVE  i = j
  <2>1. CASE i <= n /\ j <= n
    BY <1>3, <1>4, <1>5, <1>6, <2>1
  <2>2. CASE ~(i <= n) /\ ~(j <= n)
    <3>1. i - n = j - n
      BY <1>3, <1>4, <1>5, <1>6, <2>2
    <3> QED
      BY <1>1, <3>1
  <2>3. CASE i <= n /\ ~(j <= n)
    BY <1>1, <1>3, <1>5, <1>6, <2>3
  <2>4. CASE ~(i <= n) /\ j <= n
    BY <1>1, <1>3, <1>5, <1>6, <2>4
  <2> QED
    BY <2>1, <2>2, <2>3, <2>4
<1>7. ~Repeated(u)
  BY <1>1, <1>2, <1>6, Distinct
<1> QED
  BY <1>2, <1>7 DEF u

\* The free sets of the counters.
LEMMA FreeSets ==
  \A free \in {VlanFree, SharedVlanFree, HandoffVlanFree, SgtFree, GroupFree} :
    \A S \in SUBSET free : S \subseteq Nat /\ IsFiniteSet(S) /\ Cardinality(S) \in Nat
BY FreeAssumption, FS_Subset, FS_CardinalityType

\* First fit gives out numbers that are free, and none twice.
LEMMA FirstFits ==
  ASSUME NEW S, S \subseteq Nat, IsFiniteSet(S)
  PROVE  /\ Cardinality(S) \in Nat
         /\ \A i \in 1..Cardinality(S) : FirstFit(S, i) \in S
         /\ \A i, j \in 1..Cardinality(S) : FirstFit(S, i) = FirstFit(S, j) => i = j
         /\ S # {} => 1 \in 1..Cardinality(S)
<1>1. Ranked(S) \in Seq(S) /\ Cardinality(S) \in Nat /\ Len(Ranked(S)) = Cardinality(S)
      /\ \A i, j \in 1..Cardinality(S) : Ranked(S)[i] = Ranked(S)[j] => i = j
  BY RankedAll
<1>2. \A i \in 1..Cardinality(S) : Ranked(S)[i] \in S
  BY <1>1
<1>3. S # {} => Cardinality(S) # 0
  BY FS_EmptySet
<1> QED
  BY <1>1, <1>2, <1>3 DEF FirstFit

\* Of a list that names its entries, the one a name is of.
LEMMA EntryListed ==
  ASSUME NEW R, NEW list \in Seq(R), ~Repeated(Column(list)), NEW id \in Ids(list)
  PROVE  \E i \in 1..Len(list) : list[i].id = id /\ Entry(list, id) = list[i]
BY Listed, ListedOnce

\* A sequence that is written down place by place.
LEMMA Written ==
  ASSUME NEW n \in Nat, NEW V, NEW s \in [1..n -> V]
  PROVE  /\ DOMAIN s = 1..n /\ Len(s) = n /\ s \in Seq(ToSet(s)) /\ s \in Seq(V)
         /\ \A i \in 1..n : s[i] \in V /\ s[i] \in ToSet(s)
<1>1. DOMAIN s = 1..n /\ s = [i \in 1..n |-> s[i]]
  OBVIOUS
<1>2. \A i \in 1..n : s[i] \in ToSet(s)
  BY <1>1 DEF ToSet
<1>3. s \in Seq(ToSet(s)) /\ Len(s) = n
  BY <1>1, <1>2
<1>4. s \in Seq(V)
  OBVIOUS
<1> QED
  BY <1>1, <1>2, <1>3, <1>4

\* Nothing is raised when no condition holds.
LEMMA UnionEmpty == \A S : UNION S = {} <=> \A s \in S : s = {}
OBVIOUS

\* Whether a value repeats depends on the values alone.
LEMMA SameRepeated ==
  ASSUME NEW s, NEW t, DOMAIN s = DOMAIN t, \A i \in DOMAIN s : s[i] = t[i]
  PROVE  (Repeated(s) <=> Repeated(t)) /\ (GivenTwice(s) <=> GivenTwice(t))
BY DEF Repeated, GivenTwice

-----------------------------------------------------------------------------
(* The devices of an intent.                                                *)

\* _derive_devices: every device, in its place, with an address of its own.
LEMMA DevicesDerived ==
  ASSUME NEW req \in Requirement
  PROVE  LET list == DeriveDevices(req)
             n == Len(req.devices)
         IN  /\ n \in Nat /\ DOMAIN list = 1..n /\ Len(list) = n
             /\ \A i \in 1..n :
                  /\ req.devices[i] \in DeviceRecord
                  /\ list[i].id = req.devices[i].id
                  /\ list[i].hostname = Upper[NameOf(req.devices[i])]
                  /\ list[i].site = req.devices[i].site
                  /\ list[i].roles = req.devices[i].roles
                  /\ list[i].mgmt = req.devices[i].mgmt
                  /\ list[i].dashboard = req.devices[i].dashboard
                  /\ list[i].loopback = <<"loopbacks", i>>
             /\ Column(list) = Column(req.devices)
             /\ Ids(list) = Ids(req.devices)
             /\ ToSet(list) = {list[i] : i \in 1..n}
             /\ list \in Seq(ToSet(list))
<1> DEFINE old == req.devices
           n == Len(old)
           list == DeriveDevices(req)
           V == {list[i] : i \in 1..n}
           made == [i \in 1..n |->
             [id |-> old[i].id,
              hostname |-> Upper[NameOf(old[i])],
              site |-> old[i].site, roles |-> old[i].roles, mgmt |-> old[i].mgmt,
              dashboard |-> old[i].dashboard, loopback |-> <<"loopbacks", i>>]]
<1>1. /\ n \in Nat /\ DOMAIN old = 1..n /\ \A i \in 1..n : old[i] \in DeviceRecord
  BY RequirementTyped
<1>2. list = made
  BY <1>1 DEF DeriveDevices
<1>3. list \in [1..n -> V]
  <2>1. made = [i \in 1..n |-> made[i]]
    OBVIOUS
  <2> HIDE DEF made, list
  <2> QED
    BY <1>2, <2>1
<1>4. \A i \in 1..n :
        /\ made[i].id = old[i].id
        /\ made[i].hostname = Upper[NameOf(old[i])]
        /\ made[i].site = old[i].site /\ made[i].roles = old[i].roles
        /\ made[i].mgmt = old[i].mgmt /\ made[i].dashboard = old[i].dashboard
        /\ made[i].loopback = <<"loopbacks", i>>
  <2> HIDE DEF n
  <2> QED
    OBVIOUS
<1> HIDE DEF list, made, n, V
<1>5. DOMAIN list = 1..n /\ Len(list) = n /\ list \in Seq(ToSet(list))
  BY <1>1, <1>3, Written
<1>6. Column(list) = Column(old) /\ Ids(list) = Ids(old)
  BY <1>1, <1>2, <1>4, <1>5 DEF Column, Ids
<1>7. ToSet(list) = {list[i] : i \in 1..n}
  BY <1>5 DEF ToSet
<1> QED
  BY <1>1, <1>2, <1>4, <1>5, <1>6, <1>7 DEF list, n

\* The same of the fusion nodes.
LEMMA FusionDerived ==
  ASSUME NEW req \in Requirement
  PROVE  LET list == DeriveFusion(req)
             n == Len(req.fusion)
         IN  /\ n \in Nat /\ DOMAIN list = 1..n /\ Len(list) = n
             /\ \A i \in 1..n :
                  /\ req.fusion[i] \in FusionRecord
                  /\ list[i].id = req.fusion[i].id
                  /\ list[i].hostname = Upper[req.fusion[i].name]
                  /\ list[i].mgmt = req.fusion[i].mgmt
                  /\ list[i].dashboard = req.fusion[i].dashboard
                  /\ list[i].asn = req.fusion[i].asn
             /\ Column(list) = Column(req.fusion)
             /\ Ids(list) = Ids(req.fusion)
             /\ ToSet(list) = {list[i] : i \in 1..n}
             /\ list \in Seq(ToSet(list))
<1> DEFINE old == req.fusion
           n == Len(old)
           list == DeriveFusion(req)
           V == {list[i] : i \in 1..n}
           made == [i \in 1..n |->
             [id |-> old[i].id, hostname |-> Upper[old[i].name], mgmt |-> old[i].mgmt,
              dashboard |-> old[i].dashboard, asn |-> old[i].asn]]
<1>1. /\ n \in Nat /\ DOMAIN old = 1..n /\ \A i \in 1..n : old[i] \in FusionRecord
  BY RequirementTyped
<1>2. list = made
  BY <1>1 DEF DeriveFusion
<1>3. list \in [1..n -> V]
  <2>1. made = [i \in 1..n |-> made[i]]
    OBVIOUS
  <2> HIDE DEF made, list
  <2> QED
    BY <1>2, <2>1
<1>4. \A i \in 1..n : /\ made[i].id = old[i].id /\ made[i].hostname = Upper[old[i].name]
                      /\ made[i].mgmt = old[i].mgmt /\ made[i].asn = old[i].asn
                      /\ made[i].dashboard = old[i].dashboard
  <2> HIDE DEF n
  <2> QED
    OBVIOUS
<1> HIDE DEF list, made, n, V
<1>5. DOMAIN list = 1..n /\ Len(list) = n /\ list \in Seq(ToSet(list))
  BY <1>1, <1>3, Written
<1>6. Column(list) = Column(old) /\ Ids(list) = Ids(old)
  BY <1>1, <1>2, <1>4, <1>5 DEF Column, Ids
<1>7. ToSet(list) = {list[i] : i \in 1..n}
  BY <1>5 DEF ToSet
<1> QED
  BY <1>1, <1>2, <1>4, <1>5, <1>6, <1>7 DEF list, n

\* The fields of an intent that are taken over or derived by themselves.
LEMMA IntentFields ==
  ASSUME NEW req
  PROVE  LET int == DeriveIntent(req)
         IN  /\ int.schema = req.schema /\ int.env = req.env /\ int.mode = req.mode
             /\ int.campus = req.campus /\ int.devices = DeriveDevices(req)
             /\ int.fusion = DeriveFusion(req) /\ int.links = DeriveLinks(req)
             /\ int.networks = [i \in DOMAIN req.networks |->
                                  [id |-> req.networks[i].id, vrf |-> req.networks[i].vrf,
                                   l3 |-> i]]
             /\ int.pools = DerivePools(req) /\ int.attachments = DeriveAttachments(req)
             /\ int.services = IF req.services = None THEN None ELSE DeriveServices(req)
             /\ int.policy = IF req.policy = None THEN None ELSE DerivePolicy(req)
             /\ int.sxp = IF req.policy = None THEN None ELSE DeriveSxp(req)
             /\ int.lisp = DeriveLisp(req)
             /\ int.peers = IF req.handoff.bgp THEN DerivePeers(req) ELSE None
BY DEF DeriveIntent

\* Who has a role, where a device stands: as in the requirements.
LEMMA RolesDerived ==
  ASSUME NEW req \in Requirement, ~Repeated(Column(req.devices))
  PROVE  LET int == DeriveIntent(req)
         IN  /\ \A d, role : HasRole(int, d, role) <=> d \in WithRole(req.devices, role)
             /\ BordersOf(int) = WithRole(req.devices, "border")
             /\ \A role : WithRole(req.devices, role) \subseteq Ids(req.devices)
             /\ \A d \in Ids(req.devices) : SiteOf(int, d) = Entry(req.devices, d).site
             /\ \A role : /\ Count(int, role) = Cardinality(WithRole(req.devices, role))
                          /\ Count(int, role) \in Nat
             /\ IsFiniteSet(Ids(req.devices)) /\ Ids(req.devices) \subseteq Nat
<1> DEFINE int == DeriveIntent(req)
           list == DeriveDevices(req)
           n == Len(req.devices)
           old == req.devices
<1>1. /\ n \in Nat /\ DOMAIN list = 1..n /\ Len(list) = n
      /\ \A i \in 1..n : /\ old[i] \in DeviceRecord /\ list[i].id = old[i].id
                         /\ list[i].site = old[i].site /\ list[i].roles = old[i].roles
      /\ ToSet(list) = {list[i] : i \in 1..n}
      /\ list \in Seq(ToSet(list)) /\ Column(list) = Column(old)
  BY DevicesDerived
<1>2. int.devices = list
  BY IntentFields
<1>3. /\ old \in Seq(DeviceRecord) /\ ToSet(old) = {old[i] : i \in 1..n}
      /\ Ids(old) = {old[i].id : i \in 1..n}
      /\ IsFiniteSet(1..n)
  <2>1. old \in Seq(DeviceRecord)
    BY RequirementTyped
  <2> QED
    BY <2>1, Listed DEF n
<1> HIDE DEF int, list, n
<1>4. \A role : WithRole(old, role) = {old[i].id : i \in {k \in 1..n : role \in old[k].roles}}
  BY <1>3 DEF WithRole
<1>5. \A d, role : HasRole(int, d, role) <=> d \in WithRole(old, role)
  <2> TAKE d, role
  <2>1. HasRole(int, d, role) <=> \E i \in 1..n : list[i].id = d /\ role \in list[i].roles
    BY <1>1, <1>2 DEF HasRole
  <2>2. d \in WithRole(old, role) <=> \E i \in 1..n : old[i].id = d /\ role \in old[i].roles
    BY <1>4
  <2>3. \A i \in 1..n : list[i].id = old[i].id /\ list[i].roles = old[i].roles
    BY <1>1
  <2> QED
    BY <2>1, <2>2, <2>3
<1>6. BordersOf(int) = WithRole(old, "border")
  <2>1. BordersOf(int) = {list[i].id : i \in {k \in 1..n : "border" \in list[k].roles}}
    BY <1>1, <1>2 DEF BordersOf
  <2> QED
    BY <1>1, <1>4, <2>1
<1>7. \A role : WithRole(old, role) \subseteq Ids(old)
  BY <1>3, <1>4
<1>8. ASSUME NEW i \in 1..n
      PROVE  SiteOf(int, old[i].id) = Entry(old, old[i].id).site
  <2> DEFINE id == old[i].id
             I == {k \in 1..n : list[k].id = id}
  <2>1. I = {i}
    <3>1. {k \in 1..n : old[k].id = id} = {i}
      BY <1>3, ListedOnce DEF n
    <3> QED
      BY <1>1, <3>1
  <2>2. Max(I) = i /\ I # {}
    BY <2>1, <1>1, MaxOfOne
  <2>3. SelectLastInSeq(list, LAMBDA x : x.id = id) = i
    BY <1>1, <2>2 DEF SelectLastInSeq
  <2>4. Entry(old, old[i].id) = old[i]
    BY <1>3, ListedOnce DEF n
  <2> QED
    BY <1>1, <1>2, <2>3, <2>4 DEF SiteOf
<1>9. \A d \in Ids(old) : SiteOf(int, d) = Entry(old, d).site
  BY <1>3, <1>8
<1>10. ASSUME NEW role
       PROVE  Count(int, role) = Cardinality(WithRole(old, role)) /\ Count(int, role) \in Nat
  <2> DEFINE I == {k \in 1..n : role \in old[k].roles}
             W == WithRole(old, role)
             h == [k \in I |-> old[k].id]
  <2>1. Count(int, role) = Cardinality(I)
    <3>1. {i \in DOMAIN int.devices : role \in int.devices[i].roles} = I
      BY <1>1, <1>2
    <3> QED
      BY <3>1 DEF Count
  <2>2. IsFiniteSet(I) /\ Cardinality(I) \in Nat
    <3>1. I \in SUBSET (1..n)
      OBVIOUS
    <3> QED
      BY <3>1, <1>3, FS_Subset, FS_CardinalityType
  <2>3. h \in [I -> W] /\ \A w \in W : \E k \in I : h[k] = w
    BY <1>4
  <2>4. \A j, k \in I : h[j] = h[k] => j = k
    BY <1>3, ListedOnce DEF n
  <2>5. h \in Bijection(I, W)
    <3> HIDE DEF h, I, W
    <3> QED
      BY <2>3, <2>4 DEF Bijection, Injection, Surjection, IsInjective
  <2> HIDE DEF h, I, W
  <2>6. Cardinality(I) = Cardinality(W)
    <3>1. IsFiniteSet(I) /\ ExistsBijection(I, W)
      BY <2>2, <2>5 DEF ExistsBijection
    <3> QED
      BY <3>1, FS_Bijection
  <2> QED
    BY <2>1, <2>2, <2>6 DEF W
<1>11. IsFiniteSet(Ids(old)) /\ Ids(old) \subseteq Nat
  <2> DEFINE f == [k \in 1..n |-> old[k].id]
             K == 1..n
             I == {f[k] : k \in K}
  <2>1. Ids(old) = I
    BY <1>3
  <2>2. IsFiniteSet(I)
    <3>1. IsFiniteSet(K)
      BY <1>3
    <3> HIDE DEF f, K
    <3> QED
      BY <3>1, ImageFinite
  <2>3. \A k \in 1..n : old[k].id \in Nat
    BY <1>1 DEF DeviceRecord
  <2> QED
    BY <1>3, <2>1, <2>2, <2>3
<1> QED
  BY <1>5, <1>6, <1>7, <1>9, <1>10, <1>11 DEF int

-----------------------------------------------------------------------------
(* The nodes of an intent: what validation adds to derivation.              *)

\* The names and the addresses of all nodes.
NodeNames(req) ==
  [i \in DOMAIN req.devices |-> Upper[NameOf(req.devices[i])]]
    \o [i \in DOMAIN req.fusion |-> Upper[req.fusion[i].name]]
NodeAddresses(req) ==
  [i \in DOMAIN req.devices |-> req.devices[i].mgmt]
    \o [i \in DOMAIN req.fusion |-> req.fusion[i].mgmt]
NodeDashboards(req) ==
  [i \in DOMAIN req.devices |-> req.devices[i].dashboard]
    \o [i \in DOMAIN req.fusion |-> req.fusion[i].dashboard]

\* One field of the nodes of two lists is that field of each list in turn.
LEMMA FieldsJoined ==
  ASSUME NEW X, NEW s, NEW t, s \in Seq(ToSet(s)), t \in Seq(ToSet(t)),
         DOMAIN X = 1..(Len(s) + Len(t)),
         \A i \in 1..Len(s) : X[i] = s[i], \A i \in 1..Len(t) : X[Len(s) + i] = t[i]
  PROVE  /\ Repeated(X) <=> Repeated(s \o t)
         /\ GivenTwice(X) <=> GivenTwice(s \o t)
<1> DEFINE Y == s \o t
           n == Len(s)
           m == Len(t)
<1>1. /\ n \in Nat /\ m \in Nat /\ DOMAIN Y = 1..(n + m)
      /\ \A i \in 1..(n + m) : Y[i] = IF i <= n THEN s[i] ELSE t[i - n]
  <2>1. Y = s \o t
    OBVIOUS
  <2> HIDE DEF Y
  <2> QED
    BY <2>1, Concat
<1>2. /\ DOMAIN X = 1..(n + m)
      /\ \A i \in 1..n : X[i] = s[i]
      /\ \A i \in 1..m : X[n + i] = t[i]
  OBVIOUS
<1> HIDE DEF Y, n, m
<1>3. ASSUME NEW i \in 1..(n + m)
      PROVE  X[i] = Y[i]
  <2>1. CASE i <= n
    BY <1>1, <1>2, <2>1
  <2>2. CASE ~(i <= n)
    <3>1. i - n \in 1..m /\ n + (i - n) = i
      BY <1>1, <2>2
    <3> QED
      BY <1>1, <1>2, <2>2, <3>1
  <2> QED
    BY <2>1, <2>2
<1>4. (Repeated(X) <=> Repeated(Y)) /\ (GivenTwice(X) <=> GivenTwice(Y))
  BY <1>1, <1>2, <1>3, SameRepeated
<1> QED
  BY <1>4 DEF Y

\* What two of them have in common, two of the requirements had.
LEMMA NodesDerived ==
  ASSUME NEW req \in Requirement
  PROVE  LET nodes == DeriveDevices(req) \o DeriveFusion(req)
         IN  /\ Repeated([i \in DOMAIN nodes |-> nodes[i].hostname]) <=> Repeated(NodeNames(req))
             /\ Repeated([i \in DOMAIN nodes |-> nodes[i].mgmt]) <=> Repeated(NodeAddresses(req))
             /\ GivenTwice([i \in DOMAIN nodes |-> nodes[i].dashboard]) <=>
                  GivenTwice(NodeDashboards(req))
<1> DEFINE a == DeriveDevices(req)
           b == DeriveFusion(req)
           n == Len(req.devices)
           m == Len(req.fusion)
           nodes == a \o b
           A1 == [i \in DOMAIN req.devices |-> Upper[NameOf(req.devices[i])]]
           B1 == [i \in DOMAIN req.fusion |-> Upper[req.fusion[i].name]]
           A2 == [i \in DOMAIN req.devices |-> req.devices[i].mgmt]
           B2 == [i \in DOMAIN req.fusion |-> req.fusion[i].mgmt]
           A3 == [i \in DOMAIN req.devices |-> req.devices[i].dashboard]
           B3 == [i \in DOMAIN req.fusion |-> req.fusion[i].dashboard]
<1>1. /\ n \in Nat /\ Len(a) = n /\ a \in Seq(ToSet(a)) /\ DOMAIN req.devices = 1..n
      /\ \A i \in 1..n : /\ a[i].hostname = A1[i] /\ a[i].mgmt = A2[i]
                         /\ a[i].dashboard = A3[i]
  <2>1. DOMAIN req.devices = 1..n
    BY RequirementTyped
  <2> QED
    BY <2>1, DevicesDerived
<1>2. /\ m \in Nat /\ Len(b) = m /\ b \in Seq(ToSet(b)) /\ DOMAIN req.fusion = 1..m
      /\ \A i \in 1..m : /\ b[i].hostname = B1[i] /\ b[i].mgmt = B2[i]
                         /\ b[i].dashboard = B3[i]
  <2>1. DOMAIN req.fusion = 1..m
    BY RequirementTyped
  <2> QED
    BY <2>1, FusionDerived
<1>3. /\ DOMAIN A1 = 1..n /\ A1 = [i \in 1..n |-> A1[i]]
      /\ DOMAIN A2 = 1..n /\ A2 = [i \in 1..n |-> A2[i]]
      /\ DOMAIN A3 = 1..n /\ A3 = [i \in 1..n |-> A3[i]]
  BY <1>1
<1>4. /\ DOMAIN B1 = 1..m /\ B1 = [i \in 1..m |-> B1[i]]
      /\ DOMAIN B2 = 1..m /\ B2 = [i \in 1..m |-> B2[i]]
      /\ DOMAIN B3 = 1..m /\ B3 = [i \in 1..m |-> B3[i]]
  BY <1>2
<1> HIDE DEF n, m, a, b, A1, B1, A2, B2, A3, B3
<1>5. /\ A1 \in Seq(ToSet(A1)) /\ Len(A1) = n /\ B1 \in Seq(ToSet(B1)) /\ Len(B1) = m
      /\ A2 \in Seq(ToSet(A2)) /\ Len(A2) = n /\ B2 \in Seq(ToSet(B2)) /\ Len(B2) = m
      /\ A3 \in Seq(ToSet(A3)) /\ Len(A3) = n /\ B3 \in Seq(ToSet(B3)) /\ Len(B3) = m
  <2>1. \A f, k : k \in Nat /\ DOMAIN f = 1..k /\ f = [i \in 1..k |-> f[i]] =>
                    f \in Seq(ToSet(f)) /\ Len(f) = k
    <3> SUFFICES ASSUME NEW f, NEW k \in Nat, DOMAIN f = 1..k, f = [i \in 1..k |-> f[i]]
                 PROVE  f \in Seq(ToSet(f)) /\ Len(f) = k
      OBVIOUS
    <3>1. f \in [1..k -> ToSet(f)]
      BY DEF ToSet
    <3> QED
      BY <3>1, Written
  <2> QED
    BY <1>1, <1>2, <1>3, <1>4, <2>1
<1>6. /\ DOMAIN nodes = 1..(n + m)
      /\ \A i \in 1..n : nodes[i] = a[i]
      /\ \A i \in 1..m : nodes[n + i] = b[i]
  <2>1. nodes = a \o b
    OBVIOUS
  <2> HIDE DEF nodes
  <2>2. /\ DOMAIN nodes = 1..(n + m)
        /\ \A i \in 1..(n + m) : nodes[i] = IF i <= n THEN a[i] ELSE b[i - n]
    <3>1. a \in Seq(ToSet(a)) /\ b \in Seq(ToSet(b)) /\ Len(a) = n /\ Len(b) = m
      BY <1>1, <1>2
    <3> QED
      BY <2>1, <3>1, Concat
  <2>3. ASSUME NEW i \in 1..n
        PROVE  nodes[i] = a[i]
    <3>1. i \in 1..(n + m) /\ i <= n
      BY <1>1, <1>2
    <3> QED
      BY <2>2, <3>1
  <2>4. ASSUME NEW i \in 1..m
        PROVE  nodes[n + i] = b[i]
    <3>1. n + i \in 1..(n + m) /\ ~(n + i <= n) /\ (n + i) - n = i
      BY <1>1, <1>2
    <3> QED
      BY <2>2, <3>1
  <2> QED
    BY <2>2, <2>3, <2>4
<1> HIDE DEF nodes
<1> DEFINE X1 == [i \in DOMAIN nodes |-> nodes[i].hostname]
           X2 == [i \in DOMAIN nodes |-> nodes[i].mgmt]
           X3 == [i \in DOMAIN nodes |-> nodes[i].dashboard]
<1>7. \A i \in 1..n : i \in 1..(n + m)
  BY <1>1, <1>2
<1>8. \A i \in 1..m : n + i \in 1..(n + m)
  BY <1>1, <1>2
<1>9. /\ DOMAIN X1 = DOMAIN nodes /\ DOMAIN X2 = DOMAIN nodes /\ DOMAIN X3 = DOMAIN nodes
      /\ \A i \in 1..n : X1[i] = A1[i] /\ X2[i] = A2[i] /\ X3[i] = A3[i]
      /\ \A i \in 1..m : X1[n + i] = B1[i] /\ X2[n + i] = B2[i] /\ X3[n + i] = B3[i]
  BY <1>1, <1>2, <1>6, <1>7, <1>8
<1> HIDE DEF X1, X2, X3
<1>10. /\ Repeated(X1) <=> Repeated(A1 \o B1)
       /\ Repeated(X2) <=> Repeated(A2 \o B2)
       /\ GivenTwice(X3) <=> GivenTwice(A3 \o B3)
  <2>1. n \in Nat /\ m \in Nat /\ DOMAIN nodes = 1..(n + m)
    BY <1>1, <1>2, <1>6
  <2>2. Repeated(X1) <=> Repeated(A1 \o B1)
    <3>1. /\ A1 \in Seq(ToSet(A1)) /\ B1 \in Seq(ToSet(B1))
          /\ DOMAIN X1 = 1..(Len(A1) + Len(B1))
          /\ \A i \in 1..Len(A1) : X1[i] = A1[i]
          /\ \A i \in 1..Len(B1) : X1[Len(A1) + i] = B1[i]
      BY <1>5, <1>9, <2>1
    <3> QED
      BY <3>1, FieldsJoined
  <2>3. Repeated(X2) <=> Repeated(A2 \o B2)
    <3>1. /\ A2 \in Seq(ToSet(A2)) /\ B2 \in Seq(ToSet(B2))
          /\ DOMAIN X2 = 1..(Len(A2) + Len(B2))
          /\ \A i \in 1..Len(A2) : X2[i] = A2[i]
          /\ \A i \in 1..Len(B2) : X2[Len(A2) + i] = B2[i]
      BY <1>5, <1>9, <2>1
    <3> QED
      BY <3>1, FieldsJoined
  <2>4. GivenTwice(X3) <=> GivenTwice(A3 \o B3)
    <3>1. /\ A3 \in Seq(ToSet(A3)) /\ B3 \in Seq(ToSet(B3))
          /\ DOMAIN X3 = 1..(Len(A3) + Len(B3))
          /\ \A i \in 1..Len(A3) : X3[i] = A3[i]
          /\ \A i \in 1..Len(B3) : X3[Len(A3) + i] = B3[i]
      BY <1>5, <1>9, <2>1
    <3> QED
      BY <3>1, FieldsJoined
  <2> QED
    BY <2>2, <2>3, <2>4
<1>11. /\ NodeNames(req) = A1 \o B1 /\ NodeAddresses(req) = A2 \o B2
       /\ NodeDashboards(req) = A3 \o B3
  BY DEF NodeNames, NodeAddresses, NodeDashboards, A1, B1, A2, B2, A3, B3
<1> QED
  BY <1>10, <1>11 DEF X1, X2, X3, nodes, a, b

\* Of devices and fusion nodes, validation still refuses names and addresses that
\* are taken, roles nobody has, and fewer than two of a kind in production.
LEMMA DevicesChecked ==
  ASSUME NEW req \in Requirement, Accepted(req)
  PROVE  DeviceIssues(DeriveIntent(req)) = {} <=>
           /\ ~Repeated(NodeNames(req)) /\ ~Repeated(NodeAddresses(req))
           /\ ~GivenTwice(NodeDashboards(req))
           /\ WithRole(req.devices, "fabric_edge") # {}
           /\ WithRole(req.devices, "border") # {}
           /\ ~(Production(req) /\ FewNodes(req))
<1> DEFINE int == DeriveIntent(req)
           nodes == int.devices \o int.fusion
           D1 == Repeated(Column(int.devices))
           D2 == \/ Repeated(Column(int.fusion))
                 \/ Ids(int.devices) \cap Ids(int.fusion) # {}
           D3 == Repeated([i \in DOMAIN nodes |-> nodes[i].hostname])
           D4 == Repeated([i \in DOMAIN nodes |-> nodes[i].mgmt])
           D5 == Repeated([i \in DOMAIN int.devices |-> int.devices[i].loopback])
           D6 == int.schema = "1.2" /\ int.env = "production" /\ Len(int.fusion) < 2
           D7 == Count(int, "fabric_edge") = 0
           D8 == Count(int, "control_plane") = 0
           D9 == Count(int, "border") = 0
           D10 == int.env = "production" /\ Count(int, "control_plane") < 2
           D11 == int.env = "production" /\ Count(int, "border") < 2
           D12 == GivenTwice([i \in DOMAIN nodes |-> nodes[i].dashboard])
           raised == {
             Raise(D1, "duplicate device id"), Raise(D2, "duplicate fusion node id"),
             Raise(D3, "duplicate hostname"), Raise(D4, "duplicate management IP"),
             Raise(D12, "duplicate Dashboard management IP"),
             Raise(D5, "duplicate loopback IP"), Raise(D6, "ha.fusion"),
             Raise(D7, "roles.fabric_edge.required"),
             Raise(D8, "roles.control_plane.required"),
             Raise(D9, "roles.border.required"), Raise(D10, "ha.control_plane"),
             Raise(D11, "ha.border")}
<1>1. DeviceIssues(int) = UNION raised
  BY DEF DeviceIssues
<1>2. /\ int.devices = DeriveDevices(req) /\ int.fusion = DeriveFusion(req)
      /\ int.schema = req.schema /\ int.env = req.env
  BY IntentFields
<1>3. DevicesAccepted(req) /\ FusionAccepted(req) /\ RolesAccepted(req)
  BY DEF Accepted
<1>4. ~D1 /\ ~D2
  BY <1>2, <1>3, DevicesDerived, FusionDerived DEF DevicesAccepted, FusionAccepted
<1>5. /\ D3 <=> Repeated(NodeNames(req))
      /\ D4 <=> Repeated(NodeAddresses(req))
      /\ D12 <=> GivenTwice(NodeDashboards(req))
  BY <1>2, NodesDerived
<1>6. ~D5
  <2> DEFINE s == [i \in DOMAIN int.devices |-> int.devices[i].loopback]
             n == Len(req.devices)
  <2>1. DOMAIN s = 1..n /\ n \in Nat /\ \A i \in 1..n : s[i] = <<"loopbacks", i>>
    BY <1>2, DevicesDerived
  <2> HIDE DEF s, n
  <2>2. ~Repeated(s)
    BY <2>1 DEF Repeated
  <2> QED
    BY <2>2 DEF s
<1>7. \A role : Count(int, role) = Cardinality(WithRole(req.devices, role))
                /\ Count(int, role) \in Nat
                /\ (Count(int, role) = 0 <=> WithRole(req.devices, role) = {})
  <2>1. ~Repeated(Column(req.devices))
    BY <1>3 DEF DevicesAccepted
  <2> TAKE role
  <2>2. /\ Count(int, role) = Cardinality(WithRole(req.devices, role))
        /\ Count(int, role) \in Nat
        /\ WithRole(req.devices, role) \subseteq Ids(req.devices)
        /\ IsFiniteSet(Ids(req.devices))
    BY <2>1, RolesDerived
  <2>3. IsFiniteSet(WithRole(req.devices, role))
    BY <2>2, FS_Subset
  <2> QED
    BY <2>2, <2>3, FS_EmptySet
<1> HIDE DEF int
<1>8. ~D8 /\ (D6 \/ D10 \/ D11 <=> Production(req) /\ FewNodes(req))
  <2>1. Len(int.fusion) = Len(req.fusion)
    BY <1>2, FusionDerived
  <2> QED
    BY <1>2, <1>3, <1>7, <2>1 DEF RolesAccepted, Production, FewNodes
<1>9. /\ D7 <=> WithRole(req.devices, "fabric_edge") = {}
      /\ D9 <=> WithRole(req.devices, "border") = {}
  BY <1>7
<1> HIDE DEF D1, D2, D3, D4, D5, D6, D7, D8, D9, D10, D11, D12
<1>10. (\A r \in raised : r = {}) <=>
         /\ ~D1 /\ ~D2 /\ ~D3 /\ ~D4 /\ ~D5 /\ ~D6 /\ ~D7 /\ ~D8
         /\ ~D9 /\ ~D10 /\ ~D11 /\ ~D12
  BY RaisesNothing
<1> HIDE DEF raised
<1>11. DeviceIssues(int) = {} <=> /\ ~D3 /\ ~D4 /\ ~D12 /\ ~D7 /\ ~D9
                                  /\ ~(D6 \/ D10 \/ D11)
  BY <1>1, <1>4, <1>6, <1>8, <1>10, UnionEmpty
<1> QED
  BY <1>5, <1>8, <1>9, <1>11 DEF int

-----------------------------------------------------------------------------
(* Links.                                                                   *)

\* _derive_links: every link with its two ends, on a subnet of its own.
LEMMA LinksDerived ==
  ASSUME NEW req \in Requirement, LinksAccepted(req)
  PROVE  LET list == DeriveLinks(req)
             n == Len(req.links)
         IN  /\ n \in Nat /\ DOMAIN list = 1..n /\ Len(list) = n /\ list \in Seq(ToSet(list))
             /\ Column(list) = Column(req.links)
             /\ \A i \in 1..n :
                  /\ list[i].id = req.links[i].id /\ list[i].subnet = <<"underlay_p2p", i>>
                  /\ Len(req.links[i].ends) = 2 /\ DOMAIN req.links[i].ends = 1..2
                  /\ Len(list[i].ends) = 2 /\ DOMAIN list[i].ends = 1..2
                  /\ \A j \in 1..2 :
                       /\ list[i].ends[j].device = req.links[i].ends[j][1]
                       /\ list[i].ends[j].interface = req.links[i].ends[j][2]
                       /\ list[i].ends[j].ip = <<"underlay_p2p", i, j>>
                       /\ req.links[i].ends[j][1] \in Ids(req.devices)
                       /\ req.links[i].ends[j] \in Nat \X Nat
<1> DEFINE old == req.links
           n == Len(old)
           list == DeriveLinks(req)
           V == {list[i] : i \in 1..n}
           ends(i) == [j \in DOMAIN old[i].ends |->
                         [device |-> old[i].ends[j][1], interface |-> old[i].ends[j][2],
                          ip |-> <<"underlay_p2p", i, j>>]]
           made == [i \in 1..n |-> [id |-> old[i].id, subnet |-> <<"underlay_p2p", i>>,
                                    ends |-> ends(i)]]
<1>1. n \in Nat /\ DOMAIN old = 1..n /\ \A i \in 1..n : old[i] \in LinkRecord
  BY RequirementTyped
<1>2. list = made
  BY <1>1 DEF DeriveLinks
<1>3. \A i \in 1..n : /\ made[i].id = old[i].id /\ made[i].subnet = <<"underlay_p2p", i>>
                      /\ made[i].ends = ends(i)
  <2> HIDE DEF n, ends
  <2> QED
    OBVIOUS
<1>4. list \in [1..n -> V]
  <2>1. made = [i \in 1..n |-> made[i]]
    OBVIOUS
  <2> HIDE DEF made, list
  <2> QED
    BY <1>2, <2>1
<1>5. ASSUME NEW i \in 1..n
      PROVE  /\ Len(old[i].ends) = 2 /\ DOMAIN old[i].ends = 1..2
             /\ \A j \in 1..2 : /\ old[i].ends[j][1] \in Ids(req.devices)
                                /\ old[i].ends[j] \in Nat \X Nat
  <2>1. old[i].ends \in Seq(Nat \X Nat)
    BY <1>1 DEF LinkRecord
  <2>2. old[i] \in ToSet(old)
    BY <1>1 DEF ToSet
  <2> DEFINE e == old[i].ends
  <2>3. Len(e) = 2 /\ \A j \in DOMAIN e : e[j][1] \in Ids(req.devices)
    BY <2>2 DEF LinksAccepted
  <2> HIDE DEF e
  <2>4. DOMAIN e = 1..2 /\ \A j \in 1..2 : e[j] \in Nat \X Nat
    BY <2>1, <2>3 DEF e
  <2> QED
    BY <2>3, <2>4 DEF e
<1>6. ASSUME NEW i \in 1..n
      PROVE  /\ Len(ends(i)) = 2 /\ DOMAIN ends(i) = 1..2
             /\ \A j \in 1..2 : /\ ends(i)[j].device = old[i].ends[j][1]
                                /\ ends(i)[j].interface = old[i].ends[j][2]
                                /\ ends(i)[j].ip = <<"underlay_p2p", i, j>>
  <2> DEFINE e == ends(i)
  <2>1. DOMAIN old[i].ends = 1..2
    BY <1>5
  <2>2. e = [j \in 1..2 |-> [device |-> old[i].ends[j][1], interface |-> old[i].ends[j][2],
                             ip |-> <<"underlay_p2p", i, j>>]]
    BY <2>1
  <2> HIDE DEF e, n
  <2>3. DOMAIN e = 1..2 /\ \A j \in 1..2 : /\ e[j].device = old[i].ends[j][1]
                                         /\ e[j].interface = old[i].ends[j][2]
                                         /\ e[j].ip = <<"underlay_p2p", i, j>>
    BY <2>2
  <2>4. Len(e) = 2
    BY <2>2
  <2> QED
    BY <2>3, <2>4 DEF e
<1> HIDE DEF list, made, n, V, ends
<1>7. DOMAIN list = 1..n /\ Len(list) = n /\ list \in Seq(ToSet(list))
  BY <1>1, <1>4, Written
<1>8. Column(list) = Column(old)
  BY <1>1, <1>2, <1>3, <1>7 DEF Column
<1>9. \A i \in 1..n : /\ list[i].id = old[i].id /\ list[i].subnet = <<"underlay_p2p", i>>
                      /\ list[i].ends = ends(i)
  BY <1>2, <1>3
<1> QED
  BY <1>1, <1>5, <1>6, <1>7, <1>8, <1>9 DEF list, n

\* Of links, validation still refuses names that are taken and links from a device
\* to itself.
LEMMA LinksChecked ==
  ASSUME NEW req \in Requirement, LinksAccepted(req)
  PROVE  LinkIssues(DeriveIntent(req)) = {} <=>
           /\ ~Repeated(Column(req.links))
           /\ ~\E l \in ToSet(req.links) : l.ends[1][1] = l.ends[2][1]
<1> DEFINE int == DeriveIntent(req)
           old == req.links
           list == DeriveLinks(req)
           n == Len(old)
           D1 == Repeated(Column(int.links))
           D2 == \E l \in ToSet(int.links) : Len(l.ends) # 2
           D3 == \E l \in ToSet(int.links) : \E e \in ToSet(l.ends) :
                   e.device \notin Ids(int.devices)
           D4 == \E l \in ToSet(int.links) :
                   Len(l.ends) = 2 /\ l.ends[1].device = l.ends[2].device
           D5 == \E l \in ToSet(int.links) :
                   Repeated([i \in DOMAIN l.ends |-> l.ends[i].ip])
           raised == {
             Raise(D1, "duplicate link id"), Raise(D2, "link.endpoints.count"),
             Raise(D3, "reference.device"), Raise(D4, "link.self"),
             Raise(D5, "duplicate link endpoint IP")}
<1>1. LinkIssues(int) = UNION raised
  BY DEF LinkIssues
<1>2. int.links = list /\ int.devices = DeriveDevices(req)
  BY IntentFields
<1>3. /\ DOMAIN list = 1..n /\ Column(list) = Column(old) /\ DOMAIN old = 1..n
      /\ \A i \in 1..n : /\ Len(list[i].ends) = 2 /\ DOMAIN list[i].ends = 1..2
                         /\ \A j \in 1..2 :
                              /\ list[i].ends[j].device = old[i].ends[j][1]
                              /\ list[i].ends[j].ip = <<"underlay_p2p", i, j>>
                              /\ old[i].ends[j][1] \in Ids(req.devices)
  <2>1. DOMAIN old = 1..n
    BY RequirementTyped
  <2> QED
    BY <2>1, LinksDerived
<1>4. Ids(int.devices) = Ids(req.devices)
  BY <1>2, DevicesDerived
<1>5. /\ ToSet(int.links) = {list[i] : i \in 1..n}
      /\ ToSet(old) = {old[i] : i \in 1..n}
  BY <1>2, <1>3 DEF ToSet
<1> HIDE DEF int, list, n
<1>6. D1 <=> Repeated(Column(old))
  BY <1>2, <1>3
<1>7. ~D2
  BY <1>3, <1>5
<1>8. ~D3
  <2>1. ASSUME NEW i \in 1..n, NEW e \in ToSet(list[i].ends)
        PROVE  e.device \in Ids(int.devices)
    <3>1. PICK j \in 1..2 : e = list[i].ends[j]
      BY <1>3 DEF ToSet
    <3> QED
      BY <1>3, <1>4, <3>1
  <2> QED
    BY <1>5, <2>1
<1>9. D4 <=> \E l \in ToSet(old) : l.ends[1][1] = l.ends[2][1]
  <2>1. \A i \in 1..n : /\ list[i].ends[1].device = old[i].ends[1][1]
                        /\ list[i].ends[2].device = old[i].ends[2][1]
    <3>1. 1 \in 1..2 /\ 2 \in 1..2
      OBVIOUS
    <3> QED
      BY <1>3, <3>1
  <2>2. D4 <=> \E i \in 1..n : list[i].ends[1].device = list[i].ends[2].device
    BY <1>3, <1>5
  <2>3. (\E l \in ToSet(old) : l.ends[1][1] = l.ends[2][1])
          <=> \E i \in 1..n : old[i].ends[1][1] = old[i].ends[2][1]
    BY <1>5
  <2> QED
    BY <2>1, <2>2, <2>3
<1>10. ~D5
  <2>1. ASSUME NEW i \in 1..n
        PROVE  ~Repeated([j \in DOMAIN list[i].ends |-> list[i].ends[j].ip])
    <3> DEFINE s == [j \in DOMAIN list[i].ends |-> list[i].ends[j].ip]
    <3>1. DOMAIN s = 1..2 /\ \A j \in 1..2 : s[j] = <<"underlay_p2p", i, j>>
      BY <1>3
    <3> HIDE DEF s
    <3>2. ~Repeated(s)
      BY <3>1 DEF Repeated
    <3> QED
      BY <3>2 DEF s
  <2> QED
    BY <1>5, <2>1
<1> HIDE DEF D1, D2, D3, D4, D5
<1>11. (\A r \in raised : r = {}) <=> ~D1 /\ ~D2 /\ ~D3 /\ ~D4 /\ ~D5
  BY DEF Raise
<1> HIDE DEF raised
<1>12. LinkIssues(int) = {} <=> ~D1 /\ ~D4
  BY <1>1, <1>7, <1>8, <1>10, <1>11, UnionEmpty
<1> QED
  BY <1>6, <1>9, <1>12 DEF int

-----------------------------------------------------------------------------
(* Virtual networks and their pools.                                        *)

\* Every network, in its place, with a number of its own.
LEMMA NetworksDerived ==
  ASSUME NEW req \in Requirement
  PROVE  LET list == DeriveIntent(req).networks
             n == Len(req.networks)
         IN  /\ n \in Nat \ {0} /\ DOMAIN list = 1..n /\ DOMAIN req.networks = 1..n
             /\ Column(list) = Column(req.networks) /\ Ids(list) = Ids(req.networks)
             /\ \A i \in 1..n : /\ req.networks[i] \in NetworkRecord
                                /\ list[i].id = req.networks[i].id
                                /\ list[i].vrf = req.networks[i].vrf /\ list[i].l3 = i
             /\ Vrfs(req) = VrfsOf(DeriveIntent(req))
<1> DEFINE old == req.networks
           n == Len(old)
           list == DeriveIntent(req).networks
<1>1. n \in Nat \ {0} /\ DOMAIN old = 1..n /\ \A i \in 1..n : old[i] \in NetworkRecord
  BY RequirementTyped
<1>2. list = [i \in 1..n |-> [id |-> old[i].id, vrf |-> old[i].vrf, l3 |-> i]]
  BY <1>1, IntentFields
<1> HIDE DEF list, n
<1>3. DOMAIN list = 1..n /\ \A i \in 1..n : /\ list[i].id = old[i].id
                                            /\ list[i].vrf = old[i].vrf /\ list[i].l3 = i
  BY <1>2
<1>4. Column(list) = Column(old) /\ Ids(list) = Ids(old)
  BY <1>1, <1>3 DEF Column, Ids
<1>5. Vrfs(req) = VrfsOf(DeriveIntent(req))
  <2>1. Vrfs(req) = {old[i].vrf : i \in 1..n}
    BY <1>1 DEF Vrfs, ToSet
  <2>2. VrfsOf(DeriveIntent(req)) = {list[i].vrf : i \in 1..n}
    BY <1>3 DEF VrfsOf, ToSet, list
  <2> QED
    BY <1>3, <2>1, <2>2
<1> QED
  BY <1>1, <1>3, <1>4, <1>5 DEF list, n

\* Of networks, validation still refuses a name or a VRF that two of them have.
LEMMA NetworksChecked ==
  ASSUME NEW req \in Requirement
  PROVE  NetworkIssues(DeriveIntent(req)) = {} <=>
           /\ ~Repeated(Column(req.networks))
           /\ ~Repeated([i \in DOMAIN req.networks |-> req.networks[i].vrf])
<1> DEFINE int == DeriveIntent(req)
           old == req.networks
           n == Len(old)
           D1 == Repeated(Column(int.networks))
           D2 == Repeated([i \in DOMAIN int.networks |-> int.networks[i].vrf])
           D3 == Repeated([i \in DOMAIN int.networks |-> int.networks[i].l3])
           raised == {Raise(D1, "duplicate virtual-network name"),
                      Raise(D2, "duplicate VRF name"), Raise(D3, "duplicate L3 instance id")}
<1>1. NetworkIssues(int) = UNION raised
  BY DEF NetworkIssues
<1>2. /\ DOMAIN int.networks = 1..n /\ Column(int.networks) = Column(old)
      /\ DOMAIN old = 1..n /\ n \in Nat
      /\ \A i \in 1..n : int.networks[i].vrf = old[i].vrf /\ int.networks[i].l3 = i
  BY NetworksDerived
<1> HIDE DEF int, n
<1>3. D1 <=> Repeated(Column(old))
  BY <1>2
<1>4. D2 <=> Repeated([i \in DOMAIN old |-> old[i].vrf])
  <2>1. [i \in DOMAIN int.networks |-> int.networks[i].vrf] = [i \in DOMAIN old |-> old[i].vrf]
    BY <1>2
  <2> QED
    BY <2>1
<1>5. ~D3
  <2>1. [i \in DOMAIN int.networks |-> int.networks[i].l3] = [i \in 1..n |-> i]
    BY <1>2
  <2>2. ~Repeated([i \in 1..n |-> i])
    BY DEF Repeated
  <2> QED
    BY <2>1, <2>2
<1> HIDE DEF D1, D2, D3
<1>6. (\A r \in raised : r = {}) <=> ~D1 /\ ~D2 /\ ~D3
  BY DEF Raise
<1> HIDE DEF raised
<1>7. NetworkIssues(int) = {} <=> ~D1 /\ ~D2
  BY <1>1, <1>5, <1>6, UnionEmpty
<1> QED
  BY <1>3, <1>4, <1>7 DEF int

-----------------------------------------------------------------------------
(* The endpoint pools.                                                      *)

\* A network at one of its sites.
Place == [network : Nat, site : Nat, server : Nat \cup {None}]

\* network_sites: every network at each of its sites, and nothing else.
LEMMA PlacesListed ==
  ASSUME NEW req \in Requirement
  PROVE  LET places == NetworkSites(req)
             n == Len(places)
         IN  /\ n \in Nat \ {0} /\ DOMAIN places = 1..n /\ places \in Seq(Place)
             /\ \A k \in 1..n : places[k] \in Place /\ places[k].network \in NetworkIds(req)
             /\ \A x \in NetworkIds(req) : \E k \in 1..n : places[k].network = x
<1> DEFINE old == req.networks
           m == Len(old)
           at(i, j) == [network |-> old[i].id, site |-> old[i].sites[j].site,
                        server |-> old[i].sites[j].server]
           row(i) == [j \in DOMAIN old[i].sites |-> at(i, j)]
           rows == [i \in DOMAIN old |-> row(i)]
           places == NetworkSites(req)
           n == Len(places)
<1>1. /\ m \in Nat \ {0} /\ DOMAIN old = 1..m
      /\ \A i \in 1..m : old[i] \in NetworkRecord
  BY RequirementTyped
<1>2. ASSUME NEW i \in 1..m
      PROVE  /\ row(i) \in Seq(Place) /\ Len(row(i)) \in Nat \ {0}
             /\ \A j \in 1..Len(row(i)) : row(i)[j].network = old[i].id
  <2> DEFINE sites == old[i].sites
             R == [site : Nat, server : Nat \cup {None}]
             k == Len(sites)
             r == row(i)
  <2>1. old[i].id \in Nat /\ sites \in Seq(R)
        /\ sites # <<>>
    BY <1>1 DEF NetworkRecord
  <2>2. k \in Nat \ {0} /\ DOMAIN sites = 1..k
        /\ \A j \in 1..k : sites[j] \in R
    <3> HIDE DEF sites, R
    <3> QED
      BY <2>1
  <2>3. \A j \in 1..k : at(i, j) \in Place /\ at(i, j).network = old[i].id
    BY <2>1, <2>2 DEF Place
  <2>4. r = [j \in 1..k |-> at(i, j)]
    BY <2>2
  <2> HIDE DEF at, k, r, sites
  <2>5. r \in [1..k -> Place]
    BY <2>3, <2>4
  <2>6. Len(r) = k /\ r \in Seq(Place)
    BY <2>2, <2>5, Written
  <2>7. \A j \in 1..k : r[j].network = old[i].id
    BY <2>3, <2>4
  <2> QED
    BY <2>2, <2>6, <2>7 DEF r
<1>3. NetworkSites(req) = FlattenSeq(rows)
  BY DEF NetworkSites
<1> HIDE DEF row, places, m
<1>4. rows \in Seq(Seq(Place)) /\ Len(rows) = m /\ \A i \in 1..m : rows[i] = row(i)
  BY <1>1, <1>2
<1> HIDE DEF rows
<1>5. places \in Seq(Place) /\ Gathers(places, rows, m)
  BY <1>3, <1>4, FlattenGathers DEF places
<1>6. \A k \in 1..n : \E i \in 1..m : \E j \in 1..Len(row(i)) : places[k] = row(i)[j]
  <2> TAKE k \in 1..n
  <2>1. PICK i \in 1..m : \E j \in 1..Len(rows[i]) : places[k] = rows[i][j]
    BY <1>5 DEF Gathers
  <2> QED
    BY <1>4, <2>1
<1>7. \A i \in 1..m : \A j \in 1..Len(row(i)) : \E k \in 1..n : places[k] = row(i)[j]
  <2> TAKE i \in 1..m
  <2>1. rows[i] = row(i)
    BY <1>4
  <2>2. \A j \in 1..Len(rows[i]) : \E k \in 1..n : places[k] = rows[i][j]
    BY <1>5 DEF Gathers
  <2> QED
    BY <2>1, <2>2
<1>8. NetworkIds(req) = {old[i].id : i \in 1..m}
  BY <1>1 DEF NetworkIds, Ids
<1>9. n \in Nat /\ DOMAIN places = 1..n /\ \A k \in 1..n : places[k] \in Place
  BY <1>5
<1>10. ASSUME NEW i \in 1..m
       PROVE  \E k \in 1..n : places[k].network = old[i].id
  <2>1. 1 \in 1..Len(row(i))
    BY <1>2
  <2> QED
    BY <1>2, <1>7, <2>1
<1>11. n # 0
  <2>1. 1 \in 1..m
    BY <1>1
  <2> QED
    BY <1>9, <1>10, <2>1
<1>12. \A k \in 1..n : places[k].network \in NetworkIds(req)
  BY <1>2, <1>6, <1>8
<1> QED
  BY <1>5, <1>8, <1>9, <1>10, <1>11, <1>12 DEF places

\* _derive_endpoint_pools: a pool for each, with a VLAN and a prefix of its own.
LEMMA PoolsDerived ==
  ASSUME NEW req \in Requirement, NetworksAccepted(req)
  PROVE  LET list == DerivePools(req)
             places == NetworkSites(req)
             n == Len(places)
         IN  /\ DOMAIN list = 1..n /\ Len(list) = n /\ list \in Seq(ToSet(list))
             /\ \A i \in 1..n :
                  /\ list[i].id = Words[places[i].site] \o Words[places[i].network]
                  /\ list[i].site = places[i].site /\ list[i].network = places[i].network
                  /\ list[i].vlan = FirstFit(VlanFree, i)
                  /\ list[i].prefix = <<"overlay_hosts", i>>
                  /\ list[i].server = places[i].server
             /\ \A i \in 1..n : FirstFit(VlanFree, i) \in VlanFree
             /\ \A i, j \in 1..n : FirstFit(VlanFree, i) = FirstFit(VlanFree, j) => i = j
<1> DEFINE places == NetworkSites(req)
           n == Len(places)
           list == DerivePools(req)
           V == {list[i] : i \in 1..n}
           made == [i \in 1..n |->
                      [id |-> Words[places[i].site] \o Words[places[i].network],
                       site |-> places[i].site, network |-> places[i].network,
                       vlan |-> FirstFit(VlanFree, i), prefix |-> <<"overlay_hosts", i>>,
                       server |-> places[i].server]]
<1>1. n \in Nat /\ DOMAIN places = 1..n
  BY PlacesListed
<1>2. list = made
  BY <1>1 DEF DerivePools
<1>3. \A i \in 1..n :
        /\ made[i].id = Words[places[i].site] \o Words[places[i].network]
        /\ made[i].site = places[i].site /\ made[i].network = places[i].network
        /\ made[i].vlan = FirstFit(VlanFree, i) /\ made[i].prefix = <<"overlay_hosts", i>>
        /\ made[i].server = places[i].server
  <2> HIDE DEF n, places
  <2> QED
    OBVIOUS
<1>4. list \in [1..n -> V]
  <2>1. made = [i \in 1..n |-> made[i]]
    OBVIOUS
  <2> HIDE DEF made, list
  <2> QED
    BY <1>2, <2>1
<1>5. n <= Cardinality(VlanFree)
  BY DEF NetworksAccepted
<1>6. VlanFree \subseteq Nat /\ IsFiniteSet(VlanFree)
  BY FreeAssumption
<1> HIDE DEF n, places, list, made, V
<1>7. DOMAIN list = 1..n /\ Len(list) = n /\ list \in Seq(ToSet(list))
  BY <1>1, <1>4, Written
<1>8. /\ \A i \in 1..n : FirstFit(VlanFree, i) \in VlanFree
      /\ \A i, j \in 1..n : FirstFit(VlanFree, i) = FirstFit(VlanFree, j) => i = j
  <2>1. Cardinality(VlanFree) \in Nat
    BY <1>6, FirstFits
  <2>2. \A i \in 1..n : i \in 1..Cardinality(VlanFree)
    BY <1>1, <1>5, <2>1
  <2> QED
    BY <1>6, <2>2, FirstFits
<1> QED
  BY <1>2, <1>3, <1>7, <1>8 DEF n, places, list

\* The names that the pools get.
PoolNames(req) ==
  LET places == NetworkSites(req)
  IN [i \in DOMAIN places |-> Words[places[i].site] \o Words[places[i].network]]

\* Of pools, validation still refuses names that two of them get, and VLANs that no
\* switch takes.
LEMMA PoolsChecked ==
  ASSUME NEW req \in Requirement, Accepted(req)
  PROVE  PoolIssues(DeriveIntent(req)) = {} <=>
           /\ ~Repeated(PoolNames(req))
           /\ ~\E i \in DOMAIN NetworkSites(req) : FirstFit(VlanFree, i) \in LegacyVlans
<1> DEFINE int == DeriveIntent(req)
           pools == int.pools
           places == NetworkSites(req)
           n == Len(places)
           D1 == pools = <<>>
           D2 == Repeated(Column(pools))
           D3 == \E p \in ToSet(pools) : p.site \notin Ids(int.campus.sites)
           D4 == \E p \in ToSet(pools) : p.network \notin Ids(int.networks)
           D5 == \E p \in ToSet(pools) : p.vlan \in LegacyVlans
           D6 == Repeated([i \in DOMAIN pools |-> <<pools[i].site, pools[i].vlan>>])
           D7 == \E p \in ToSet(pools) : p.server # None /\ ~HasRole(int, p.server, "border")
           raised == {
             Raise(D1, "endpoint_pools.empty"), Raise(D2, "duplicate endpoint-pool id"),
             Raise(D3, "reference.fabric_site"), Raise(D4, "reference.virtual_network"),
             Raise(D5, "vlan.reserved"), Raise(D6, "duplicate VLAN in site"),
             Raise(D7, "dhcp.server.role")}
<1>1. PoolIssues(int) = UNION raised
  BY DEF PoolIssues
<1>2. NetworksAccepted(req) /\ UsedSites(req) \subseteq Ids(req.campus.sites)
      /\ ~Repeated(Column(req.devices))
  BY DEF Accepted, CampusAccepted, DevicesAccepted
<1>3. pools = DerivePools(req) /\ int.campus = req.campus
  BY IntentFields
<1>4. /\ DOMAIN pools = 1..n /\ Len(pools) = n
      /\ \A i \in 1..n :
           /\ pools[i].id = Words[places[i].site] \o Words[places[i].network]
           /\ pools[i].site = places[i].site /\ pools[i].network = places[i].network
           /\ pools[i].vlan = FirstFit(VlanFree, i)
           /\ pools[i].server = places[i].server
      /\ \A i, j \in 1..n : FirstFit(VlanFree, i) = FirstFit(VlanFree, j) => i = j
  <2> DEFINE list == DerivePools(req)
  <2>1. /\ DOMAIN list = 1..n /\ Len(list) = n
        /\ \A i \in 1..n :
             /\ list[i].id = Words[places[i].site] \o Words[places[i].network]
             /\ list[i].site = places[i].site /\ list[i].network = places[i].network
             /\ list[i].vlan = FirstFit(VlanFree, i)
             /\ list[i].server = places[i].server
        /\ \A i, j \in 1..n : FirstFit(VlanFree, i) = FirstFit(VlanFree, j) => i = j
    BY <1>2, PoolsDerived
  <2>2. pools = list
    BY <1>3
  <2> HIDE DEF list, n, places, int, pools
  <2> QED
    BY <2>1, <2>2
<1>5. /\ n \in Nat \ {0} /\ DOMAIN places = 1..n
      /\ \A i \in 1..n : places[i].network \in NetworkIds(req)
  BY PlacesListed
<1>6. /\ \A i \in 1..n : places[i] \in ToSet(places) /\ pools[i] \in ToSet(pools)
      /\ \A p \in ToSet(pools) : \E i \in 1..n : p = pools[i]
  BY <1>4, <1>5 DEF ToSet
<1>7. Ids(int.networks) = NetworkIds(req)
  BY NetworksDerived DEF NetworkIds
<1>8. \A d, role : HasRole(int, d, role) <=> d \in WithRole(req.devices, role)
  BY <1>2, RolesDerived
<1> HIDE DEF int, n, places, pools
<1>9. ~D1
  BY <1>4, <1>5
<1>10. D2 <=> Repeated(PoolNames(req))
  <2>1. Column(pools) = PoolNames(req)
    BY <1>4, <1>5 DEF Column, PoolNames, places
  <2> QED
    BY <2>1
<1>11. ~D3
  <2>1. \A i \in 1..n : places[i].site \in UsedSites(req)
    BY <1>6 DEF UsedSites, places
  <2>2. \A i \in 1..n : pools[i].site \in Ids(int.campus.sites)
    BY <1>2, <1>3, <1>4, <2>1
  <2>3. \A p \in ToSet(pools) : p.site \in Ids(int.campus.sites)
    BY <1>6, <2>2
  <2> QED
    BY <2>3
<1>12. ~D4
  <2>1. \A i \in 1..n : pools[i].network \in Ids(int.networks)
    BY <1>4, <1>5, <1>7
  <2>2. \A p \in ToSet(pools) : p.network \in Ids(int.networks)
    BY <1>6, <2>1
  <2> QED
    BY <2>2
<1>13. D5 <=> \E i \in DOMAIN NetworkSites(req) : FirstFit(VlanFree, i) \in LegacyVlans
  <2>1. D5 <=> \E i \in 1..n : pools[i].vlan \in LegacyVlans
    BY <1>6
  <2>2. \A i \in 1..n : pools[i].vlan = FirstFit(VlanFree, i)
    BY <1>4
  <2> HIDE DEF D5
  <2> QED
    BY <1>5, <2>1, <2>2 DEF places
<1>14. ~D6
  <2> DEFINE s == [i \in DOMAIN pools |-> <<pools[i].site, pools[i].vlan>>]
  <2>1. DOMAIN s = 1..n /\ \A i \in 1..n : s[i][2] = FirstFit(VlanFree, i)
    BY <1>4
  <2> HIDE DEF s
  <2>2. ~Repeated(s)
    BY <1>4, <2>1 DEF Repeated
  <2> QED
    BY <2>2 DEF s
<1>15. ~D7
  <2>1. \A i \in 1..n : places[i].server # None =>
                          places[i].server \in WithRole(req.devices, "border")
    BY <1>2, <1>6 DEF NetworksAccepted, places
  <2>2. \A i \in 1..n : pools[i].server # None => HasRole(int, pools[i].server, "border")
    BY <1>4, <1>8, <2>1
  <2>3. \A p \in ToSet(pools) : p.server # None => HasRole(int, p.server, "border")
    BY <1>6, <2>2
  <2> QED
    BY <2>3
<1> HIDE DEF D1, D2, D3, D4, D5, D6, D7
<1>16. (\A r \in raised : r = {}) <=>
         ~D1 /\ ~D2 /\ ~D3 /\ ~D4 /\ ~D5 /\ ~D6 /\ ~D7
  BY DEF Raise
<1> HIDE DEF raised
<1>17. PoolIssues(int) = {} <=> ~D2 /\ ~D5
  BY <1>1, <1>9, <1>11, <1>12, <1>14, <1>15, <1>16, UnionEmpty
<1> QED
  BY <1>10, <1>13, <1>17 DEF int

-----------------------------------------------------------------------------
(* Attachments.                                                             *)

\* Where no two pools get one name, a place has one pool and a name is of one pool.
LEMMA PoolFound ==
  ASSUME NEW req \in Requirement, NetworksAccepted(req), ~Repeated(PoolNames(req)),
         NEW k \in 1..Len(NetworkSites(req))
  PROVE  LET list == DerivePools(req)
             id == list[k].id
         IN  /\ PoolAt(list, list[k].site, list[k].network) = list[k]
             /\ list[SelectLastInSeq(list, LAMBDA p : p.id = id)] = list[k]
<1> DEFINE list == DerivePools(req)
           places == NetworkSites(req)
           n == Len(places)
           site == list[k].site
           network == list[k].network
           id == list[k].id
           I == {j \in 1..n : list[j].site = site /\ list[j].network = network}
           J == {j \in 1..n : list[j].id = id}
<1>1. /\ DOMAIN list = 1..n /\ Len(list) = n
      /\ \A i \in 1..n :
           /\ list[i].id = Words[places[i].site] \o Words[places[i].network]
           /\ list[i].site = places[i].site /\ list[i].network = places[i].network
  BY PoolsDerived
<1>2. n \in Nat /\ DOMAIN places = 1..n
  BY PlacesListed
<1>3. \A i, j \in 1..n : list[i].id = list[j].id => i = j
  <2> DEFINE names == PoolNames(req)
  <2>1. DOMAIN names = 1..n /\ \A i \in 1..n : names[i] = list[i].id
    <3> HIDE DEF list, n
    <3> QED
      BY <1>1, <1>2 DEF PoolNames
  <2> HIDE DEF names, list, n, places
  <2> QED
    BY <2>1 DEF Repeated, names
<1> HIDE DEF list, n, places
<1>4. k \in 1..n
  BY DEF n, places
<1>5. ASSUME NEW j \in 1..n, list[j].site = site, list[j].network = network
      PROVE  j = k
  <2>1. places[j].site = places[k].site /\ places[j].network = places[k].network
    BY <1>1, <1>4, <1>5
  <2>2. list[j].id = list[k].id
    BY <1>1, <1>4, <2>1
  <2> QED
    BY <1>3, <1>4, <2>2
<1>6. I = {k}
  BY <1>4, <1>5
<1>7. J = {k}
  BY <1>3, <1>4
<1>8. Max({k}) = k
  BY <1>2, <1>4, MaxOfOne
<1>9. SelectLastInSeq(list, LAMBDA p : p.site = site /\ p.network = network) = k
  <2>1. I # {} /\ Max(I) = k
    BY <1>6, <1>8
  <2> QED
    BY <1>1, <2>1 DEF SelectLastInSeq
<1>10. SelectLastInSeq(list, LAMBDA p : p.id = id) = k
  <2>1. J # {} /\ Max(J) = k
    BY <1>7, <1>8
  <2> QED
    BY <1>1, <2>1 DEF SelectLastInSeq
<1>11. PoolAt(list, list[k].site, list[k].network) = list[k]
  BY <1>9 DEF PoolAt
<1> QED
  BY <1>10, <1>11 DEF list

\* _derive_attachments: an attachment takes the VLAN of the pool of its place.
LEMMA AttachmentsDerived ==
  ASSUME NEW req \in Requirement, Accepted(req), ~Repeated(PoolNames(req))
  PROVE  LET list == DeriveAttachments(req)
             old == req.attachments
             n == Len(old)
             pools == DerivePools(req)
         IN  /\ n \in Nat /\ DOMAIN list = 1..n /\ DOMAIN old = 1..n
             /\ Column(list) = Column(old)
             /\ \A i \in 1..n :
                  /\ list[i].device = old[i].device /\ list[i].interface = old[i].interface
                  /\ list[i].site = old[i].site
                  /\ \E k \in 1..Len(NetworkSites(req)) :
                       /\ list[i].pool = pools[k].id /\ list[i].site = pools[k].site
                       /\ list[i].network = pools[k].network /\ list[i].vlan = pools[k].vlan
<1> DEFINE list == DeriveAttachments(req)
           old == req.attachments
           n == Len(old)
           pools == DerivePools(req)
           places == NetworkSites(req)
           m == Len(places)
           at(i) == PoolAt(pools, old[i].site, old[i].network)
           made == [i \in 1..n |->
                      [id |-> old[i].id, device |-> old[i].device,
                       interface |-> old[i].interface, site |-> old[i].site,
                       network |-> old[i].network, pool |-> at(i).id, vlan |-> at(i).vlan]]
<1>1. NetworksAccepted(req) /\ AttachmentsAccepted(req)
  BY DEF Accepted
<1>2. n \in Nat /\ DOMAIN old = 1..n
  BY RequirementTyped
<1>3. list = made
  BY <1>2 DEF DeriveAttachments
<1> HIDE DEF at
<1>4. \A i \in 1..n :
        /\ made[i].id = old[i].id /\ made[i].device = old[i].device
        /\ made[i].interface = old[i].interface /\ made[i].site = old[i].site
        /\ made[i].network = old[i].network
        /\ made[i].pool = at(i).id /\ made[i].vlan = at(i).vlan
  <2> HIDE DEF n
  <2> QED
    OBVIOUS
<1>5. ASSUME NEW i \in 1..n
      PROVE  \E k \in 1..m : /\ old[i].site = pools[k].site
                             /\ old[i].network = pools[k].network /\ at(i) = pools[k]
  <2>1. old[i] \in ToSet(old)
    BY <1>2 DEF ToSet
  <2>2. <<old[i].site, old[i].network>> \in PoolKeys(req)
    BY <1>1, <2>1 DEF AttachmentsAccepted
  <2>3. PICK s \in ToSet(places) : old[i].site = s.site /\ old[i].network = s.network
    BY <2>2 DEF PoolKeys
  <2>4. PICK k \in 1..m : s = places[k]
    <3>1. DOMAIN places = 1..m
      BY PlacesListed
    <3> QED
      BY <2>3, <3>1 DEF ToSet
  <2>5. pools[k].site = places[k].site /\ pools[k].network = places[k].network
    BY <1>1, PoolsDerived
  <2>6. PoolAt(pools, pools[k].site, pools[k].network) = pools[k]
    BY <1>1, PoolFound
  <2> HIDE DEF pools, places, m
  <2> QED
    BY <2>3, <2>4, <2>5, <2>6 DEF at
<1> HIDE DEF list, n, pools, places, m, made
<1>6. DOMAIN list = 1..n
  BY <1>3 DEF made
<1>7. \A i \in 1..n :
        /\ list[i].id = old[i].id /\ list[i].device = old[i].device
        /\ list[i].interface = old[i].interface /\ list[i].site = old[i].site
        /\ list[i].network = old[i].network
        /\ list[i].pool = at(i).id /\ list[i].vlan = at(i).vlan
  BY <1>3, <1>4
<1>8. Column(list) = Column(old)
  BY <1>2, <1>6, <1>7 DEF Column
<1>9. ASSUME NEW i \in 1..n
      PROVE  \E k \in 1..m : /\ list[i].pool = pools[k].id /\ list[i].site = pools[k].site
                             /\ list[i].network = pools[k].network
                             /\ list[i].vlan = pools[k].vlan
  <2>1. PICK k \in 1..m : /\ old[i].site = pools[k].site
                          /\ old[i].network = pools[k].network /\ at(i) = pools[k]
    BY <1>5
  <2>2. /\ list[i].pool = pools[k].id /\ list[i].site = pools[k].site
        /\ list[i].network = pools[k].network /\ list[i].vlan = pools[k].vlan
    BY <1>7, <2>1
  <2> QED
    BY <2>2
<1> QED
  BY <1>2, <1>6, <1>7, <1>8, <1>9 DEF list, n, pools, places, m

\* The ends of the links, as the validator and as the allocator lists them.
LEMMA LinkEnds ==
  ASSUME NEW req \in Requirement, LinksAccepted(req)
  PROVE  UNION {{<<e.device, e.interface>> : e \in ToSet(l.ends)} :
                  l \in ToSet(DeriveLinks(req))} \subseteq LinkInterfaces(req)
<1> DEFINE list == DeriveLinks(req)
           old == req.links
           n == Len(old)
<1>1. /\ DOMAIN list = 1..n
      /\ \A i \in 1..n :
           /\ DOMAIN old[i].ends = 1..2 /\ DOMAIN list[i].ends = 1..2
           /\ \A j \in 1..2 : /\ list[i].ends[j].device = old[i].ends[j][1]
                              /\ list[i].ends[j].interface = old[i].ends[j][2]
                              /\ old[i].ends[j] \in Nat \X Nat
  BY LinksDerived
<1>2. DOMAIN old = 1..n
  BY RequirementTyped
<1> HIDE DEF list, n
<1>3. ASSUME NEW l \in ToSet(list), NEW e \in ToSet(l.ends)
      PROVE  <<e.device, e.interface>> \in LinkInterfaces(req)
  <2>1. PICK i \in 1..n : l = list[i]
    BY <1>1 DEF ToSet
  <2>2. PICK j \in 1..2 : e = list[i].ends[j]
    BY <1>1, <2>1 DEF ToSet
  <2>3. <<e.device, e.interface>> = old[i].ends[j]
    <3>1. e.device = old[i].ends[j][1] /\ e.interface = old[i].ends[j][2]
          /\ old[i].ends[j] \in Nat \X Nat
      BY <1>1, <2>2
    <3> QED
      BY <3>1
  <2>4. old[i] \in ToSet(old) /\ old[i].ends[j] \in ToSet(old[i].ends)
    BY <1>1, <1>2 DEF ToSet
  <2> QED
    BY <2>3, <2>4 DEF LinkInterfaces
<1> QED
  BY <1>3 DEF list

\* The attachments of an accepted design are valid where no two pools get one name.
LEMMA AttachmentsChecked ==
  ASSUME NEW req \in Requirement, Accepted(req), ~Repeated(PoolNames(req))
  PROVE  AttachmentIssues(DeriveIntent(req)) = {}
<1> DEFINE int == DeriveIntent(req)
           list == int.attachments
           old == req.attachments
           n == Len(old)
           pools == int.pools
           m == Len(NetworkSites(req))
           ends == UNION {{<<e.device, e.interface>> : e \in ToSet(l.ends)} :
                            l \in ToSet(int.links)}
           known == {a \in ToSet(list) : a.pool \in Ids(int.pools)}
           PoolNamed(id) == int.pools[SelectLastInSeq(int.pools, LAMBDA p : p.id = id)]
           D1 == Repeated(Column(list))
           D2 == Repeated([i \in DOMAIN list |-> <<list[i].device, list[i].interface>>])
           D3 == \E a \in ToSet(list) : ~HasRole(int, a.device, "fabric_edge")
           D4 == \E a \in ToSet(list) :
                   a.device \notin Ids(int.devices) \/ SiteOf(int, a.device) # a.site
           D5 == \E a \in ToSet(list) : <<a.device, a.interface>> \in ends
           D6 == known # ToSet(list)
           D7 == \E a \in known : PoolNamed(a.pool).site # a.site
           D8 == \E a \in known : PoolNamed(a.pool).network # a.network
           D9 == \E a \in known : PoolNamed(a.pool).vlan # a.vlan
           raised == {
             Raise(D1, "duplicate endpoint attachment id"),
             Raise(D2, "duplicate endpoint attachment interface"),
             Raise(D3, "attachment.device.role"), Raise(D4, "attachment.site"),
             Raise(D5, "attachment.interface.fabric_link"),
             Raise(D6, "reference.endpoint_pool"), Raise(D7, "attachment.pool.site"),
             Raise(D8, "attachment.pool.virtual_network"),
             Raise(D9, "attachment.pool.vlan")}
<1>1. AttachmentIssues(int) = UNION raised
  BY DEF AttachmentIssues
<1>2. /\ AttachmentsAccepted(req) /\ NetworksAccepted(req) /\ LinksAccepted(req)
      /\ ~Repeated(Column(req.devices))
  BY DEF Accepted, DevicesAccepted
<1>3. /\ list = DeriveAttachments(req) /\ pools = DerivePools(req)
      /\ int.links = DeriveLinks(req) /\ int.devices = DeriveDevices(req)
  BY IntentFields
<1>4. /\ n \in Nat /\ DOMAIN list = 1..n /\ DOMAIN old = 1..n /\ Column(list) = Column(old)
      /\ \A i \in 1..n :
           /\ list[i].device = old[i].device /\ list[i].interface = old[i].interface
           /\ list[i].site = old[i].site
           /\ \E k \in 1..m : /\ list[i].pool = pools[k].id /\ list[i].site = pools[k].site
                              /\ list[i].network = pools[k].network
                              /\ list[i].vlan = pools[k].vlan
  <2> DEFINE l == DeriveAttachments(req)
             p == DerivePools(req)
  <2>1. /\ n \in Nat /\ DOMAIN l = 1..n /\ DOMAIN old = 1..n /\ Column(l) = Column(old)
        /\ \A i \in 1..n :
             /\ l[i].device = old[i].device /\ l[i].interface = old[i].interface
             /\ l[i].site = old[i].site
             /\ \E k \in 1..m : /\ l[i].pool = p[k].id /\ l[i].site = p[k].site
                                /\ l[i].network = p[k].network /\ l[i].vlan = p[k].vlan
    BY AttachmentsDerived
  <2> HIDE DEF l, p, int, n, m
  <2> QED
    BY <1>3, <2>1 DEF l, p
<1>5. /\ DOMAIN pools = 1..m
      /\ \A k \in 1..m : PoolNamed(pools[k].id) = pools[k]
  <2> DEFINE p == DerivePools(req)
             named(id) == p[SelectLastInSeq(p, LAMBDA x : x.id = id)]
  <2>1. DOMAIN p = 1..m
    BY <1>2, PoolsDerived
  <2>2. \A k \in 1..m : named(p[k].id) = p[k]
    BY <1>2, PoolFound
  <2>3. \A id : PoolNamed(id) = named(id)
    BY <1>3
  <2> HIDE DEF named, PoolNamed, p, m, pools
  <2> QED
    BY <1>3, <2>1, <2>2, <2>3 DEF p
<1>6. \A d, role : HasRole(int, d, role) <=> d \in WithRole(req.devices, role)
  BY <1>2, RolesDerived
<1>7. /\ Ids(int.devices) = Ids(req.devices)
      /\ \A role : WithRole(req.devices, role) \subseteq Ids(req.devices)
      /\ \A d \in Ids(req.devices) : SiteOf(int, d) = Entry(req.devices, d).site
  BY <1>2, <1>3, RolesDerived, DevicesDerived
<1>8. ends \subseteq LinkInterfaces(req)
  BY <1>2, <1>3, LinkEnds
<1>9. /\ ~Repeated(Column(old))
      /\ ~Repeated([i \in DOMAIN old |-> <<old[i].device, old[i].interface>>])
      /\ \A i \in 1..n :
           /\ old[i].device \in WithRole(req.devices, "fabric_edge")
           /\ Entry(req.devices, old[i].device).site = old[i].site
           /\ <<old[i].device, old[i].interface>> \notin LinkInterfaces(req)
  <2>1. \A i \in 1..n : old[i] \in ToSet(old)
    BY <1>4 DEF ToSet
  <2> QED
    BY <1>2, <2>1 DEF AttachmentsAccepted
<1> HIDE DEF int, list, pools, n, m, ends, PoolNamed
<1>10. \A a \in ToSet(list) : \E i \in 1..n : a = list[i]
  BY <1>4 DEF ToSet
<1>11. ~D1
  BY <1>4, <1>9
<1>12. ~D2
  <2>1. [i \in DOMAIN list |-> <<list[i].device, list[i].interface>>]
          = [i \in DOMAIN old |-> <<old[i].device, old[i].interface>>]
    BY <1>4
  <2> QED
    BY <1>9, <2>1
<1>13. ASSUME NEW a \in ToSet(list)
       PROVE  /\ HasRole(int, a.device, "fabric_edge")
              /\ a.device \in Ids(int.devices) /\ SiteOf(int, a.device) = a.site
              /\ <<a.device, a.interface>> \notin ends
              /\ \E k \in 1..m : /\ a.pool = pools[k].id /\ a.site = pools[k].site
                                 /\ a.network = pools[k].network /\ a.vlan = pools[k].vlan
  <2>1. PICK i \in 1..n : a = list[i]
    BY <1>10
  <2>2. a.device = old[i].device /\ a.interface = old[i].interface /\ a.site = old[i].site
    BY <1>4, <2>1
  <2>3. HasRole(int, a.device, "fabric_edge")
    BY <1>6, <1>9, <2>2
  <2>4. a.device \in Ids(int.devices) /\ SiteOf(int, a.device) = a.site
    BY <1>7, <1>9, <2>2
  <2>5. <<a.device, a.interface>> \notin ends
    BY <1>8, <1>9, <2>2
  <2>6. \E k \in 1..m : /\ a.pool = pools[k].id /\ a.site = pools[k].site
                        /\ a.network = pools[k].network /\ a.vlan = pools[k].vlan
    BY <1>4, <2>1
  <2> QED
    BY <2>3, <2>4, <2>5, <2>6
<1>14. ~D3 /\ ~D4 /\ ~D5
  BY <1>13
<1>15. ASSUME NEW a \in ToSet(list)
       PROVE  /\ a.pool \in Ids(int.pools) /\ PoolNamed(a.pool).site = a.site
              /\ PoolNamed(a.pool).network = a.network /\ PoolNamed(a.pool).vlan = a.vlan
  <2>1. PICK k \in 1..m : /\ a.pool = pools[k].id /\ a.site = pools[k].site
                          /\ a.network = pools[k].network /\ a.vlan = pools[k].vlan
    BY <1>13
  <2>2. PoolNamed(a.pool) = pools[k]
    BY <1>5, <2>1
  <2>3. a.pool \in Ids(int.pools)
    BY <1>5, <2>1 DEF Ids, pools
  <2> QED
    BY <2>1, <2>2, <2>3
<1>16. ~D6 /\ ~D7 /\ ~D8 /\ ~D9
  BY <1>15
<1> HIDE DEF D1, D2, D3, D4, D5, D6, D7, D8, D9
<1>17. (\A r \in raised : r = {}) <=>
         ~D1 /\ ~D2 /\ ~D3 /\ ~D4 /\ ~D5 /\ ~D6 /\ ~D7 /\ ~D8 /\ ~D9
  BY DEF Raise
<1> HIDE DEF raised
<1>18. AttachmentIssues(int) = {}
  BY <1>1, <1>11, <1>12, <1>14, <1>16, <1>17, UnionEmpty
<1> QED
  BY <1>18 DEF int

-----------------------------------------------------------------------------
(* Numbers that are asked for.                                              *)

\* reserve_numeric for one after the other: unless one is refused, each gets a free
\* number and no two get the same.
LEMMA GivenOut ==
  ASSUME NEW free, free \subseteq Nat, IsFiniteSet(free),
         NEW wanted \in Seq(Nat \cup {None}), ~GiveOut(free, wanted).refused
  PROVE  LET s == GiveOut(free, wanted).numbers
         IN  s \in Seq(free) /\ Len(s) = Len(wanted) /\ ~Repeated(s)
<1> DEFINE Left(x) == free \ ToSet(x)
           Give(x, w) == IF w # None THEN w
                         ELSE IF Left(x) = {} THEN None ELSE FirstFit(Left(x), 1)
           U == free \cup {None} \cup {wanted[n] : n \in Nat}
           V == Seq(U)
           step == [x \in V |-> Append(x, Give(x, wanted[Len(x) + 1]))]
           given == CHOOSE f : f = [n \in Nat |->
                      IF n = 0 THEN <<>> ELSE Append(f[n - 1], Give(f[n - 1], wanted[n]))]
           last == Len(wanted)
<1>1. last \in Nat
  OBVIOUS
<1>2. \A x : Left(x) # {} => FirstFit(Left(x), 1) \in Left(x)
  <2> SUFFICES ASSUME NEW x, Left(x) # {}
               PROVE  FirstFit(Left(x), 1) \in Left(x)
    OBVIOUS
  <2>1. Left(x) \in SUBSET free /\ Left(x) \subseteq Nat
    OBVIOUS
  <2> HIDE DEF Left
  <2>2. IsFiniteSet(Left(x))
    BY <2>1, FS_Subset
  <2> QED
    BY <2>1, <2>2, FirstFits
<1>3. \A x : \A n \in Nat : Give(x, wanted[n]) \in U
  <2>1. \A x : Left(x) \subseteq free
    OBVIOUS
  <2> HIDE DEF Left
  <2> QED
    BY <1>2, <2>1
<1> HIDE DEF Give, U, Left
<1>4. <<>> \in V /\ step \in [V -> V]
  <2>1. \A x \in V : Append(x, Give(x, wanted[Len(x) + 1])) \in V
    <3> TAKE x \in V
    <3>1. Len(x) + 1 \in Nat
      OBVIOUS
    <3>2. Give(x, wanted[Len(x) + 1]) \in U
      BY <1>3, <3>1
    <3> QED
      BY <3>2
  <2> HIDE DEF V
  <2>2. step \in [V -> V]
    BY <2>1
  <2> QED
    BY <2>2 DEF V
<1>5. PICK f : Sequel(V, <<>>, step, f)
  <2> HIDE DEF V, step
  <2> QED
    BY <1>4, NatRecursion
<1>6. \A n \in Nat : f[n] \in V /\ f[n + 1] = Append(f[n], Give(f[n], wanted[Len(f[n]) + 1]))
  <2> HIDE DEF V
  <2> QED
    BY <1>5 DEF Sequel
<1>7. \A n \in Nat : Len(f[n]) = n
  <2> DEFINE T == {n \in Nat : Len(f[n]) = n}
  <2>1. 0 \in T
    BY <1>5 DEF Sequel
  <2>2. ASSUME NEW n \in Nat, n \in T PROVE n + 1 \in T
    <3> DEFINE g == Give(f[n], wanted[Len(f[n]) + 1])
    <3>1. f[n] \in Seq(U) /\ f[n + 1] = Append(f[n], g) /\ Len(f[n]) = n
      BY <1>6, <2>2
    <3> HIDE DEF g
    <3>2. Len(f[n + 1]) = n + 1
      BY <3>1
    <3> QED
      BY <3>2
  <2> HIDE DEF T
  <2>3. Nat \subseteq T
    BY <2>1, <2>2, SetInduction
  <2> QED
    BY <2>3 DEF T
<1>8. ASSUME NEW n \in Nat
      PROVE  f[n] = IF n = 0 THEN <<>> ELSE Append(f[n - 1], Give(f[n - 1], wanted[n]))
  <2>1. CASE n = 0
    BY <1>5, <2>1 DEF Sequel
  <2>2. CASE n # 0
    <3>1. n - 1 \in Nat /\ n - 1 + 1 = n
      BY <2>2
    <3>2. Len(f[n - 1]) + 1 = n
      BY <1>7, <3>1
    <3>3. f[n - 1 + 1] = Append(f[n - 1], Give(f[n - 1], wanted[Len(f[n - 1]) + 1]))
      BY <1>6, <3>1
    <3> QED
      BY <2>2, <3>1, <3>2, <3>3
  <2> QED
    BY <2>1, <2>2
<1>9. f = [n \in Nat |-> IF n = 0 THEN <<>> ELSE Append(f[n - 1], Give(f[n - 1], wanted[n]))]
  <2>1. f = [n \in Nat |-> f[n]]
    BY <1>5 DEF Sequel
  <2> QED
    BY <1>8, <2>1
<1>10. given = [n \in Nat |->
                  IF n = 0 THEN <<>> ELSE Append(given[n - 1], Give(given[n - 1], wanted[n]))]
  BY <1>9
<1>11. /\ GiveOut(free, wanted).numbers = given[last]
       /\ GiveOut(free, wanted).refused =
            \E n \in 1..last : Give(given[n - 1], wanted[n]) \notin Left(given[n - 1])
  BY DEF GiveOut, Give, Left
<1> HIDE DEF given, last
<1>12. /\ given[0] = <<>>
       /\ \A n \in Nat : given[n + 1] = Append(given[n], Give(given[n], wanted[n + 1]))
  <2> DEFINE After(n) == Append(given[n - 1], Give(given[n - 1], wanted[n]))
             g == [n \in Nat |-> IF n = 0 THEN <<>> ELSE After(n)]
  <2>1. given = g
    BY <1>10
  <2>2. g[0] = <<>>
    OBVIOUS
  <2>3. ASSUME NEW n \in Nat
        PROVE  g[n + 1] = Append(given[n], Give(given[n], wanted[n + 1]))
    <3>1. n + 1 \in Nat /\ n + 1 # 0 /\ n + 1 - 1 = n
      OBVIOUS
    <3>2. g[n + 1] = After(n + 1)
      <4> HIDE DEF After
      <4> QED
        BY <3>1
    <3> QED
      BY <3>1, <3>2
  <2> HIDE DEF g
  <2> QED
    BY <2>1, <2>2, <2>3
<1> DEFINE Good(x, n) == /\ x \in Seq(free) /\ Len(x) = n
                         /\ \A i, j \in 1..n : x[i] = x[j] => i = j
           T == {n \in Nat : n <= last => Good(given[n], n)}
<1>13. 0 \in T
  <2>1. <<>> \in Seq(free) /\ Len(<<>>) = 0 /\ 1..0 = {}
    OBVIOUS
  <2>2. Good(<<>>, 0)
    BY <2>1
  <2> HIDE DEF Good
  <2> QED
    BY <1>12, <2>2
<1>14. ASSUME NEW n \in Nat, n \in T
       PROVE  n + 1 \in T
  <2> SUFFICES ASSUME n + 1 <= last
               PROVE  Good(given[n + 1], n + 1)
    OBVIOUS
  <2> DEFINE x == given[n]
             g == Give(x, wanted[n + 1])
             y == given[n + 1]
  <2>1. Good(x, n)
    BY <1>1, <1>14
  <2>2. g \in free \ ToSet(x)
    <3>1. n + 1 \in 1..last /\ n + 1 - 1 = n
      BY <1>1
    <3> QED
      BY <1>11, <3>1 DEF Left
  <2>3. y = Append(x, g)
    BY <1>12
  <2> HIDE DEF x, y, g
  <2>4. \A i \in 1..n : x[i] # g
    <3>1. DOMAIN x = 1..n
      BY <2>1
    <3> QED
      BY <2>2, <3>1 DEF ToSet
  <2>5. /\ y \in Seq(free) /\ Len(y) = n + 1
        /\ \A i \in 1..n : y[i] = x[i]
        /\ y[n + 1] = g
    BY <2>1, <2>2, <2>3
  <2>6. ASSUME NEW i \in 1..(n + 1), NEW j \in 1..(n + 1), y[i] = y[j]
        PROVE  i = j
    <3>1. /\ i = n + 1 \/ i \in 1..n
          /\ j = n + 1 \/ j \in 1..n
      OBVIOUS
    <3> QED
      BY <2>1, <2>4, <2>5, <2>6, <3>1
  <2> QED
    BY <2>5, <2>6 DEF y
<1> HIDE DEF T
<1>15. Nat \subseteq T
  BY <1>13, <1>14, SetInduction
<1>16. Good(given[last], last)
  BY <1>1, <1>15 DEF T
<1>17. ~Repeated(given[last])
  <2>1. DOMAIN given[last] = 1..last
    BY <1>16
  <2> QED
    BY <1>16, <2>1 DEF Repeated
<1> QED
  BY <1>11, <1>16, <1>17 DEF last

-----------------------------------------------------------------------------
(* The sites with two borders.                                              *)

\* The sites that get an identifier: those with two borders or more, each once.
LEMMA SitesMultihomed ==
  ASSUME NEW req \in Requirement, ~Repeated(Column(req.campus.sites))
  PROVE  LET list == MultihomedSites(req)
             n == Len(list)
             Many(s) == Cardinality(BordersAt(req, s.id)) >= 2
         IN  /\ n \in Nat /\ list \in Seq(SiteRecord) /\ DOMAIN list = 1..n
             /\ \A i \in 1..n : list[i] \in ToSet(req.campus.sites) /\ Many(list[i])
             /\ \A i, j \in 1..n : list[i].id = list[j].id => i = j
             /\ \A s \in ToSet(req.campus.sites) : Many(s) => \E i \in 1..n : list[i] = s
<1> DEFINE sites == req.campus.sites
           m == Len(sites)
           Many(s) == Cardinality(BordersAt(req, s.id)) >= 2
           at == {i \in DOMAIN sites : Many(sites[i])}
           n == Cardinality(at)
           rank == Ranked(at)
           list == MultihomedSites(req)
<1>1. sites \in Seq(SiteRecord) /\ m \in Nat /\ DOMAIN sites = 1..m
      /\ \A i \in 1..m : sites[i] \in SiteRecord
  BY RequirementTyped
<1>2. \A i, j \in 1..m : sites[i].id = sites[j].id => i = j
  BY <1>1, ListedOnce
<1>3. at \subseteq 1..m /\ at \subseteq Nat /\ IsFiniteSet(at)
  <2>1. at \in SUBSET (1..m) /\ 1..m \subseteq Nat
    BY <1>1
  <2> HIDE DEF m
  <2>2. IsFiniteSet(1..m)
    BY <1>1, FS_Interval
  <2> HIDE DEF at
  <2> QED
    BY <2>1, <2>2, FS_Subset
<1>4. list = [k \in 1..n |-> sites[rank[k]]]
  BY DEF MultihomedSites
<1>5. \A i \in 1..m : i \in at <=> Many(sites[i])
  BY <1>1
<1> HIDE DEF at, n, rank, m
<1>6. /\ n \in Nat /\ rank \in Seq(at) /\ ToSet(rank) = at /\ Len(rank) = n
      /\ \A i, j \in 1..n : rank[i] = rank[j] => i = j
  BY <1>3, RankedAll DEF n, rank
<1>7. \A k \in 1..n : rank[k] \in at
  BY <1>6
<1>8. \A i \in at : \E k \in 1..n : rank[k] = i
  <2>1. DOMAIN rank = 1..n
    BY <1>6
  <2> QED
    BY <1>6, <2>1 DEF ToSet
<1> HIDE DEF list
<1>9. \A k \in 1..n : list[k] = sites[rank[k]]
  BY <1>4
<1>10. list \in [1..n -> SiteRecord]
  <2>1. \A k \in 1..n : sites[rank[k]] \in SiteRecord
    BY <1>1, <1>3, <1>7
  <2> HIDE DEF sites
  <2> QED
    BY <1>4, <2>1
<1>11. Len(list) = n /\ list \in Seq(SiteRecord) /\ DOMAIN list = 1..n
  BY <1>6, <1>10, Written
<1>12. \A i \in 1..n : list[i] \in ToSet(sites) /\ Many(list[i])
  <2> TAKE i \in 1..n
  <2>1. rank[i] \in 1..m /\ Many(sites[rank[i]])
    BY <1>3, <1>5, <1>7
  <2>2. sites[rank[i]] \in ToSet(sites)
    BY <1>1, <2>1 DEF ToSet
  <2> HIDE DEF Many, sites
  <2> QED
    BY <1>9, <2>1, <2>2
<1>13. ASSUME NEW i \in 1..n, NEW j \in 1..n, list[i].id = list[j].id
       PROVE  i = j
  <2>1. rank[i] \in 1..m /\ rank[j] \in 1..m
    BY <1>3, <1>7
  <2>2. sites[rank[i]].id = sites[rank[j]].id
    BY <1>9, <1>13
  <2>3. rank[i] = rank[j]
    BY <1>2, <2>1, <2>2
  <2> QED
    BY <1>6, <2>3
<1>14. ASSUME NEW s \in ToSet(sites), Many(s)
       PROVE  \E i \in 1..n : list[i] = s
  <2>1. PICK i \in 1..m : s = sites[i]
    BY <1>1 DEF ToSet
  <2>2. i \in at
    BY <1>5, <1>14, <2>1
  <2>3. PICK k \in 1..n : rank[k] = i
    BY <1>8, <2>2
  <2> QED
    BY <1>9, <2>1, <2>3
<1> QED
  BY <1>6, <1>11, <1>12, <1>13, <1>14 DEF list

\* Map servers are nodes with the role, and there is one.
LEMMA LispChecked ==
  ASSUME NEW req \in Requirement, Accepted(req)
  PROVE  LispIssues(DeriveIntent(req)) = {}
<1> DEFINE int == DeriveIntent(req)
           servers == WithRole(req.devices, "control_plane")
           D1 == int.lisp.servers = {}
           D2 == ~(int.lisp.servers \subseteq Ids(int.devices))
           raised == {Raise(D1, "lisp.map_servers.empty"), Raise(D2, "reference.map_server")}
<1>1. LispIssues(int) = UNION raised
  BY DEF LispIssues
<1>2. int.lisp.servers = servers
  <2>1. int.lisp = DeriveLisp(req)
    BY IntentFields
  <2> HIDE DEF int
  <2> QED
    BY <2>1 DEF DeriveLisp
<1>3. servers # {} /\ ~Repeated(Column(req.devices))
  BY DEF Accepted, RolesAccepted, DevicesAccepted
<1>4. servers \subseteq Ids(int.devices)
  BY <1>3, RolesDerived, DevicesDerived, IntentFields
<1> HIDE DEF int, servers
<1>5. ~D1 /\ ~D2
  BY <1>2, <1>3, <1>4
<1> HIDE DEF D1, D2
<1>6. (\A r \in raised : r = {}) <=> ~D1 /\ ~D2
  BY DEF Raise
<1> HIDE DEF raised
<1>7. LispIssues(int) = {}
  BY <1>1, <1>5, <1>6, UnionEmpty
<1> QED
  BY <1>7 DEF int

\* The multihoming groups that are derived: a number and the borders for each site.
LEMMA GroupsDerived ==
  ASSUME NEW req \in Requirement, Accepted(req), Pubsub(req)
  PROVE  LET list == DeriveLisp(req).groups
             n == Len(MultihomedSites(req))
         IN  /\ n \in Nat /\ DOMAIN list = 1..n
             /\ \A i \in 1..n :
                  /\ list[i].site \in Ids(req.campus.sites)
                  /\ list[i].borders = BordersAt(req, list[i].site)
                  /\ Cardinality(list[i].borders) >= 2
             /\ \A i, j \in 1..n : list[i].site = list[j].site => i = j
             /\ \A i, j \in 1..n : list[i].number = list[j].number => i = j
             /\ \A s \in Ids(req.campus.sites) :
                  Cardinality(BordersAt(req, s)) >= 2 => \E i \in 1..n : list[i].site = s
<1> DEFINE sites == MultihomedSites(req)
           n == Len(sites)
           wanted == [i \in DOMAIN sites |-> sites[i].group]
           numbers == GroupIds(req).numbers
           list == DeriveLisp(req).groups
           Many(s) == Cardinality(BordersAt(req, s.id)) >= 2
<1>1. ~Repeated(Column(req.campus.sites)) /\ ~GroupIds(req).refused
  BY DEF Accepted, CampusAccepted, SitesAccepted, IdentitiesAccepted
<1>2. /\ n \in Nat /\ sites \in Seq(SiteRecord) /\ DOMAIN sites = 1..n
      /\ \A i \in 1..n : sites[i] \in ToSet(req.campus.sites) /\ Many(sites[i])
      /\ \A i, j \in 1..n : sites[i].id = sites[j].id => i = j
      /\ \A s \in ToSet(req.campus.sites) : Many(s) => \E i \in 1..n : sites[i] = s
  BY <1>1, SitesMultihomed
<1>3. /\ req.campus.sites \in Seq(SiteRecord)
      /\ \A s \in ToSet(req.campus.sites) : s.id \in Ids(req.campus.sites)
      /\ \A id \in Ids(req.campus.sites) : \E s \in ToSet(req.campus.sites) : s.id = id
  BY RequirementTyped DEF Ids, ToSet
<1>4. GroupIds(req) = GiveOut(GroupFree, wanted)
  BY DEF GroupIds
<1>5. list = [i \in DOMAIN sites |->
                [site |-> sites[i].id, number |-> numbers[i],
                 borders |-> BordersAt(req, sites[i].id)]]
  BY DEF DeriveLisp
<1> HIDE DEF sites, n
<1>6. wanted \in Seq(Nat \cup {None}) /\ Len(wanted) = n
  <2>1. \A i \in 1..n : sites[i] \in SiteRecord
    BY <1>2
  <2>2. wanted \in [1..n -> Nat \cup {None}]
    BY <1>2, <2>1 DEF SiteRecord
  <2> HIDE DEF wanted
  <2> QED
    BY <1>2, <2>2, Written
<1> HIDE DEF wanted
<1>7. numbers \in Seq(GroupFree) /\ Len(numbers) = n /\ ~Repeated(numbers)
  <2>1. GroupFree \subseteq Nat /\ IsFiniteSet(GroupFree)
    BY FreeAssumption
  <2> QED
    BY <1>1, <1>4, <1>6, <2>1, GivenOut
<1>8. \A i, j \in 1..n : numbers[i] = numbers[j] => i = j
  BY <1>2, <1>7, Distinct
<1> HIDE DEF numbers, list
<1>9. /\ DOMAIN list = 1..n
      /\ \A i \in 1..n : /\ list[i].site = sites[i].id /\ list[i].number = numbers[i]
                         /\ list[i].borders = BordersAt(req, sites[i].id)
  BY <1>2, <1>5
<1>10. \A i \in 1..n : list[i].site \in Ids(req.campus.sites)
  BY <1>2, <1>3, <1>9
<1>11. \A i \in 1..n : /\ list[i].borders = BordersAt(req, list[i].site)
                       /\ Cardinality(list[i].borders) >= 2
  BY <1>2, <1>9
<1>12. \A s \in Ids(req.campus.sites) :
         Cardinality(BordersAt(req, s)) >= 2 => \E i \in 1..n : list[i].site = s
  <2> SUFFICES ASSUME NEW s \in Ids(req.campus.sites), Cardinality(BordersAt(req, s)) >= 2
               PROVE  \E i \in 1..n : list[i].site = s
    OBVIOUS
  <2>1. PICK x \in ToSet(req.campus.sites) : x.id = s
    BY <1>3
  <2>2. PICK i \in 1..n : sites[i] = x
    BY <1>2, <2>1
  <2> QED
    BY <1>9, <2>1, <2>2
<1>13. \A i, j \in 1..n : list[i].number = list[j].number => i = j
  BY <1>8, <1>9
<1>14. \A i, j \in 1..n : list[i].site = list[j].site => i = j
  BY <1>2, <1>9
<1> QED
  BY <1>2, <1>9, <1>10, <1>11, <1>12, <1>13, <1>14 DEF list, n, sites

\* The borders at the sites: what the validator expects is what is derived.
LEMMA GroupsExpected ==
  ASSUME NEW req \in Requirement, Accepted(req), Pubsub(req)
  PROVE  LET int == DeriveIntent(req)
             used == {d.site : d \in {x \in ToSet(req.devices) :
                                        Cardinality(BordersAt(req, x.site)) >= 2}}
         IN  /\ ExpectedGroups(int) = {<<s, BordersAt(req, s)>> : s \in used}
             /\ used \subseteq Ids(req.campus.sites)
             /\ \A s : Cardinality(BordersAt(req, s)) >= 2 => s \in used
<1> DEFINE int == DeriveIntent(req)
           Many(s) == Cardinality(BordersAt(req, s)) >= 2
           used == {d.site : d \in {x \in ToSet(req.devices) : Many(x.site)}}
           borders(site) == {b \in BordersOf(int) \cap int.lisp.subscribers :
                               SiteOf(int, b) = site}
           found == {d.site : d \in {x \in ToSet(int.devices) :
                                       Cardinality(borders(x.site)) >= 2}}
<1>0. Pubsub(req)
  OBVIOUS
<1>1. /\ ~Repeated(Column(req.devices)) /\ UsedSites(req) \subseteq Ids(req.campus.sites)
  BY DEF Accepted, CampusAccepted, DevicesAccepted
<1>2. int.lisp.subscribers = WithRole(req.devices, "border")
  <2>1. int.lisp = DeriveLisp(req)
    BY IntentFields
  <2> HIDE DEF int
  <2> QED
    BY <1>0, <2>1 DEF DeriveLisp
<1>3. /\ BordersOf(int) = WithRole(req.devices, "border")
      /\ WithRole(req.devices, "border") \subseteq Ids(req.devices)
      /\ \A d \in Ids(req.devices) : SiteOf(int, d) = Entry(req.devices, d).site
  BY <1>1, RolesDerived
<1> HIDE DEF int
<1>4. \A site : borders(site) = BordersAt(req, site)
  BY <1>2, <1>3 DEF BordersAt
<1>5. ExpectedGroups(int) = {<<site, borders(site)>> : site \in found}
  BY DEF ExpectedGroups
<1> HIDE DEF borders
<1>6. used = found
  <2> DEFINE n == Len(req.devices)
             list == int.devices
             old == req.devices
  <2>1. /\ n \in Nat /\ ToSet(list) = {list[i] : i \in 1..n}
        /\ \A i \in 1..n : list[i].site = old[i].site
    <3>1. list = DeriveDevices(req)
      BY IntentFields DEF int
    <3> HIDE DEF list
    <3> QED
      BY <3>1, DevicesDerived
  <2>2. ToSet(old) = {old[i] : i \in 1..n}
    <3>1. old \in Seq(DeviceRecord)
      BY RequirementTyped
    <3> HIDE DEF old
    <3> QED
      BY <3>1, Listed DEF n, old
  <2>3. found = {d.site : d \in {x \in ToSet(list) : Many(x.site)}}
    BY <1>4
  <2> HIDE DEF Many, found, n, list, old
  <2>4. used = {old[i].site : i \in {j \in 1..n : Many(old[j].site)}}
    BY <2>2 DEF old
  <2>5. found = {list[i].site : i \in {j \in 1..n : Many(list[j].site)}}
    BY <2>1, <2>3
  <2> HIDE DEF used
  <2> QED
    BY <2>1, <2>4, <2>5
<1>7. used \subseteq Ids(req.campus.sites)
  BY <1>1 DEF UsedSites
<1>8. ASSUME NEW s, Many(s)
      PROVE  s \in used
  <2>1. BordersAt(req, s) # {}
    BY <1>8, FS_EmptySet
  <2>2. PICK b \in WithRole(req.devices, "border") : Entry(req.devices, b).site = s
    BY <2>1 DEF BordersAt
  <2>3. b \in Ids(req.devices)
    BY <1>3
  <2>4. PICK i \in 1..Len(req.devices) : Entry(req.devices, b) = req.devices[i]
    BY <1>1, <2>3, RequirementTyped, EntryListed
  <2>5. req.devices[i] \in ToSet(req.devices)
    BY RequirementTyped, Listed
  <2> QED
    BY <1>8, <2>2, <2>4, <2>5
<1>9. ExpectedGroups(int) = {<<s, BordersAt(req, s)>> : s \in used}
  <2> HIDE DEF used, found
  <2> QED
    BY <1>4, <1>5, <1>6
<1> HIDE DEF used
<1> QED
  BY <1>7, <1>8, <1>9 DEF used, int

\* The publishers, the subscribers and the multihoming groups of an accepted design
\* are what validate_intent expects.
LEMMA PubsubChecked ==
  ASSUME NEW req \in Requirement, Accepted(req), Pubsub(req)
  PROVE  PubsubIssues(DeriveIntent(req)) = {}
<1> DEFINE int == DeriveIntent(req)
           lisp == int.lisp
           list == lisp.groups
           n == Len(MultihomedSites(req))
           groups == {<<g.site, g.borders>> : g \in ToSet(list)}
           sites == {g[1] : g \in ExpectedGroups(int)}
           used == {d.site : d \in {x \in ToSet(req.devices) :
                                      Cardinality(BordersAt(req, x.site)) >= 2}}
           D1 == lisp.publishers # lisp.servers
           D2 == \E d \in lisp.publishers : ~HasRole(int, d, "control_plane")
           D3 == \E d \in lisp.subscribers : ~HasRole(int, d, "border")
           D4 == lisp.subscribers # BordersOf(int)
           D5 == Repeated([i \in DOMAIN list |-> list[i].site])
           D6 == Repeated([i \in DOMAIN list |-> list[i].number])
           D7 == \E g \in ToSet(list) : \E b \in g.borders : ~HasRole(int, b, "border")
           D8 == \E g \in ToSet(list) : \E b \in g.borders :
                   HasRole(int, b, "border") /\ SiteOf(int, b) # g.site
           D9 == \E s \in sites : \A g \in ToSet(list) : g.site # s
           D10 == \E g \in groups : g[1] \in sites /\ g \notin ExpectedGroups(int)
           D11 == \E g \in groups : g[1] \notin sites
           raised == {
             Raise(D1, "lisp.pubsub.publishers"),
             Raise(D2, "lisp.publisher.not_control_plane"),
             Raise(D3, "lisp.subscriber.not_border"), Raise(D4, "lisp.pubsub.subscribers"),
             Raise(D5, "duplicate LISP multihoming site"),
             Raise(D6, "duplicate LISP multihoming id"),
             Raise(D7, "lisp.multihoming.member.not_border"),
             Raise(D8, "lisp.multihoming.member.wrong_site"),
             Raise(D9, "lisp.multihoming.group.missing"),
             Raise(D10, "lisp.multihoming.group.membership"),
             Raise(D11, "lisp.multihoming.group.unexpected")}
<1>0. Pubsub(req) /\ Accepted(req)
  OBVIOUS
<1>1. PubsubIssues(int) = UNION raised
  BY DEF PubsubIssues
<1>2. ~Repeated(Column(req.devices))
  BY DEF Accepted, DevicesAccepted
<1>3. /\ BordersOf(int) = WithRole(req.devices, "border")
      /\ \A role : WithRole(req.devices, role) \subseteq Ids(req.devices)
      /\ \A d \in Ids(req.devices) : SiteOf(int, d) = Entry(req.devices, d).site
      /\ \A d, role : HasRole(int, d, role) <=> d \in WithRole(req.devices, role)
  BY <1>2, RolesDerived
<1>4. /\ ExpectedGroups(int) = {<<s, BordersAt(req, s)>> : s \in used}
      /\ used \subseteq Ids(req.campus.sites)
      /\ \A s : Cardinality(BordersAt(req, s)) >= 2 => s \in used
      /\ \A s \in used : Cardinality(BordersAt(req, s)) >= 2
  <2>1. \A s \in used : Cardinality(BordersAt(req, s)) >= 2
    OBVIOUS
  <2> QED
    BY <1>0, <2>1, GroupsExpected
<1>5. lisp = DeriveLisp(req)
  BY IntentFields
<1> HIDE DEF int
<1>6. /\ lisp.publishers = WithRole(req.devices, "control_plane")
      /\ lisp.servers = WithRole(req.devices, "control_plane")
      /\ lisp.subscribers = WithRole(req.devices, "border")
  <2> HIDE DEF lisp
  <2> QED
    BY <1>0, <1>5 DEF DeriveLisp
<1>7. /\ n \in Nat /\ DOMAIN list = 1..n
      /\ \A i \in 1..n :
           /\ list[i].site \in Ids(req.campus.sites)
           /\ list[i].borders = BordersAt(req, list[i].site)
           /\ Cardinality(list[i].borders) >= 2
      /\ \A i, j \in 1..n : list[i].site = list[j].site => i = j
      /\ \A i, j \in 1..n : list[i].number = list[j].number => i = j
      /\ \A s \in Ids(req.campus.sites) :
           Cardinality(BordersAt(req, s)) >= 2 => \E i \in 1..n : list[i].site = s
  <2> HIDE DEF lisp
  <2> QED
    BY <1>0, <1>5, GroupsDerived
<1> HIDE DEF lisp, list, n, used
<1>8. /\ \A g \in ToSet(list) : \E i \in 1..n : g = list[i]
      /\ \A i \in 1..n : list[i] \in ToSet(list)
  BY <1>7 DEF ToSet
<1>9. ~D1 /\ ~D2 /\ ~D3 /\ ~D4
  BY <1>3, <1>6
<1>10. ~D5
  <2> DEFINE s == [i \in DOMAIN list |-> list[i].site]
  <2>1. DOMAIN s = 1..n /\ \A i \in 1..n : s[i] = list[i].site
    BY <1>7
  <2> HIDE DEF s
  <2>2. ~Repeated(s)
    BY <1>7, <2>1, Distinct
  <2> QED
    BY <2>2 DEF s
<1>11. ~D6
  <2> DEFINE s == [i \in DOMAIN list |-> list[i].number]
  <2>1. DOMAIN s = 1..n /\ \A i \in 1..n : s[i] = list[i].number
    BY <1>7
  <2> HIDE DEF s
  <2>2. ~Repeated(s)
    BY <1>7, <2>1, Distinct
  <2> QED
    BY <2>2 DEF s
<1>12. ASSUME NEW g \in ToSet(list)
       PROVE  /\ g.borders = BordersAt(req, g.site) /\ Cardinality(g.borders) >= 2
              /\ g.site \in used
              /\ \A b \in g.borders : HasRole(int, b, "border") /\ SiteOf(int, b) = g.site
  <2>1. PICK i \in 1..n : g = list[i]
    BY <1>8
  <2>2. g.borders = BordersAt(req, g.site) /\ Cardinality(g.borders) >= 2
    BY <1>7, <2>1
  <2>3. g.site \in used
    BY <1>4, <2>2
  <2>4. \A b \in BordersAt(req, g.site) : HasRole(int, b, "border") /\ SiteOf(int, b) = g.site
    BY <1>3 DEF BordersAt
  <2> QED
    BY <2>2, <2>3, <2>4
<1>13. ~D7 /\ ~D8
  BY <1>12
<1>14. sites = used
  <2> DEFINE E == ExpectedGroups(int)
  <2>1. \A g \in E : \E s \in used : g = <<s, BordersAt(req, s)>>
    BY <1>4
  <2>2. \A s \in used : <<s, BordersAt(req, s)>> \in E
    BY <1>4
  <2> HIDE DEF E
  <2>3. \A g \in E : g[1] \in used
    BY <2>1
  <2>4. \A s \in used : \E g \in E : g[1] = s
    BY <2>2
  <2>5. sites = {g[1] : g \in E}
    BY DEF E
  <2> HIDE DEF sites
  <2> QED
    BY <2>3, <2>4, <2>5
<1> HIDE DEF sites
<1>15. ~D9
  <2>1. \A s \in used : \E i \in 1..n : list[i].site = s
    BY <1>4, <1>7
  <2> QED
    BY <1>8, <1>14, <2>1
<1>16. ASSUME NEW g \in groups
       PROVE  g[1] \in used /\ g \in ExpectedGroups(int)
  <2>1. PICK x \in ToSet(list) : g = <<x.site, x.borders>>
    OBVIOUS
  <2> QED
    BY <1>4, <1>12, <2>1
<1>17. ~D10 /\ ~D11
  <2> HIDE DEF groups
  <2> QED
    BY <1>14, <1>16
<1> HIDE DEF D1, D2, D3, D4, D5, D6, D7, D8, D9, D10, D11
<1>18. (\A r \in raised : r = {}) <=>
         /\ ~D1 /\ ~D2 /\ ~D3 /\ ~D4 /\ ~D5 /\ ~D6 /\ ~D7 /\ ~D8 /\ ~D9
         /\ ~D10 /\ ~D11
  BY RaisesNothing
<1> HIDE DEF raised
<1>19. PubsubIssues(int) = {}
  BY <1>1, <1>9, <1>10, <1>11, <1>13, <1>15, <1>17, <1>18, UnionEmpty
<1> QED
  BY <1>19 DEF int

-----------------------------------------------------------------------------
(* Who peers with whom.                                                     *)

\* Who peers with whom.
Peering == [border : Nat, fusion : Nat \cup {None}, vrf : STRING, asn : Nat \cup {None}]

\* vrf_by_network: where no two networks get one name, the VRF of that network.
LEMMA VrfFound ==
  ASSUME NEW req \in Requirement, ~Repeated(Column(req.networks))
  PROVE  /\ \A x \in NetworkIds(req) : \E i \in 1..Len(req.networks) :
              req.networks[i].id = x /\ VrfOf(req, x) = req.networks[i].vrf
         /\ \A x \in NetworkIds(req) : VrfOf(req, x) \in Vrfs(req) /\ VrfOf(req, x) \in STRING
         /\ \A v \in Vrfs(req) : \E x \in NetworkIds(req) : VrfOf(req, x) = v
         /\ NetworkIds(req) \subseteq Nat /\ IsFiniteSet(NetworkIds(req))
         /\ IsFiniteSet(Vrfs(req)) /\ Vrfs(req) # {} /\ Vrfs(req) \subseteq STRING
<1> DEFINE list == req.networks
           n == Len(list)
<1>1. list \in Seq(NetworkRecord) /\ n \in Nat \ {0}
  BY RequirementTyped
<1> HIDE DEF list, n
<1>2. /\ DOMAIN list = 1..n /\ IsFiniteSet(1..n)
      /\ \A i \in 1..n : list[i] \in NetworkRecord
      /\ ToSet(list) = {list[i] : i \in 1..n}
      /\ Ids(list) = {list[i].id : i \in 1..n}
  BY <1>1, Listed DEF n
<1>3. NetworkIds(req) = {list[i].id : i \in 1..n} /\ Vrfs(req) = {list[i].vrf : i \in 1..n}
  BY <1>2 DEF NetworkIds, Vrfs, list
<1>4. \A i \in 1..n : list[i].id \in Nat /\ list[i].vrf \in STRING
  BY <1>2 DEF NetworkRecord
<1>5. IsFiniteSet(NetworkIds(req)) /\ IsFiniteSet(Vrfs(req))
  <2> DEFINE f == [i \in 1..n |-> list[i].id]
             g == [i \in 1..n |-> list[i].vrf]
  <2>1. NetworkIds(req) = {f[i] : i \in 1..n} /\ Vrfs(req) = {g[i] : i \in 1..n}
    BY <1>3
  <2> HIDE DEF f, g
  <2>2. \A h : IsFiniteSet({h[i] : i \in 1..n})
    BY <1>2, ImageFinite
  <2> QED
    BY <2>1, <2>2
<1>6. ASSUME NEW i \in 1..n
      PROVE  VrfOf(req, list[i].id) = list[i].vrf
  <2> DEFINE id == list[i].id
             I == {k \in 1..n : list[k].id = id}
  <2>1. I = {i}
    BY <1>1, ListedOnce DEF list, n
  <2>2. Max(I) = i /\ I # {}
    BY <1>1, <2>1, MaxOfOne
  <2>3. SelectLastInSeq(list, LAMBDA x : x.id = id) = i
    BY <2>2 DEF SelectLastInSeq, n
  <2> QED
    BY <2>3 DEF VrfOf, list
<1>7. 1 \in 1..n
  BY <1>1
<1>8. \A x \in NetworkIds(req) : \E i \in 1..n : list[i].id = x /\ VrfOf(req, x) = list[i].vrf
  BY <1>3, <1>6
<1>9. \A v \in Vrfs(req) : \E x \in NetworkIds(req) : VrfOf(req, x) = v
  BY <1>3, <1>6
<1>10. NetworkIds(req) \subseteq Nat /\ Vrfs(req) \subseteq STRING /\ Vrfs(req) # {}
  BY <1>3, <1>4, <1>7
<1>11. \A x \in NetworkIds(req) : VrfOf(req, x) \in Vrfs(req)
  BY <1>3, <1>8
<1>12. \A x \in NetworkIds(req) : VrfOf(req, x) \in STRING
  BY <1>10, <1>11
<1> QED
  BY <1>5, <1>8, <1>9, <1>10, <1>11, <1>12 DEF n, list

\* Schema 1.2: the networks of every adjacency, one by one.
LEMMA PeeringsCarried ==
  ASSUME NEW req \in Requirement, ~Repeated(Column(req.networks)), req.schema = "1.2",
         FusionAccepted(req), AdjacenciesAccepted(req)
  PROVE  LET P == Peerings(req)
             list == req.handoff.adjacencies
             Of(p, a, x) == /\ p.border = a.border /\ p.fusion = a.fusion
                            /\ p.vrf = VrfOf(req, x)
                            /\ p.asn = Entry(req.fusion, a.fusion).asn
         IN  /\ P \in Seq(Peering)
             /\ \A k \in 1..Len(P) : \E a \in ToSet(list) : \E x \in Carried(req, a) :
                  Of(P[k], a, x)
             /\ \A a \in ToSet(list) : \A x \in Carried(req, a) : \E k \in 1..Len(P) :
                  Of(P[k], a, x)
<1> DEFINE P == Peerings(req)
           list == req.handoff.adjacencies
           m == Len(list)
           Of(p, a, x) == /\ p.border = a.border /\ p.fusion = a.fusion
                          /\ p.vrf = VrfOf(req, x)
                          /\ p.asn = Entry(req.fusion, a.fusion).asn
           over(i) == Ranked(Carried(req, list[i]))
           asn(i) == Entry(req.fusion, list[i].fusion).asn
           at(i, j) == [border |-> list[i].border, fusion |-> list[i].fusion,
                        vrf |-> VrfOf(req, over(i)[j]), asn |-> asn(i)]
           row(i) == [j \in DOMAIN over(i) |-> at(i, j)]
           rows == [i \in DOMAIN list |-> row(i)]
           A == [border : Nat, fusion : Nat, networks : SUBSET Nat \cup {None}]
<1>1. list \in Seq(A)
  BY RequirementTyped DEF HandoffRecord
<1>2. P = FlattenSeq(rows)
  BY DEF Peerings
<1>3. /\ \A a \in ToSet(list) : /\ a.border \in WithRole(req.devices, "border")
                                /\ a.fusion \in Ids(req.fusion)
                                /\ Carried(req, a) \subseteq NetworkIds(req)
      /\ ~Repeated(Column(req.fusion))
  BY DEF AdjacenciesAccepted, FusionAccepted
<1> HIDE DEF list
<1>4. /\ m \in Nat /\ DOMAIN list = 1..m /\ ToSet(list) = {list[i] : i \in 1..m}
      /\ \A i \in 1..m : list[i].border \in Nat /\ list[i].fusion \in Nat
  <2> HIDE DEF A
  <2>1. /\ m \in Nat /\ DOMAIN list = 1..m /\ ToSet(list) = {list[i] : i \in 1..m}
        /\ \A i \in 1..m : list[i] \in A
    BY <1>1, Listed
  <2> QED
    BY <2>1 DEF A
<1> HIDE DEF A, P, m, over, asn
<1>5. \A i \in 1..m : asn(i) \in Nat
  <2> TAKE i \in 1..m
  <2>1. list[i].fusion \in Ids(req.fusion) /\ req.fusion \in Seq(FusionRecord)
    BY <1>3, <1>4, RequirementTyped
  <2>2. PICK k \in 1..Len(req.fusion) : Entry(req.fusion, list[i].fusion) = req.fusion[k]
    BY <1>3, <2>1, EntryListed
  <2>3. req.fusion[k] \in FusionRecord
    BY <2>1
  <2> QED
    BY <2>2, <2>3 DEF asn, FusionRecord
<1>6. ASSUME NEW i \in 1..m
      PROVE  /\ over(i) \in Seq(NetworkIds(req)) /\ ToSet(over(i)) = Carried(req, list[i])
             /\ Len(over(i)) \in Nat /\ DOMAIN over(i) = 1..Len(over(i))
  <2> DEFINE S == Carried(req, list[i])
             r == Ranked(S)
  <2>1. S \in SUBSET NetworkIds(req)
    BY <1>3, <1>4
  <2> HIDE DEF S
  <2>2. IsFiniteSet(S) /\ S \subseteq Nat
    BY <2>1, VrfFound, FS_Subset
  <2>3. r \in Seq(S) /\ ToSet(r) = S
    BY <2>2, RankedAll
  <2> HIDE DEF r
  <2>4. r \in Seq(NetworkIds(req)) /\ Len(r) \in Nat /\ DOMAIN r = 1..Len(r)
    BY <2>1, <2>3
  <2> QED
    BY <2>3, <2>4 DEF r, S, over
<1>7. ASSUME NEW i \in 1..m
      PROVE  /\ row(i) \in Seq(Peering) /\ Len(row(i)) = Len(over(i))
             /\ \A j \in 1..Len(over(i)) : Of(row(i)[j], list[i], over(i)[j])
  <2> DEFINE k == Len(over(i))
             r == row(i)
  <2>1. \A j \in 1..k : over(i)[j] \in NetworkIds(req)
    BY <1>6
  <2>2. \A j \in 1..k : VrfOf(req, over(i)[j]) \in STRING
    BY <2>1, VrfFound
  <2>3. \A j \in 1..k : at(i, j) \in Peering /\ Of(at(i, j), list[i], over(i)[j])
    BY <1>4, <1>5, <2>2 DEF Peering, asn
  <2>4. r = [j \in 1..k |-> at(i, j)]
    BY <1>6
  <2> HIDE DEF at, k, r
  <2>5. r \in [1..k -> Peering]
    BY <2>3, <2>4
  <2>6. Len(r) = k /\ r \in Seq(Peering)
    BY <1>6, <2>5, Written DEF k
  <2>7. \A j \in 1..k : Of(r[j], list[i], over(i)[j])
    BY <2>3, <2>4
  <2> QED
    BY <2>6, <2>7 DEF r, k
<1> HIDE DEF row
<1>8. rows \in Seq(Seq(Peering)) /\ Len(rows) = m /\ \A i \in 1..m : rows[i] = row(i)
  BY <1>4, <1>7
<1> HIDE DEF rows
<1>9. P \in Seq(Peering) /\ Gathers(P, rows, m)
  BY <1>2, <1>8, FlattenGathers
<1> HIDE DEF Of
<1>10. ASSUME NEW k \in 1..Len(P)
       PROVE  \E a \in ToSet(list) : \E x \in Carried(req, a) : Of(P[k], a, x)
  <2>1. PICK i \in 1..m : \E j \in 1..Len(rows[i]) : P[k] = rows[i][j]
    BY <1>9 DEF Gathers
  <2>2. PICK j \in 1..Len(over(i)) : P[k] = row(i)[j]
    BY <1>7, <1>8, <2>1
  <2>3. over(i)[j] \in Carried(req, list[i]) /\ list[i] \in ToSet(list)
    BY <1>4, <1>6 DEF ToSet
  <2> QED
    BY <1>7, <2>2, <2>3
<1>11. ASSUME NEW a \in ToSet(list), NEW x \in Carried(req, a)
       PROVE  \E k \in 1..Len(P) : Of(P[k], a, x)
  <2>1. PICK i \in 1..m : a = list[i]
    BY <1>4
  <2>2. PICK j \in 1..Len(over(i)) : over(i)[j] = x
    BY <1>6, <2>1 DEF ToSet
  <2>3. \A l \in 1..Len(rows[i]) : \E k \in 1..Len(P) : P[k] = rows[i][l]
    BY <1>9 DEF Gathers
  <2>4. PICK k \in 1..Len(P) : P[k] = row(i)[j]
    BY <1>7, <1>8, <2>3
  <2> QED
    BY <1>7, <2>1, <2>2, <2>4
<1> QED
  BY <1>9, <1>10, <1>11 DEF P, Of, list

\* A finite set in some order: all of it.
LEMMA SetListed ==
  ASSUME NEW S, IsFiniteSet(S)
  PROVE  SetToSeq(S) \in Seq(S) /\ ToSet(SetToSeq(S)) = S
<1> DEFINE c == Cardinality(S)
           F == {f \in [1..c -> S] : IsInjective(f)}
           s == SetToSeq(S)
<1>1. c \in Nat /\ ExistsBijection(1..c, S)
  BY FS_CardinalityType
<1>2. F # {}
  <2>1. PICK f : f \in Bijection(1..c, S)
    BY <1>1 DEF ExistsBijection
  <2>2. f \in F
    BY <2>1 DEF Bijection, Injection
  <2> QED
    BY <2>2
<1> HIDE DEF c
<1>3. s = CHOOSE f \in [1..c -> S] : IsInjective(f)
  BY DEF SetToSeq, c
<1>4. s \in F
  <2> HIDE DEF s
  <2> QED
    BY <1>2, <1>3
<1> HIDE DEF s
<1>5. s \in Injection(1..c, S) /\ s \in [1..c -> S]
  BY <1>4 DEF Injection
<1>6. Cardinality(1..c) = c
  BY <1>1, FS_Interval
<1>7. s \in Surjection(1..c, S)
  BY <1>5, <1>6, FS_Injection DEF c
<1>8. ToSet(s) = S
  BY <1>5, <1>7 DEF Surjection, ToSet
<1>9. s \in Seq(S)
  BY <1>1, <1>5, Written
<1> QED
  BY <1>8, <1>9 DEF s

\* Before schema 1.2: every border in every VRF.
LEMMA PeeringsCrossed ==
  ASSUME NEW req \in Requirement, ~Repeated(Column(req.networks)), req.schema # "1.2",
         ~Repeated(Column(req.devices))
  PROVE  LET P == Peerings(req)
             B == WithRole(req.devices, "border")
         IN  /\ P \in Seq(Peering)
             /\ \A k \in 1..Len(P) : P[k].border \in B /\ P[k].vrf \in Vrfs(req)
             /\ \A b \in B, v \in Vrfs(req) : \E k \in 1..Len(P) :
                  P[k].border = b /\ P[k].vrf = v
<1> DEFINE P == Peerings(req)
           B == WithRole(req.devices, "border")
           borders == Ranked(B)
           vrfs == SetToSeq(Vrfs(req))
           m == Len(borders)
           w == Len(vrfs)
           at(i, j) == [border |-> borders[i], fusion |-> None, vrf |-> vrfs[j],
                        asn |-> req.handoff.remoteAs]
           row(i) == [j \in DOMAIN vrfs |-> at(i, j)]
           rows == [i \in DOMAIN borders |-> row(i)]
<1>1. P = FlattenSeq(rows)
  BY DEF Peerings
<1>2. B \subseteq Nat /\ IsFiniteSet(B)
  <2>1. B \in SUBSET Ids(req.devices) /\ IsFiniteSet(Ids(req.devices))
        /\ Ids(req.devices) \subseteq Nat
    BY RolesDerived
  <2> HIDE DEF B
  <2> QED
    BY <2>1, FS_Subset
<1>3. req.handoff.remoteAs \in Nat \cup {None}
  BY RequirementTyped DEF HandoffRecord
<1> HIDE DEF B, P
<1>4. /\ borders \in Seq(B) /\ ToSet(borders) = B /\ m \in Nat /\ DOMAIN borders = 1..m
      /\ \A i \in 1..m : borders[i] \in B /\ borders[i] \in Nat
  <2>1. borders \in Seq(B) /\ ToSet(borders) = B
    BY <1>2, RankedAll
  <2> HIDE DEF borders
  <2>2. m \in Nat /\ DOMAIN borders = 1..m /\ \A i \in 1..m : borders[i] \in B
    BY <2>1
  <2> HIDE DEF m
  <2> QED
    BY <1>2, <2>1, <2>2
<1>5. /\ vrfs \in Seq(Vrfs(req)) /\ ToSet(vrfs) = Vrfs(req) /\ w \in Nat /\ DOMAIN vrfs = 1..w
      /\ \A j \in 1..w : vrfs[j] \in Vrfs(req) /\ vrfs[j] \in STRING
  <2>1. vrfs \in Seq(Vrfs(req)) /\ ToSet(vrfs) = Vrfs(req) /\ Vrfs(req) \subseteq STRING
    BY VrfFound, SetListed
  <2> HIDE DEF vrfs
  <2> QED
    BY <2>1
<1> HIDE DEF borders, vrfs, m, w
<1>6. ASSUME NEW i \in 1..m
      PROVE  /\ row(i) \in Seq(Peering) /\ Len(row(i)) = w
             /\ \A j \in 1..w : row(i)[j].border = borders[i] /\ row(i)[j].vrf = vrfs[j]
  <2> DEFINE r == row(i)
  <2>1. \A j \in 1..w : /\ at(i, j) \in Peering
                        /\ at(i, j).border = borders[i] /\ at(i, j).vrf = vrfs[j]
    BY <1>3, <1>4, <1>5 DEF Peering
  <2>2. r = [j \in 1..w |-> at(i, j)]
    BY <1>5
  <2> HIDE DEF at, r
  <2>3. r \in [1..w -> Peering]
    BY <2>1, <2>2
  <2>4. Len(r) = w /\ r \in Seq(Peering)
    BY <1>5, <2>3, Written
  <2>5. \A j \in 1..w : r[j].border = borders[i] /\ r[j].vrf = vrfs[j]
    BY <2>1, <2>2
  <2> QED
    BY <2>4, <2>5 DEF r
<1> HIDE DEF row
<1>7. rows \in Seq(Seq(Peering)) /\ Len(rows) = m /\ \A i \in 1..m : rows[i] = row(i)
  BY <1>4, <1>6
<1> HIDE DEF rows
<1>8. P \in Seq(Peering) /\ Gathers(P, rows, m)
  BY <1>1, <1>7, FlattenGathers
<1>9. ASSUME NEW k \in 1..Len(P)
      PROVE  P[k].border \in B /\ P[k].vrf \in Vrfs(req)
  <2>1. PICK i \in 1..m : \E j \in 1..Len(rows[i]) : P[k] = rows[i][j]
    BY <1>8 DEF Gathers
  <2>2. PICK j \in 1..w : P[k] = row(i)[j]
    BY <1>6, <1>7, <2>1
  <2> QED
    BY <1>4, <1>5, <1>6, <2>2
<1>10. ASSUME NEW b \in B, NEW v \in Vrfs(req)
       PROVE  \E k \in 1..Len(P) : P[k].border = b /\ P[k].vrf = v
  <2>1. PICK i \in 1..m : borders[i] = b
    BY <1>4 DEF ToSet
  <2>2. PICK j \in 1..w : vrfs[j] = v
    BY <1>5 DEF ToSet
  <2>3. \A l \in 1..Len(rows[i]) : \E k \in 1..Len(P) : P[k] = rows[i][l]
    BY <1>8 DEF Gathers
  <2>4. PICK k \in 1..Len(P) : P[k] = row(i)[j]
    BY <1>6, <1>7, <2>3
  <2> QED
    BY <1>6, <2>1, <2>2, <2>4
<1> QED
  BY <1>8, <1>9, <1>10 DEF P, B

-----------------------------------------------------------------------------
(* The peers that are derived.                                              *)

\* A peer for each, with a VLAN and a prefix of its own.
LEMMA PeersDerived ==
  ASSUME NEW req \in Requirement, Accepted(req), ~Repeated(Column(req.networks)),
         req.handoff.bgp
  PROVE  LET P == Peerings(req)
             n == Len(P)
             list == DerivePeers(req)
         IN  /\ P \in Seq(Peering) /\ n \in Nat /\ DOMAIN list = 1..n /\ Len(list) = n
             /\ list \in Seq(PeerRecord)
             /\ \A i \in 1..n :
                  /\ list[i].border = P[i].border /\ list[i].fusion = P[i].fusion
                  /\ list[i].vrf = P[i].vrf /\ list[i].asn = P[i].asn
                  /\ list[i].prefix = <<"border_handoff", i>>
                  /\ list[i].localIp = <<"border_handoff", i, 1>>
                  /\ list[i].neighborIp = <<"border_handoff", i, 2>>
                  /\ P[i].border \in WithRole(req.devices, "border")
                  /\ P[i].vrf \in Vrfs(req)
             /\ \A i, j \in 1..n : list[i].vlan = list[j].vlan => i = j
<1> DEFINE P == Peerings(req)
           n == Len(P)
           list == DerivePeers(req)
           free == HandoffVlans(req)
           B == WithRole(req.devices, "border")
           vlan(i) == FirstFit(free, i)
           at(i) == [border |-> P[i].border, fusion |-> P[i].fusion, vrf |-> P[i].vrf,
                     asn |-> P[i].asn, vlan |-> vlan(i), prefix |-> <<"border_handoff", i>>,
                     localIp |-> <<"border_handoff", i, 1>>,
                     neighborIp |-> <<"border_handoff", i, 2>>]
<1>1. /\ ~Repeated(Column(req.devices)) /\ FusionAccepted(req)
      /\ req.schema = "1.2" => AdjacenciesAccepted(req)
      /\ n <= Cardinality(free)
  BY DEF Accepted, DevicesAccepted, HandoffAccepted
<1>2. /\ P \in Seq(Peering)
      /\ \A i \in 1..n : P[i].border \in B /\ P[i].vrf \in Vrfs(req)
  <2>1. CASE req.schema = "1.2"
    <3> DEFINE Of(p, a, x) == /\ p.border = a.border /\ p.fusion = a.fusion
                              /\ p.vrf = VrfOf(req, x)
                              /\ p.asn = Entry(req.fusion, a.fusion).asn
    <3>1. /\ P \in Seq(Peering)
          /\ \A i \in 1..n : \E a \in ToSet(req.handoff.adjacencies) :
               \E x \in Carried(req, a) : Of(P[i], a, x)
      BY <1>1, <2>1, PeeringsCarried
    <3>2. \A a \in ToSet(req.handoff.adjacencies) :
            a.border \in B /\ Carried(req, a) \subseteq NetworkIds(req)
      BY <1>1, <2>1 DEF AdjacenciesAccepted
    <3>3. \A x \in NetworkIds(req) : VrfOf(req, x) \in Vrfs(req)
      BY VrfFound
    <3> HIDE DEF P, n, B
    <3> QED
      BY <3>1, <3>2, <3>3
  <2>2. CASE req.schema # "1.2"
    BY <1>1, <2>2, PeeringsCrossed
  <2> QED
    BY <2>1, <2>2
<1>3. free \in SUBSET HandoffVlanFree
  BY DEF HandoffVlans
<1>4. list = [i \in DOMAIN P |-> at(i)]
  BY DEF DerivePeers
<1> HIDE DEF P, list, free, B
<1>5. /\ Cardinality(free) \in Nat /\ free \subseteq Nat
      /\ \A i \in 1..Cardinality(free) : FirstFit(free, i) \in free
      /\ \A i, j \in 1..Cardinality(free) : FirstFit(free, i) = FirstFit(free, j) => i = j
  <2>1. free \subseteq Nat /\ IsFiniteSet(free)
    BY <1>3, FreeSets
  <2> QED
    BY <2>1, FirstFits
<1>6. n \in Nat /\ DOMAIN P = 1..n /\ \A i \in 1..n : P[i] \in Peering
  BY <1>2
<1> HIDE DEF n
<1>7. /\ \A i \in 1..n : vlan(i) \in Nat
      /\ \A i, j \in 1..n : vlan(i) = vlan(j) => i = j
  <2>1. 1..n \subseteq 1..Cardinality(free)
    BY <1>1, <1>5, <1>6
  <2> QED
    BY <1>5, <2>1
<1> HIDE DEF vlan
<1>8. \A i \in 1..n : at(i) \in PeerRecord
  <2> TAKE i \in 1..n
  <2>1. /\ P[i].border \in Nat /\ P[i].fusion \in Nat \cup {None} /\ P[i].vrf \in STRING
        /\ P[i].asn \in Nat \cup {None} /\ vlan(i) \in Nat
    BY <1>6, <1>7 DEF Peering
  <2>2. /\ <<"border_handoff", i>> \in PrefixPools \X Nat
        /\ <<"border_handoff", i, 1>> \in PrefixPools \X Nat \X Nat
        /\ <<"border_handoff", i, 2>> \in PrefixPools \X Nat \X Nat
    <3>1. i \in Nat /\ "border_handoff" \in PrefixPools
      BY <1>6 DEF PrefixPools
    <3> QED
      BY <3>1
  <2> QED
    BY <2>1, <2>2 DEF PeerRecord
<1>9. list \in [1..n -> PeerRecord] /\ \A i \in 1..n : list[i] = at(i)
  <2> HIDE DEF at
  <2> QED
    BY <1>4, <1>6, <1>8
<1>10. DOMAIN list = 1..n /\ Len(list) = n /\ list \in Seq(PeerRecord)
  BY <1>6, <1>9, Written
<1>11. \A i \in 1..n :
         /\ list[i].border = P[i].border /\ list[i].fusion = P[i].fusion
         /\ list[i].vrf = P[i].vrf /\ list[i].asn = P[i].asn
         /\ list[i].prefix = <<"border_handoff", i>>
         /\ list[i].localIp = <<"border_handoff", i, 1>>
         /\ list[i].neighborIp = <<"border_handoff", i, 2>>
  BY <1>9
<1>12. \A i, j \in 1..n : list[i].vlan = list[j].vlan => i = j
  BY <1>7, <1>9
<1> QED
  BY <1>2, <1>6, <1>10, <1>11, <1>12 DEF P, n, list, B

\* The peers of a design: whom they join, and that they are all there is.
LEMMA PeersMeet ==
  ASSUME NEW req \in Requirement, Accepted(req), ~Repeated(Column(req.networks)),
         req.handoff.bgp
  PROVE  LET P == ToSet(Peerings(req))
             S == ToSet(DerivePeers(req))
             B == WithRole(req.devices, "border")
             V == Vrfs(req)
             over(b, v) == {p.fusion : p \in {x \in S : x.border = b /\ x.vrf = v}}
         IN  /\ \A b, v : <<b, v>> \in {<<p.border, p.vrf>> : p \in P} <=>
                            \E p \in S : p.border = b /\ p.vrf = v
             /\ \A f : f \in {p.fusion : p \in P} <=> \E p \in S : p.fusion = f
             /\ \A p \in S : p.border \in B /\ p.vrf \in V
             /\ req.schema = "1.2" =>
                  \A p \in S : /\ p.fusion \in Ids(req.fusion)
                               /\ p.asn = Entry(req.fusion, p.fusion).asn
             /\ req.schema # "1.2" =>
                  \A b \in B, v \in V : \E p \in S : p.border = b /\ p.vrf = v
             /\ \A b, v : {p.fusion : p \in {x \in P : x.border = b /\ x.vrf = v}} =
                            over(b, v)
<1> DEFINE seq == Peerings(req)
           list == DerivePeers(req)
           adjacencies == req.handoff.adjacencies
           n == Len(seq)
           P == ToSet(seq)
           S == ToSet(list)
           B == WithRole(req.devices, "border")
           V == Vrfs(req)
           over(b, v) == {p.fusion : p \in {x \in S : x.border = b /\ x.vrf = v}}
<1>1. /\ ~Repeated(Column(req.devices)) /\ FusionAccepted(req)
      /\ req.schema = "1.2" => AdjacenciesAccepted(req)
  BY DEF Accepted, DevicesAccepted, HandoffAccepted
<1>2. /\ n \in Nat /\ DOMAIN seq = 1..n /\ DOMAIN list = 1..n
      /\ \A i \in 1..n :
           /\ list[i].border = seq[i].border /\ list[i].fusion = seq[i].fusion
           /\ list[i].vrf = seq[i].vrf /\ list[i].asn = seq[i].asn
           /\ seq[i].border \in B /\ seq[i].vrf \in V
  <2>1. seq \in Seq(Peering) /\ n \in Nat /\ DOMAIN list = 1..n
        /\ \A i \in 1..n :
             /\ list[i].border = seq[i].border /\ list[i].fusion = seq[i].fusion
             /\ list[i].vrf = seq[i].vrf /\ list[i].asn = seq[i].asn
             /\ seq[i].border \in B /\ seq[i].vrf \in V
    BY PeersDerived
  <2> HIDE DEF seq, list, B, V
  <2>2. DOMAIN seq = 1..n
    BY <2>1
  <2> QED
    BY <2>1, <2>2
<1>3. req.schema = "1.2" =>
        /\ \A k \in 1..n : \E a \in ToSet(adjacencies) :
             /\ seq[k].fusion = a.fusion
             /\ seq[k].asn = Entry(req.fusion, a.fusion).asn
        /\ \A a \in ToSet(adjacencies) : \A x \in Carried(req, a) : \E k \in 1..n :
             /\ seq[k].border = a.border /\ seq[k].fusion = a.fusion
             /\ seq[k].vrf = VrfOf(req, x)
  BY <1>1, PeeringsCarried
<1>4. req.schema # "1.2" =>
        \A b \in B, v \in V : \E k \in 1..n : seq[k].border = b /\ seq[k].vrf = v
  BY <1>1, PeeringsCrossed
<1> HIDE DEF seq, list, B, n
<1>5. /\ \A p \in P : \E i \in 1..n : p = seq[i]
      /\ \A p \in S : \E i \in 1..n : p = list[i]
      /\ \A i \in 1..n : seq[i] \in P /\ list[i] \in S
  BY <1>2 DEF ToSet
<1> HIDE DEF P, S
<1>6. \A b, v : <<b, v>> \in {<<p.border, p.vrf>> : p \in P} <=>
                  \E p \in S : p.border = b /\ p.vrf = v
  <2> TAKE b, v
  <2>1. <<b, v>> \in {<<p.border, p.vrf>> : p \in P} <=>
          \E i \in 1..n : seq[i].border = b /\ seq[i].vrf = v
    BY <1>5
  <2>2. (\E p \in S : p.border = b /\ p.vrf = v) <=>
          \E i \in 1..n : list[i].border = b /\ list[i].vrf = v
    BY <1>5
  <2> QED
    BY <1>2, <2>1, <2>2
<1>7. \A f : f \in {p.fusion : p \in P} <=> \E p \in S : p.fusion = f
  <2> TAKE f
  <2>1. f \in {p.fusion : p \in P} <=> \E i \in 1..n : seq[i].fusion = f
    BY <1>5
  <2>2. (\E p \in S : p.fusion = f) <=> \E i \in 1..n : list[i].fusion = f
    BY <1>5
  <2> QED
    BY <1>2, <2>1, <2>2
<1>8. \A p \in S : p.border \in B /\ p.vrf \in V
  <2> TAKE p \in S
  <2>1. PICK i \in 1..n : p = list[i]
    BY <1>5
  <2>2. list[i].border \in B /\ list[i].vrf \in V
    BY <1>2
  <2> QED
    BY <2>1, <2>2
<1>9. ASSUME req.schema = "1.2", NEW p \in S
      PROVE  p.fusion \in Ids(req.fusion) /\ p.asn = Entry(req.fusion, p.fusion).asn
  <2>1. PICK i \in 1..n : p = list[i]
    BY <1>5
  <2>2. PICK a \in ToSet(adjacencies) :
          seq[i].fusion = a.fusion /\ seq[i].asn = Entry(req.fusion, a.fusion).asn
    BY <1>3, <1>9
  <2>3. a.fusion \in Ids(req.fusion)
    BY <1>1, <1>9 DEF AdjacenciesAccepted
  <2> QED
    BY <1>2, <2>1, <2>2, <2>3
<1>10. ASSUME req.schema # "1.2", NEW b \in B, NEW v \in V
       PROVE  \E p \in S : p.border = b /\ p.vrf = v
  <2>1. PICK k \in 1..n : seq[k].border = b /\ seq[k].vrf = v
    BY <1>4, <1>10
  <2> QED
    BY <1>2, <1>5, <2>1
<1>11. ASSUME NEW b, NEW v
       PROVE  {p.fusion : p \in {x \in P : x.border = b /\ x.vrf = v}} = over(b, v)
  <2> DEFINE T == {p.fusion : p \in {x \in P : x.border = b /\ x.vrf = v}}
             K == {k \in 1..n : seq[k].border = b /\ seq[k].vrf = v}
  <2>1. T = {seq[k].fusion : k \in K}
    BY <1>5
  <2>2. over(b, v) = {list[k].fusion : k \in {j \in 1..n : list[j].border = b
                                                         /\ list[j].vrf = v}}
    BY <1>5
  <2>3. \A k \in 1..n : /\ list[k].fusion = seq[k].fusion
                        /\ list[k].border = seq[k].border /\ list[k].vrf = seq[k].vrf
    BY <1>2
  <2> HIDE DEF T, over
  <2>4. T = over(b, v)
    BY <2>1, <2>2, <2>3
  <2> QED
    BY <2>4 DEF T, over
<1> QED
  BY <1>6, <1>7, <1>8, <1>9, <1>10, <1>11 DEF P, S, B, seq, list

\* A handoff has an issue when there is no peer, or none at some border.
LEMMA HandoffChecked ==
  ASSUME NEW req \in Requirement, Accepted(req), ~Repeated(Column(req.networks)),
         req.handoff.bgp
  PROVE  LET S == ToSet(DerivePeers(req))
         IN  HandoffIssues(DeriveIntent(req)) = {} <=>
               /\ S # {}
               /\ \A b \in WithRole(req.devices, "border") : \E p \in S : p.border = b
<1> DEFINE int == DeriveIntent(req)
           peers == int.peers
           list == DerivePeers(req)
           S == ToSet(list)
           n == Len(Peerings(req))
           B == WithRole(req.devices, "border")
           D1 == peers = <<>>
           D2 == \E p \in ToSet(peers) : p.border \notin Ids(int.devices)
           D3 == \E p \in ToSet(peers) :
                   p.border \in Ids(int.devices) /\ ~HasRole(int, p.border, "border")
           D4 == \E p \in ToSet(peers) : p.vrf \notin VrfsOf(int)
           D5 == Repeated([i \in DOMAIN peers |-> <<peers[i].border, peers[i].vrf,
                                                    peers[i].neighborIp>>])
           D6 == Repeated([i \in DOMAIN peers |-> <<peers[i].border, peers[i].vlan>>])
           D7 == \E b \in BordersOf(int) : \A p \in ToSet(peers) : p.border # b
           raised == {
             Raise(D1, "bgp.peers.empty"), Raise(D2, "reference.device"),
             Raise(D3, "bgp.peer.not_border"), Raise(D4, "reference.vrf"),
             Raise(D5, "duplicate BGP peer"),
             Raise(D6, "duplicate handoff VLAN on device"),
             Raise(D7, "bgp.border_without_peer")}
<1>0. req.handoff.bgp
  OBVIOUS
<1>1. HandoffIssues(int) = UNION raised
  BY DEF HandoffIssues
<1>2. ~Repeated(Column(req.devices))
  BY DEF Accepted, DevicesAccepted
<1>3. /\ BordersOf(int) = B /\ B \subseteq Ids(req.devices)
      /\ \A d, role : HasRole(int, d, role) <=> d \in WithRole(req.devices, role)
  BY <1>2, RolesDerived
<1>4. Ids(int.devices) = Ids(req.devices) /\ VrfsOf(int) = Vrfs(req)
  <2>1. int.devices = DeriveDevices(req)
    BY IntentFields
  <2> HIDE DEF int
  <2> QED
    BY <2>1, DevicesDerived, NetworksDerived DEF int
<1>5. peers = list
  <2>1. peers = IF req.handoff.bgp THEN list ELSE None
    BY IntentFields
  <2> HIDE DEF peers, list
  <2> QED
    BY <1>0, <2>1
<1>6. \A p \in S : p.border \in B /\ p.vrf \in Vrfs(req)
  BY PeersMeet
<1>7. /\ n \in Nat /\ DOMAIN list = 1..n /\ Len(list) = n
      /\ \A i \in 1..n : list[i].neighborIp = <<"border_handoff", i, 2>>
      /\ \A i, j \in 1..n : list[i].vlan = list[j].vlan => i = j
  BY PeersDerived
<1>8. list \in Seq(PeerRecord)
  BY PeersDerived
<1> HIDE DEF int, peers, list, B, n
<1>9. D1 <=> S = {}
  <2>1. S = {list[i] : i \in 1..n}
    BY <1>7 DEF ToSet
  <2>2. list = <<>> <=> n = 0
    BY <1>7, <1>8
  <2>3. n = 0 <=> 1..n = {}
    BY <1>7
  <2> HIDE DEF S
  <2> QED
    BY <1>5, <2>1, <2>2, <2>3
<1>10. ~D2 /\ ~D3 /\ ~D4
  <2>1. ASSUME NEW p \in ToSet(peers)
        PROVE  /\ p.border \in Ids(int.devices) /\ HasRole(int, p.border, "border")
               /\ p.vrf \in VrfsOf(int)
    <3>1. p.border \in B /\ p.vrf \in Vrfs(req)
      BY <1>5, <1>6
    <3>2. HasRole(int, p.border, "border")
      BY <1>3, <3>1 DEF B
    <3> QED
      BY <1>3, <1>4, <3>1, <3>2
  <2> QED
    BY <2>1
<1>11. ~D5
  <2> DEFINE s == [i \in DOMAIN peers |-> <<peers[i].border, peers[i].vrf,
                                            peers[i].neighborIp>>]
  <2>1. DOMAIN s = 1..n /\ \A i \in 1..n : s[i][3] = <<"border_handoff", i, 2>>
    BY <1>5, <1>7
  <2> HIDE DEF s
  <2>2. \A i, j \in 1..n : s[i] = s[j] => i = j
    BY <2>1
  <2>3. ~Repeated(s)
    BY <1>7, <2>1, <2>2, Distinct
  <2> QED
    BY <2>3 DEF s
<1>12. ~D6
  <2> DEFINE s == [i \in DOMAIN peers |-> <<peers[i].border, peers[i].vlan>>]
  <2>1. DOMAIN s = 1..n /\ \A i \in 1..n : s[i][2] = list[i].vlan
    BY <1>5, <1>7
  <2> HIDE DEF s
  <2>2. \A i, j \in 1..n : s[i] = s[j] => i = j
    BY <1>7, <2>1
  <2>3. ~Repeated(s)
    BY <1>7, <2>1, <2>2, Distinct
  <2> QED
    BY <2>3 DEF s
<1>13. D7 <=> \E b \in B : \A p \in S : p.border # b
  BY <1>3, <1>5
<1> HIDE DEF D1, D2, D3, D4, D5, D6, D7
<1>14. (\A r \in raised : r = {}) <=>
         ~D1 /\ ~D2 /\ ~D3 /\ ~D4 /\ ~D5 /\ ~D6 /\ ~D7
  BY DEF Raise
<1> HIDE DEF raised
<1>15. HandoffIssues(int) = {} <=> ~D1 /\ ~D7
  BY <1>1, <1>10, <1>11, <1>12, <1>14, UnionEmpty
<1> QED
  BY <1>9, <1>13, <1>15 DEF int, B, list

\* Schema 1.2: and when a fusion node, or a border in one of the VRFs, has no peer,
\* or in production peers at one fusion node only.
LEMMA FusionPeersChecked ==
  ASSUME NEW req \in Requirement, Accepted(req), ~Repeated(Column(req.networks)),
         req.handoff.bgp, req.schema = "1.2"
  PROVE  LET S == ToSet(DerivePeers(req))
         IN  FusionPeerIssues(DeriveIntent(req)) = {} <=>
               /\ \A f \in Ids(req.fusion) : \E p \in S : p.fusion = f
               /\ \A b \in WithRole(req.devices, "border"), v \in Vrfs(req) :
                    \E p \in S : p.border = b /\ p.vrf = v
               /\ ~(Production(req) /\ LonePaths(req))
<1> DEFINE int == DeriveIntent(req)
           peers == int.peers
           list == DerivePeers(req)
           fusion == int.fusion
           P == ToSet(Peerings(req))
           S == ToSet(list)
           B == WithRole(req.devices, "border")
           V == Vrfs(req)
           over(b, v) == {p.fusion : p \in {x \in ToSet(peers) : x.border = b /\ x.vrf = v}}
           pairs == BordersOf(int) \X VrfsOf(int)
           D1 == \E p \in ToSet(peers) : p.fusion \notin Ids(fusion)
           D2 == \E p \in ToSet(peers), f \in ToSet(fusion) :
                   p.fusion = f.id /\ p.asn # f.asn
           D3 == \E f \in Ids(fusion) : \A p \in ToSet(peers) : p.fusion # f
           D4 == \E q \in pairs : over(q[1], q[2]) = {}
           D5 == /\ int.env = "production"
                 /\ \E q \in pairs : Cardinality(over(q[1], q[2])) = 1
           raised == {
             Raise(D1, "reference.fusion_node"), Raise(D2, "bgp.remote_as.mismatch"),
             Raise(D3, "bgp.fusion_without_peer"), Raise(D4, "bgp.border_vrf_without_peer"),
             Raise(D5, "bgp.border_vrf.insufficient_fusion_redundancy")}
<1>0. req.handoff.bgp /\ req.schema = "1.2"
  OBVIOUS
<1>1. FusionPeerIssues(int) = UNION raised
  BY DEF FusionPeerIssues
<1>2. ~Repeated(Column(req.devices)) /\ ~Repeated(Column(req.fusion))
  BY DEF Accepted, DevicesAccepted, FusionAccepted
<1>3. BordersOf(int) = B
  BY <1>2, RolesDerived
<1>4. VrfsOf(int) = V
  BY NetworksDerived
<1>5. peers = list
  <2>1. peers = IF req.handoff.bgp THEN list ELSE None
    BY IntentFields
  <2> HIDE DEF peers, list
  <2> QED
    BY <1>0, <2>1
<1>6. fusion = DeriveFusion(req) /\ int.env = req.env
  BY IntentFields
<1>7. Ids(fusion) = Ids(req.fusion)
  <2> HIDE DEF fusion
  <2> QED
    BY <1>6, FusionDerived
<1>8. /\ \A p \in S : /\ p.fusion \in Ids(req.fusion)
                      /\ p.asn = Entry(req.fusion, p.fusion).asn
      /\ \A b, v : {p.fusion : p \in {x \in P : x.border = b /\ x.vrf = v}} =
                     {p.fusion : p \in {x \in S : x.border = b /\ x.vrf = v}}
  BY <1>0, PeersMeet
<1> HIDE DEF int, peers, list, B, V, fusion
<1>9. ~D1
  BY <1>5, <1>7, <1>8
<1>10. ASSUME NEW f \in ToSet(fusion)
       PROVE  f.id \in Ids(req.fusion) /\ Entry(req.fusion, f.id).asn = f.asn
  <2> DEFINE l == DeriveFusion(req)
             old == req.fusion
             m == Len(old)
  <2>1. m \in Nat /\ \A i \in 1..m : l[i].id = old[i].id /\ l[i].asn = old[i].asn
    BY FusionDerived
  <2>2. ToSet(l) = {l[i] : i \in 1..m}
    BY FusionDerived
  <2>3. old \in Seq(FusionRecord)
    BY RequirementTyped
  <2>4. /\ \A i \in 1..m : Entry(old, old[i].id) = old[i]
        /\ \A i \in 1..m : old[i].id \in Ids(old)
    BY <1>2, <2>3, ListedOnce, Listed
  <2> HIDE DEF l, old, m
  <2>5. PICK i \in 1..m : f = l[i]
    BY <1>6, <2>2 DEF l
  <2> QED
    BY <2>1, <2>4, <2>5 DEF old
<1>11. ~D2
  <2> SUFFICES ASSUME NEW p \in ToSet(peers), NEW f \in ToSet(fusion), p.fusion = f.id
               PROVE  p.asn = f.asn
    OBVIOUS
  <2> QED
    BY <1>5, <1>8, <1>10
<1>12. D3 <=> ~\A f \in Ids(req.fusion) : \E p \in S : p.fusion = f
  BY <1>5, <1>7
<1>13. \A b, v : over(b, v) = {p.fusion : p \in {x \in S : x.border = b /\ x.vrf = v}}
  BY <1>5
<1> HIDE DEF over
<1>14. D4 <=> ~\A b \in B, v \in V : \E p \in S : p.border = b /\ p.vrf = v
  <2>1. pairs = B \X V
    BY <1>3, <1>4
  <2>2. \A b, v : over(b, v) = {} <=> ~\E p \in S : p.border = b /\ p.vrf = v
    BY <1>13
  <2> HIDE DEF pairs, S
  <2>3. (\E q \in pairs : over(q[1], q[2]) = {}) <=> \E b \in B, v \in V : over(b, v) = {}
    <3>1. ASSUME NEW q \in pairs, over(q[1], q[2]) = {}
          PROVE  \E b \in B, v \in V : over(b, v) = {}
      <4>1. q[1] \in B /\ q[2] \in V
        BY <2>1
      <4> QED
        BY <3>1, <4>1
    <3>2. ASSUME NEW b \in B, NEW v \in V, over(b, v) = {}
          PROVE  \E q \in pairs : over(q[1], q[2]) = {}
      <4> DEFINE q == <<b, v>>
      <4>1. q \in pairs /\ q[1] = b /\ q[2] = v
        BY <2>1
      <4> HIDE DEF q
      <4> QED
        BY <3>2, <4>1
    <3> QED
      BY <3>1, <3>2
  <2> QED
    BY <2>2, <2>3
<1>15. D5 <=> Production(req) /\ LonePaths(req)
  <2>1. pairs = B \X V
    BY <1>3, <1>4
  <2> DEFINE Lone(b, v) == Cardinality(over(b, v)) = 1
  <2>2. LonePaths(req) <=> \E b \in B, v \in V : Lone(b, v)
    <3>1. \A b, v : {p.fusion : p \in {x \in P : x.border = b /\ x.vrf = v}} = over(b, v)
      <4> HIDE DEF P, S
      <4> TAKE b, v
      <4> DEFINE mine == {p.fusion : p \in {x \in S : x.border = b /\ x.vrf = v}}
      <4>1. over(b, v) = mine
        BY <1>13
      <4>2. {p.fusion : p \in {x \in P : x.border = b /\ x.vrf = v}} = mine
        BY <1>8
      <4> HIDE DEF mine
      <4> QED
        BY <4>1, <4>2
    <3>2. LonePaths(req) <=> \E b \in B, v \in V : Cardinality(
            {p.fusion : p \in {x \in P : x.border = b /\ x.vrf = v}}) = 1
      BY <1>0 DEF LonePaths, B, V
    <3> HIDE DEF P
    <3> QED
      BY <3>1, <3>2
  <2> HIDE DEF Lone
  <2>3. (\E q \in pairs : Lone(q[1], q[2])) <=> \E b \in B, v \in V : Lone(b, v)
    <3> HIDE DEF pairs
    <3>1. ASSUME NEW q \in pairs, Lone(q[1], q[2])
          PROVE  \E b \in B, v \in V : Lone(b, v)
      <4>1. q[1] \in B /\ q[2] \in V
        BY <2>1
      <4> QED
        BY <3>1, <4>1
    <3>2. ASSUME NEW b \in B, NEW v \in V, Lone(b, v)
          PROVE  \E q \in pairs : Lone(q[1], q[2])
      <4> DEFINE q == <<b, v>>
      <4>1. q \in pairs /\ q[1] = b /\ q[2] = v
        BY <2>1
      <4> HIDE DEF q
      <4> QED
        BY <3>2, <4>1
    <3> QED
      BY <3>1, <3>2
  <2>4. D5 <=> int.env = "production" /\ \E q \in pairs : Lone(q[1], q[2])
    BY DEF Lone
  <2> QED
    BY <1>6, <2>2, <2>3, <2>4 DEF Production
<1> HIDE DEF D1, D2, D3, D4, D5
<1>16. (\A r \in raised : r = {}) <=> ~D1 /\ ~D2 /\ ~D3 /\ ~D4 /\ ~D5
  BY DEF Raise
<1> HIDE DEF raised
<1>17. FusionPeerIssues(int) = {} <=> ~D3 /\ ~D4 /\ ~D5
  BY <1>1, <1>9, <1>11, <1>16, UnionEmpty
<1> QED
  BY <1>12, <1>14, <1>15, <1>17 DEF int, B, V, list

\* All that is raised about peers, when there is a border: exactly a handoff that
\* leaves something unconnected, or in production on a single path.
LEMMA PeersChecked ==
  ASSUME NEW req \in Requirement, Accepted(req), ~Repeated(Column(req.networks)),
         WithRole(req.devices, "border") # {}
  PROVE  LET int == DeriveIntent(req)
         IN  (IF int.peers = None
              THEN Raise(int.env = "production", "bgp.handoff.required")
              ELSE HandoffIssues(int)
                     \cup (IF int.schema = "1.2" THEN FusionPeerIssues(int) ELSE {})) = {}
             <=> ~Unconnected(req) /\ ~(Production(req) /\ LonePaths(req))
<1> DEFINE int == DeriveIntent(req)
           list == DerivePeers(req)
           S == ToSet(list)
           P == ToSet(Peerings(req))
           B == WithRole(req.devices, "border")
           V == Vrfs(req)
           met == {<<p.border, p.vrf>> : p \in P}
           at == {p.fusion : p \in P}
           found == IF int.peers = None
                    THEN Raise(int.env = "production", "bgp.handoff.required")
                    ELSE HandoffIssues(int)
                           \cup (IF int.schema = "1.2" THEN FusionPeerIssues(int) ELSE {})
<1>0. B # {}
  OBVIOUS
<1>1. /\ int.peers = IF req.handoff.bgp THEN list ELSE None
      /\ int.schema = req.schema /\ int.env = req.env
  BY IntentFields
<1>2. Unconnected(req) <=>
        IF ~req.handoff.bgp THEN Production(req)
        ELSE ~(B \X V \subseteq met) \/ (req.schema = "1.2" /\ ~(Ids(req.fusion) \subseteq at))
  BY DEF Unconnected
<1>3. CASE ~req.handoff.bgp
  <2> HIDE DEF int, list, B, V, met, at
  <2>1. found = Raise(int.env = "production", "bgp.handoff.required")
    BY <1>1, <1>3
  <2>2. found = {} <=> ~Production(req)
    BY <1>1, <2>1, RaisesNothing DEF Production
  <2>3. ~LonePaths(req)
    BY <1>3 DEF LonePaths
  <2> QED
    BY <1>2, <1>3, <2>2, <2>3 DEF int
<1>4. CASE req.handoff.bgp
  <2>1. list \in Seq(PeerRecord)
    BY <1>4, PeersDerived
  <2>2. /\ \A b, v : <<b, v>> \in met <=> \E p \in S : p.border = b /\ p.vrf = v
        /\ \A f : f \in at <=> \E p \in S : p.fusion = f
        /\ \A p \in S : p.border \in B /\ p.vrf \in V
        /\ req.schema # "1.2" =>
             \A b \in B, v \in V : \E p \in S : p.border = b /\ p.vrf = v
    BY <1>4, PeersMeet
  <2>3. HandoffIssues(int) = {} <=> S # {} /\ \A b \in B : \E p \in S : p.border = b
    BY <1>4, HandoffChecked
  <2>4. req.schema = "1.2" =>
          (FusionPeerIssues(int) = {} <=>
             /\ \A f \in Ids(req.fusion) : \E p \in S : p.fusion = f
             /\ \A b \in B, v \in V : \E p \in S : p.border = b /\ p.vrf = v
             /\ ~(Production(req) /\ LonePaths(req)))
    BY <1>4, FusionPeersChecked
  <2>5. V # {}
    BY VrfFound
  <2> HIDE DEF int, list, S, B, V, met, at
  <2>6. found = HandoffIssues(int)
                  \cup (IF int.schema = "1.2" THEN FusionPeerIssues(int) ELSE {})
    <3>1. int.peers # None
      BY <1>1, <1>4, <2>1, SectionAssumption
    <3> QED
      BY <3>1
  <2> HIDE DEF found
  <2>7. (B \X V \subseteq met) <=> \A b \in B, v \in V : \E p \in S : p.border = b /\ p.vrf = v
    <3>1. (B \X V \subseteq met) <=> \A b \in B, v \in V : <<b, v>> \in met
      OBVIOUS
    <3> DEFINE Meet(b, v) == \E p \in S : p.border = b /\ p.vrf = v
    <3>2. \A b, v : <<b, v>> \in met <=> Meet(b, v)
      BY <2>2
    <3> HIDE DEF Meet
    <3>3. (B \X V \subseteq met) <=> \A b \in B, v \in V : Meet(b, v)
      BY <3>1, <3>2, Zenon
    <3> QED
      BY <3>3 DEF Meet
  <2>8. (Ids(req.fusion) \subseteq at) <=> \A f \in Ids(req.fusion) : \E p \in S : p.fusion = f
    BY <2>2
  <2>9. (\A b \in B, v \in V : \E p \in S : p.border = b /\ p.vrf = v) =>
          S # {} /\ \A b \in B : \E p \in S : p.border = b
    BY <1>0, <2>5
  <2>10. CASE req.schema = "1.2"
    <3>1. found = {} <=> HandoffIssues(int) = {} /\ FusionPeerIssues(int) = {}
      BY <1>1, <2>6, <2>10
    <3>2. found = {} <=> ~Unconnected(req) /\ ~(Production(req) /\ LonePaths(req))
      BY <1>2, <1>4, <2>3, <2>4, <2>7, <2>8, <2>9, <2>10, <3>1
    <3> QED
      BY <3>2 DEF found, int
  <2>11. CASE req.schema # "1.2"
    <3>1. found = {} <=> HandoffIssues(int) = {}
      BY <1>1, <2>6, <2>11
    <3>2. found = {} <=> ~Unconnected(req)
      BY <1>2, <1>4, <2>2, <2>3, <2>7, <2>9, <2>11, <3>1
    <3>3. ~LonePaths(req)
      BY <2>11 DEF LonePaths
    <3> QED
      BY <3>2, <3>3 DEF found, int
  <2> QED
    BY <2>10, <2>11
<1> QED
  BY <1>3, <1>4

-----------------------------------------------------------------------------
(* Shared services.                                                         *)

\* _derive_shared_services: every attachment gets a VLAN and a prefix.
LEMMA ServicesDerived ==
  ASSUME NEW req \in Requirement, Accepted(req), req.schema = "1.2"
  PROVE  LET s == DeriveServices(req)
             list == s.attachments
             old == req.services.attachments
             n == Len(old)
         IN  /\ s \in SharedDesign /\ n \in Nat
             /\ s.vrf = req.services.vrf /\ s.services = req.services.services
             /\ DOMAIN list = 1..n /\ Len(list) = n /\ DOMAIN old = 1..n
             /\ \A i \in 1..n : /\ list[i].id = old[i].id /\ list[i].fusion = old[i].fusion
                                /\ list[i].prefix = <<"shared_service_handoff", i>>
<1> DEFINE s == DeriveServices(req)
           list == s.attachments
           shared == req.services
           old == shared.attachments
           n == Len(old)
           free == SharedVlanFree \ PoolVlans(req)
           fusion == [i \in DOMAIN old |-> old[i].fusion]
           vlan(i) == FirstFit(free, i)
           at(i) == [id |-> old[i].id, fusion |-> old[i].fusion, vlan |-> vlan(i),
                     prefix |-> <<"shared_service_handoff", i>>]
           R == [id : Nat, fusion : Nat]
           T == [id : Nat, fusion : Nat, vlan : Nat, prefix : PrefixPools \X Nat]
<1>1. shared \in SharedRecord /\ ServicesAccepted(req)
  BY RequirementTyped DEF Accepted
<1>2. Len(fusion) <= Cardinality(free)
  BY <1>1 DEF ServicesAccepted
<1>3. s = [vrf |-> shared.vrf, attachments |-> [i \in DOMAIN old |-> at(i)],
           services |-> shared.services]
  BY DEF DeriveServices
<1>4. old \in Seq(R) /\ shared.vrf \in STRING /\ shared.services \in Seq(ServiceRecord)
  BY <1>1 DEF SharedRecord
<1>5. list = [i \in DOMAIN old |-> at(i)] /\ s.vrf = shared.vrf /\ s.services = shared.services
  <2> HIDE DEF s, at
  <2> QED
    BY <1>3
<1> HIDE DEF old, shared, list, free
<1>6. n \in Nat /\ DOMAIN old = 1..n /\ \A i \in 1..n : old[i] \in R
  <2> HIDE DEF R
  <2> QED
    BY <1>4
<1>7. Len(fusion) = n
  BY <1>6
<1> HIDE DEF fusion, n
<1>8. \A i \in 1..n : vlan(i) \in Nat
  <2>1. free \in SUBSET SharedVlanFree
    BY DEF free
  <2>2. free \subseteq Nat /\ IsFiniteSet(free)
    BY <2>1, FreeSets
  <2>3. Cardinality(free) \in Nat /\ \A i \in 1..Cardinality(free) : vlan(i) \in free
    BY <2>2, FirstFits
  <2> HIDE DEF vlan
  <2>4. 1..n \subseteq 1..Cardinality(free)
    BY <1>2, <1>6, <1>7, <2>3
  <2> QED
    BY <2>2, <2>3, <2>4
<1> HIDE DEF vlan
<1>9. \A i \in 1..n : at(i) \in T
  <2> TAKE i \in 1..n
  <2>1. old[i].id \in Nat /\ old[i].fusion \in Nat /\ vlan(i) \in Nat /\ i \in Nat
    BY <1>6, <1>8
  <2>2. <<"shared_service_handoff", i>> \in PrefixPools \X Nat
    BY <2>1 DEF PrefixPools
  <2> QED
    BY <2>1, <2>2
<1>10. list \in [1..n -> T] /\ \A i \in 1..n : list[i] = at(i)
  <2> HIDE DEF at, T
  <2> QED
    BY <1>5, <1>6, <1>9
<1>11. DOMAIN list = 1..n /\ Len(list) = n /\ list \in Seq(T)
  <2> HIDE DEF T
  <2> QED
    BY <1>6, <1>10, Written
<1>12. s \in SharedDesign
  <2>1. s = [vrf |-> shared.vrf, attachments |-> list, services |-> shared.services]
    BY <1>3, <1>5
  <2> HIDE DEF s
  <2> QED
    BY <1>4, <1>11, <2>1 DEF SharedDesign
<1>13. \A i \in 1..n : /\ list[i].id = old[i].id /\ list[i].fusion = old[i].fusion
                       /\ list[i].prefix = <<"shared_service_handoff", i>>
  BY <1>10
<1> QED
  BY <1>5, <1>6, <1>11, <1>12, <1>13 DEF n, old, shared, list

\* What the allocator accepts of shared services is valid.
LEMMA ServicesChecked ==
  ASSUME NEW req \in Requirement, Accepted(req), req.schema = "1.2"
  PROVE  ServiceIssues(DeriveIntent(req)) = {}
<1> DEFINE int == DeriveIntent(req)
           shared == int.services
           list == shared.attachments
           old == req.services
           n == Len(old.attachments)
           m == Len(NetworkSites(req))
           fusion == [i \in DOMAIN list |-> list[i].fusion]
           D1 == shared.vrf \notin VrfsOf(int)
           D2 == Repeated(Column(list))
           D3 == ~(ToSet(fusion) \subseteq Ids(int.fusion))
           D4 == Repeated(fusion)
           D5 == int.env = "production" /\ ~(Ids(int.fusion) \subseteq ToSet(fusion))
           D6 == Repeated(Column(shared.services))
           D7 == \E s \in ToSet(shared.services), p \in ToSet(int.pools) :
                   p.prefix \in s.prefixes
           D8 == \E s \in ToSet(shared.services) : \E a \in s.addresses :
                   <<a[1], a[2]>> \notin s.prefixes
           D9 == \E s \in ToSet(shared.services) : ~(s.consumers \subseteq Ids(int.networks))
           raised == {
             Raise(D1, "reference.shared_services_vrf"),
             Raise(D2, "duplicate shared-service attachment id"),
             Raise(D3, "reference.fusion_node"),
             Raise(D4, "duplicate fusion shared-service attachment"),
             Raise(D5, "shared_service.attachment.missing"),
             Raise(D6, "duplicate shared service id"),
             Raise(D7, "shared_service.prefix.overlap"),
             Raise(D8, "shared_service.address.outside_prefix"),
             Raise(D9, "reference.virtual_network")}
<1>1. ServiceIssues(int) = UNION raised
  BY DEF ServiceIssues
<1>2. req.schema = "1.2" /\ req.services # None
  BY RequirementTyped
<1>3. ServicesAccepted(req)
  BY <1>2 DEF Accepted
<1>4. /\ shared = DeriveServices(req) /\ int.pools = DerivePools(req) /\ int.env = req.env
      /\ int.fusion = DeriveFusion(req)
  <2>1. /\ shared = IF req.services = None THEN None ELSE DeriveServices(req)
        /\ int.pools = DerivePools(req) /\ int.env = req.env
        /\ int.fusion = DeriveFusion(req)
    BY IntentFields
  <2> HIDE DEF int
  <2> QED
    BY <1>2, <2>1
<1>5. /\ n \in Nat /\ shared.vrf = old.vrf /\ shared.services = old.services
      /\ DOMAIN list = 1..n /\ DOMAIN old.attachments = 1..n
      /\ \A i \in 1..n : /\ list[i].id = old.attachments[i].id
                         /\ list[i].fusion = old.attachments[i].fusion
  <2> DEFINE s == DeriveServices(req)
             l == s.attachments
  <2>1. /\ n \in Nat /\ s.vrf = old.vrf /\ s.services = old.services
        /\ DOMAIN l = 1..n /\ DOMAIN old.attachments = 1..n
        /\ \A i \in 1..n : /\ l[i].id = old.attachments[i].id
                           /\ l[i].fusion = old.attachments[i].fusion
    BY <1>2, ServicesDerived
  <2>2. shared = s
    BY <1>4
  <2> HIDE DEF s, shared, n, old
  <2> QED
    BY <2>1, <2>2
<1>6. Ids(int.networks) = NetworkIds(req) /\ VrfsOf(int) = Vrfs(req)
  BY NetworksDerived DEF NetworkIds
<1>7. Ids(int.fusion) = Ids(req.fusion)
  BY <1>4, FusionDerived
<1> HIDE DEF int, shared, old, n
<1>8. fusion = [i \in DOMAIN old.attachments |-> old.attachments[i].fusion]
      /\ Column(list) = Column(old.attachments)
  BY <1>5 DEF Column
<1>9. ~D1 /\ ~D2 /\ ~D3 /\ ~D4 /\ ~D6
  BY <1>3, <1>5, <1>6, <1>7, <1>8 DEF ServicesAccepted, old
<1>10. ~D5
  BY <1>3, <1>4, <1>7, <1>8 DEF ServicesAccepted, old, Production
<1>11. ASSUME NEW s \in ToSet(shared.services)
       PROVE  /\ s.prefixes \cap {p.prefix : p \in ToSet(DerivePools(req))} = {}
              /\ \A a \in s.addresses : <<a[1], a[2]>> \in s.prefixes
              /\ s.consumers \subseteq NetworkIds(req)
  BY <1>3, <1>5 DEF ServicesAccepted, old
<1>12. ~D7
  <2> SUFFICES ASSUME NEW s \in ToSet(shared.services), NEW p \in ToSet(int.pools)
               PROVE  p.prefix \notin s.prefixes
    OBVIOUS
  <2> QED
    BY <1>4, <1>11
<1>13. ~D8 /\ ~D9
  BY <1>6, <1>11
<1> HIDE DEF D1, D2, D3, D4, D5, D6, D7, D8, D9
<1>14. (\A r \in raised : r = {}) <=>
         ~D1 /\ ~D2 /\ ~D3 /\ ~D4 /\ ~D5 /\ ~D6 /\ ~D7 /\ ~D8 /\ ~D9
  BY DEF Raise
<1> HIDE DEF raised
<1>15. ServiceIssues(int) = {}
  BY <1>1, <1>9, <1>10, <1>12, <1>13, <1>14, UnionEmpty
<1> QED
  BY <1>15 DEF int

-----------------------------------------------------------------------------
(* The policy plane.                                                        *)

\* The least of one number.
LEMMA MinOfOne == \A i \in Nat : Min({i}) = i
BY DEF Min

\* The tags of security groups: a number each, none twice, found by name.
LEMMA TagsDerived ==
  ASSUME NEW req \in Requirement, Accepted(req), req.schema = "1.2"
  PROVE  LET old == req.policy.groups
             list == DerivePolicy(req).groups
             tags == Tags(old).numbers
             n == Len(old)
             TagOf(g) == tags[SelectInSeq(old, LAMBDA x : x.id = g)]
         IN  /\ n \in Nat /\ DOMAIN old = 1..n /\ DOMAIN list = 1..n /\ Len(list) = n
             /\ ~Repeated(Column(old)) /\ Column(list) = Column(old) /\ Ids(list) = Ids(old)
             /\ \A i \in 1..n : list[i].id = old[i].id /\ list[i].tag = tags[i]
             /\ \A i, j \in 1..n : tags[i] = tags[j] => i = j
             /\ \A i \in 1..n :
                  LET id == old[i].id
                  IN  /\ TagOf(id) = tags[i]
                      /\ list[SelectLastInSeq(list, LAMBDA x : x.id = id)].tag = tags[i]
<1> DEFINE policy == req.policy
           old == policy.groups
           list == DerivePolicy(req).groups
           tags == Tags(old).numbers
           n == Len(old)
           wanted == [i \in DOMAIN old |-> old[i].tag]
           R == [id : Nat, tag : Nat \cup {None}]
           TagOf(g) == tags[SelectInSeq(old, LAMBDA x : x.id = g)]
<1>1. policy \in PolicyRecord /\ policy # None
  BY RequirementTyped
<1>2. ~Repeated(Column(old)) /\ ~Tags(old).refused
  BY <1>1 DEF Accepted, PolicyAccepted, GroupsAccepted
<1>3. old \in Seq(R)
  BY <1>1 DEF PolicyRecord
<1>4. list = [i \in DOMAIN old |-> [id |-> old[i].id, tag |-> tags[i]]]
  BY DEF DerivePolicy
<1>5. Tags(old) = GiveOut(SgtFree, wanted)
  BY DEF Tags
<1> HIDE DEF policy, old, list, R
<1>6. /\ n \in Nat /\ DOMAIN old = 1..n /\ \A i \in 1..n : old[i] \in R
      /\ Ids(old) = {old[i].id : i \in 1..n} /\ Column(old) = [i \in 1..n |-> old[i].id]
  BY <1>3, Listed
<1>7. \A i \in 1..n : {k \in 1..n : old[k].id = old[i].id} = {i}
  BY <1>2, <1>3, ListedOnce
<1> HIDE DEF n
<1>8. wanted \in Seq(Nat \cup {None}) /\ Len(wanted) = n
  <2>1. wanted \in [1..n -> Nat \cup {None}]
    BY <1>6 DEF R
  <2> HIDE DEF wanted
  <2> QED
    BY <1>6, <2>1, Written
<1> HIDE DEF wanted
<1>9. tags \in Seq(SgtFree) /\ Len(tags) = n /\ ~Repeated(tags)
  <2>1. SgtFree \subseteq Nat /\ IsFiniteSet(SgtFree)
    BY FreeAssumption
  <2> QED
    BY <1>2, <1>5, <1>8, <2>1, GivenOut
<1>10. \A i, j \in 1..n : tags[i] = tags[j] => i = j
  BY <1>6, <1>9, Distinct
<1> HIDE DEF tags
<1>11. /\ DOMAIN list = 1..n
       /\ \A i \in 1..n : list[i].id = old[i].id /\ list[i].tag = tags[i]
  BY <1>4, <1>6
<1>12. Len(list) = n
  <2> DEFINE V == {list[i] : i \in 1..n}
  <2>1. list \in [1..n -> V]
    BY <1>4, <1>6
  <2> HIDE DEF V
  <2> QED
    BY <1>6, <2>1, Written
<1>13. Column(list) = Column(old) /\ Ids(list) = Ids(old)
  BY <1>6, <1>11 DEF Column, Ids
<1>14. ASSUME NEW i \in 1..n
       PROVE  LET id == old[i].id
              IN  /\ TagOf(id) = tags[i]
                  /\ list[SelectLastInSeq(list, LAMBDA x : x.id = id)].tag = tags[i]
  <2> DEFINE id == old[i].id
             I == {k \in 1..Len(old) : old[k].id = id}
             J == {k \in 1..Len(list) : list[k].id = id}
  <2>1. I = {i}
    BY <1>7 DEF n
  <2>2. J = {i}
    BY <1>7, <1>11, <1>12
  <2>3. Min(I) = i /\ Max(J) = i /\ I # {} /\ J # {}
    <3>1. i \in Nat
      BY <1>6
    <3>2. Min({i}) = i /\ Max({i}) = i
      BY <3>1, MinOfOne, MaxOfOne
    <3> HIDE DEF I, J
    <3> QED
      BY <2>1, <2>2, <3>2
  <2>4. SelectInSeq(old, LAMBDA x : x.id = id) = i
    BY <2>3 DEF SelectInSeq
  <2>5. SelectLastInSeq(list, LAMBDA x : x.id = id) = i
    BY <2>3 DEF SelectLastInSeq
  <2> QED
    BY <1>11, <2>4, <2>5
<1> QED
  BY <1>2, <1>6, <1>10, <1>11, <1>12, <1>13, <1>14 DEF tags, n, old, policy, list

\* What the allocator accepts of groups and contracts is valid.
LEMMA GroupsChecked ==
  ASSUME NEW req \in Requirement, Accepted(req), req.schema = "1.2"
  PROVE  GroupIssues(DeriveIntent(req)) = {}
<1> DEFINE int == DeriveIntent(req)
           policy == req.policy
           derived == DerivePolicy(req)
           old == policy.groups
           n == Len(old)
           contracts == policy.contracts
           m == Len(contracts)
           tags == Tags(old).numbers
           OldTag(g) == tags[SelectInSeq(old, LAMBDA x : x.id = g)]
           groups == int.policy.groups
           list == int.policy.contracts
           Found(g) == groups[SelectLastInSeq(groups, LAMBDA x : x.id = g)].tag
           TagOf(g) == IF g \in Ids(groups) THEN Found(g) ELSE None
           D1 == Repeated(Column(groups))
           D2 == Repeated([i \in DOMAIN groups |-> groups[i].tag])
           D3 == \E c \in ToSet(list) : ~({c.from, c.to} \subseteq Ids(groups))
           D4 == Repeated([i \in DOMAIN list |-> <<list[i].from, list[i].to,
                                                   list[i].protocol>>])
           D5 == \E c \in ToSet(list) : c.fromTag # TagOf(c.from)
           D6 == \E c \in ToSet(list) : c.toTag # TagOf(c.to)
           D7 == \E c \in ToSet(list) : c.action = "deny" /\ c.protocol # "ip"
           raised == {
             Raise(D1, "duplicate security group name"),
             Raise(D2, "duplicate security group tag"),
             Raise(D3, "reference.security_group"), Raise(D4, "duplicate policy contract"),
             Raise(D5, "policy.contract.source_tag"),
             Raise(D6, "policy.contract.destination_tag"),
             Raise(D7, "policy.contract.deny_scope")}
<1>1. GroupIssues(int) = UNION raised
  BY DEF GroupIssues
<1>2. policy \in PolicyRecord /\ policy # None
  BY RequirementTyped
<1>3. ContractsAccepted(policy)
  BY <1>2 DEF Accepted, PolicyAccepted
<1>4. int.policy = derived
  <2>1. int.policy = IF req.policy = None THEN None ELSE derived
    BY IntentFields
  <2> HIDE DEF int, derived
  <2> QED
    BY <1>2, <2>1
<1>5. /\ n \in Nat /\ DOMAIN groups = 1..n /\ Len(groups) = n
      /\ ~Repeated(Column(old)) /\ Column(groups) = Column(old) /\ Ids(groups) = Ids(old)
      /\ \A i \in 1..n : groups[i].id = old[i].id /\ groups[i].tag = tags[i]
      /\ \A i, j \in 1..n : tags[i] = tags[j] => i = j
      /\ \A i \in 1..n : OldTag(old[i].id) = tags[i] /\ Found(old[i].id) = tags[i]
      /\ Ids(old) = {old[i].id : i \in 1..n}
  <2> DEFINE l == derived.groups
  <2>1. /\ n \in Nat /\ DOMAIN l = 1..n /\ Len(l) = n /\ DOMAIN old = 1..n
        /\ ~Repeated(Column(old)) /\ Column(l) = Column(old) /\ Ids(l) = Ids(old)
        /\ \A i \in 1..n : l[i].id = old[i].id /\ l[i].tag = tags[i]
        /\ \A i, j \in 1..n : tags[i] = tags[j] => i = j
    BY TagsDerived
  <2>2. \A i \in 1..n :
          LET id == old[i].id
          IN  /\ OldTag(id) = tags[i]
              /\ l[SelectLastInSeq(l, LAMBDA x : x.id = id)].tag = tags[i]
    BY TagsDerived
  <2>3. groups = l
    BY <1>4
  <2>4. Ids(old) = {old[i].id : i \in 1..n}
    BY <2>1 DEF Ids
  <2> HIDE DEF l, groups, old, n, tags
  <2> QED
    BY <2>1, <2>2, <2>3, <2>4
<1>6. /\ m \in Nat /\ DOMAIN contracts = 1..m /\ DOMAIN list = 1..m
      /\ \A i \in 1..m :
           /\ list[i].from = contracts[i].from /\ list[i].to = contracts[i].to
           /\ list[i].protocol = contracts[i].protocol
           /\ list[i].action = contracts[i].action
           /\ list[i].fromTag = OldTag(contracts[i].from)
           /\ list[i].toTag = OldTag(contracts[i].to)
  <2> DEFINE at(i) == [from |-> contracts[i].from, fromTag |-> OldTag(contracts[i].from),
                       to |-> contracts[i].to, toTag |-> OldTag(contracts[i].to),
                       protocol |-> contracts[i].protocol, action |-> contracts[i].action]
             l == derived.contracts
  <2>1. l = [i \in DOMAIN contracts |-> at(i)]
    BY DEF DerivePolicy
  <2>2. contracts \in Seq([from : Nat, to : Nat, protocol : STRING, action : {"permit", "deny"}])
    BY <1>2 DEF PolicyRecord
  <2>3. list = l
    BY <1>4
  <2> HIDE DEF l, list, contracts, OldTag
  <2>4. m \in Nat /\ DOMAIN contracts = 1..m
    BY <2>2
  <2> HIDE DEF m
  <2>5. DOMAIN list = 1..m /\ \A i \in 1..m : list[i] = at(i)
    BY <2>1, <2>3, <2>4
  <2> QED
    BY <2>4, <2>5
<1> HIDE DEF int, groups, list, old, n, contracts, m, tags, derived
<1>7. ~D1
  BY <1>5
<1>8. ~D2
  <2> DEFINE s == [i \in DOMAIN groups |-> groups[i].tag]
  <2>1. DOMAIN s = 1..n /\ \A i \in 1..n : s[i] = tags[i]
    BY <1>5
  <2> HIDE DEF s
  <2>2. \A i, j \in 1..n : s[i] = s[j] => i = j
    BY <1>5, <2>1
  <2>3. ~Repeated(s)
    BY <1>5, <2>1, <2>2, Distinct
  <2> QED
    BY <2>3 DEF s
<1> HIDE DEF OldTag, Found
<1>9. \A g \in Ids(old) : OldTag(g) = TagOf(g)
  BY <1>5
<1> HIDE DEF TagOf
<1>10. /\ \A i \in 1..m : /\ {contracts[i].from, contracts[i].to} \subseteq Ids(old)
                          /\ contracts[i].action = "deny" => contracts[i].protocol = "ip"
       /\ ~Repeated([i \in DOMAIN contracts |-> <<contracts[i].from, contracts[i].to,
                                                  contracts[i].protocol>>])
  <2>1. \A i \in 1..m : contracts[i] \in ToSet(contracts)
    BY <1>6 DEF ToSet
  <2> QED
    BY <1>3, <2>1 DEF ContractsAccepted, contracts, old
<1>11. ~D4
  <2>1. [i \in DOMAIN list |-> <<list[i].from, list[i].to, list[i].protocol>>]
          = [i \in DOMAIN contracts |-> <<contracts[i].from, contracts[i].to,
                                          contracts[i].protocol>>]
    BY <1>6
  <2> QED
    BY <1>10, <2>1
<1>12. ASSUME NEW c \in ToSet(list)
       PROVE  /\ {c.from, c.to} \subseteq Ids(groups)
              /\ c.fromTag = TagOf(c.from) /\ c.toTag = TagOf(c.to)
              /\ c.action = "deny" => c.protocol = "ip"
  <2>1. PICK i \in 1..m : c = list[i]
    BY <1>6 DEF ToSet
  <2>2. /\ c.from = contracts[i].from /\ c.to = contracts[i].to
        /\ c.fromTag = OldTag(c.from) /\ c.toTag = OldTag(c.to)
        /\ c.action = "deny" => c.protocol = "ip"
    BY <1>6, <1>10, <2>1
  <2>3. c.from \in Ids(old) /\ c.to \in Ids(old)
    BY <1>10, <2>2
  <2> QED
    BY <1>5, <1>9, <2>2, <2>3
<1>13. ~D3 /\ ~D5 /\ ~D6 /\ ~D7
  BY <1>12
<1> HIDE DEF D1, D2, D3, D4, D5, D6, D7
<1>14. (\A r \in raised : r = {}) <=>
         ~D1 /\ ~D2 /\ ~D3 /\ ~D4 /\ ~D5 /\ ~D6 /\ ~D7
  BY DEF Raise
<1> HIDE DEF raised
<1>15. GroupIssues(int) = {}
  BY <1>1, <1>7, <1>8, <1>11, <1>13, <1>14, UnionEmpty
<1> QED
  BY <1>15 DEF int

\* What the allocator accepts of an ISE deployment is valid.
LEMMA IseChecked ==
  ASSUME NEW req \in Requirement, Accepted(req), req.schema = "1.2", req.policy.ise # None
  PROVE  IseIssues(DeriveIntent(req)) = {}
<1> DEFINE int == DeriveIntent(req)
           ise == req.policy.ise
           nodes == ise.nodes
           P == Pans(ise)
           pans == {x.id : x \in P}
           R == [id : Nat, address : Address, roles : SUBSET {"pan", "psn", "pxgrid"}]
           D1 == Repeated(Column(nodes))
           D2 == Repeated([i \in DOMAIN nodes |-> nodes[i].address])
           D3 == ise.writer \notin pans
           D4 == int.env = "production" /\ Cardinality(pans) < 2
           raised == {
             Raise(D1, "duplicate ISE node ID"), Raise(D2, "duplicate ISE node address"),
             Raise(D3, "policy.ise.write_node"), Raise(D4, "ha.ise_pan")}
<1>1. req.policy \in PolicyRecord /\ req.policy # None /\ ise # None
  BY RequirementTyped
<1>2. IseAccepted(req)
  BY <1>1 DEF Accepted, PolicyAccepted
<1>3. int.policy.ise = ise /\ int.env = req.env
  <2>1. int.policy = IF req.policy = None THEN None ELSE DerivePolicy(req)
    BY IntentFields
  <2>2. int.env = req.env
    BY IntentFields
  <2>3. DerivePolicy(req).ise = ise
    BY DEF DerivePolicy
  <2> HIDE DEF int
  <2> QED
    BY <1>1, <2>1, <2>2, <2>3
<1>4. nodes \in Seq(R)
  BY <1>1 DEF PolicyRecord, IseRecord
<1> HIDE DEF int
<1>5. IseIssues(int) = UNION raised
  BY <1>3 DEF IseIssues
<1>6. ~D1 /\ ~D2 /\ ~D3
  BY <1>2 DEF IseAccepted
<1>7. ~D4
  <2> SUFFICES ASSUME int.env = "production"
               PROVE  ~(Cardinality(pans) < 2)
    OBVIOUS
  <2> DEFINE f == [x \in P |-> x.id]
             n == Len(nodes)
  <2>1. Cardinality(P) >= 2 /\ ~Repeated(Column(nodes))
    BY <1>2, <1>3 DEF IseAccepted, Production
  <2>2. P \in SUBSET ToSet(nodes)
    BY DEF Pans
  <2> HIDE DEF P, ise, nodes, R
  <2>3. /\ IsFiniteSet(1..n) /\ ToSet(nodes) = {nodes[i] : i \in 1..n}
        /\ \A i, j \in 1..n : nodes[i].id = nodes[j].id => i = j
    BY <1>4, <2>1, Listed, ListedOnce DEF nodes
  <2> HIDE DEF n
  <2>4. IsFiniteSet(ToSet(nodes))
    <3>1. \A h : IsFiniteSet({h[i] : i \in 1..n})
      BY <2>3, ImageFinite
    <3> QED
      BY <2>3, <3>1
  <2>5. IsFiniteSet(P)
    BY <2>2, <2>4, FS_Subset
  <2>6. pans = {f[x] : x \in P}
    OBVIOUS
  <2>7. IsFiniteSet(pans)
    <3> HIDE DEF f
    <3>1. \A h : IsFiniteSet({h[x] : x \in P})
      BY <2>5, ImageFinite
    <3> QED
      BY <2>6, <3>1
  <2>8. f \in Injection(P, pans)
    <3>1. \A x, y \in P : x.id = y.id => x = y
      BY <2>2, <2>3
    <3>2. f \in [P -> pans] /\ IsInjective(f)
      BY <3>1 DEF IsInjective
    <3> HIDE DEF f, pans
    <3> QED
      BY <3>2 DEF Injection
  <2> HIDE DEF pans, f
  <2>9. Cardinality(P) <= Cardinality(pans) /\ Cardinality(P) \in Nat
        /\ Cardinality(pans) \in Nat
    BY <2>5, <2>7, <2>8, FS_Injection, FS_CardinalityType
  <2> QED
    BY <2>1, <2>9
<1> HIDE DEF D1, D2, D3, D4
<1>8. (\A r \in raised : r = {}) <=> ~D1 /\ ~D2 /\ ~D3 /\ ~D4
  BY DEF Raise
<1> HIDE DEF raised
<1>9. IseIssues(int) = {}
  BY <1>5, <1>6, <1>7, <1>8, UnionEmpty
<1> QED
  BY <1>9 DEF int

\* The first of the addresses that a speaker may send from is one of them.
LEMMA FirstSource ==
  ASSUME NEW S, S # {}, \A a \in S : a[2] \in Nat
  PROVE  (CHOOSE a \in S : \A b \in S : a[2] <= b[2]) \in S
<1> DEFINE T == {a[2] : a \in S}
<1>1. T \subseteq Nat /\ T # {}
  OBVIOUS
<1>2. PICK n \in T : \A m \in T : n <= m
  <2> HIDE DEF T
  <2> QED
    BY <1>1, LeastNat
<1>3. PICK a \in S : n = a[2]
  OBVIOUS
<1>4. \A b \in S : a[2] <= b[2]
  BY <1>2, <1>3
<1> QED
  BY <1>4

\* _sxp_source_candidates: loopbacks or peerings, and what validate_intent expects.
LEMMA SourcesFound ==
  ASSUME NEW req \in Requirement, Accepted(req), ~Repeated(Column(req.networks)),
         NEW c, NEW d, d.vrf = c.vrf, d.speaker = c.speaker
  PROVE  /\ ExpectedSources(DeriveIntent(req), d) = Sources(req, c)
         /\ \A a \in Sources(req, c) :
              /\ a \in (PrefixPools \X Nat) \cup (PrefixPools \X Nat \X Nat)
              /\ a[2] \in Nat
<1> DEFINE int == DeriveIntent(req)
           devices == DeriveDevices(req)
           peers == DerivePeers(req)
           local == {x \in ToSet(devices) : x.id = c.speaker}
           near == {x \in ToSet(peers) : x.border = c.speaker /\ x.vrf = c.vrf}
           n == Len(Peerings(req))
           m == Len(req.devices)
<1>0. d.vrf = c.vrf /\ d.speaker = c.speaker
  OBVIOUS
<1>1. /\ int.devices = devices
      /\ int.peers = IF req.handoff.bgp THEN peers ELSE None
  BY IntentFields
<1>2. Sources(req, c) = IF c.vrf = "global" THEN {x.loopback : x \in local}
                        ELSE IF ~req.handoff.bgp THEN {} ELSE {x.localIp : x \in near}
  BY DEF Sources
<1>3. req.handoff.bgp =>
        /\ peers \in Seq(PeerRecord) /\ n \in Nat /\ DOMAIN peers = 1..n
        /\ \A i \in 1..n : peers[i].localIp = <<"border_handoff", i, 1>>
  BY PeersDerived
<1>4. /\ m \in Nat /\ ToSet(devices) = {devices[i] : i \in 1..m}
      /\ \A i \in 1..m : devices[i].loopback = <<"loopbacks", i>>
  BY DevicesDerived
<1> HIDE DEF int, devices, peers, n, m
<1>5. ExpectedSources(int, d) = Sources(req, c)
  <2>1. req.handoff.bgp <=> int.peers # None
    BY <1>1, <1>3, SectionAssumption
  <2>2. ExpectedSources(int, d) =
          IF d.vrf = "global"
          THEN {x.loopback : x \in {y \in ToSet(int.devices) : y.id = d.speaker}}
          ELSE IF int.peers = None THEN {}
          ELSE {p.localIp : p \in {x \in ToSet(int.peers) :
                                     x.border = d.speaker /\ x.vrf = d.vrf}}
    BY DEF ExpectedSources
  <2>3. CASE c.vrf = "global"
    <3>1. ExpectedSources(int, d) = {x.loopback : x \in local}
      BY <1>0, <1>1, <2>2, <2>3
    <3> QED
      BY <1>2, <2>3, <3>1
  <2>4. CASE c.vrf # "global" /\ ~req.handoff.bgp
    BY <1>0, <1>2, <2>1, <2>2, <2>4
  <2>5. CASE c.vrf # "global" /\ req.handoff.bgp
    <3>1. int.peers = peers
      BY <1>1, <2>5
    <3>2. ExpectedSources(int, d) = {x.localIp : x \in near}
      BY <1>0, <2>1, <2>2, <2>5, <3>1
    <3> QED
      BY <1>2, <2>5, <3>2
  <2> QED
    BY <2>3, <2>4, <2>5
<1>6. ASSUME NEW x \in local
      PROVE  x.loopback \in PrefixPools \X Nat /\ x.loopback[2] \in Nat
  <2>1. PICK i \in 1..m : x = devices[i]
    BY <1>4
  <2>2. x.loopback = <<"loopbacks", i>> /\ i \in Nat
    BY <1>4, <2>1
  <2> QED
    BY <2>2 DEF PrefixPools
<1>7. ASSUME req.handoff.bgp, NEW x \in near
      PROVE  x.localIp \in PrefixPools \X Nat \X Nat /\ x.localIp[2] \in Nat
  <2>1. PICK i \in 1..n : x = peers[i]
    BY <1>3, <1>7 DEF ToSet
  <2>2. x.localIp = <<"border_handoff", i, 1>> /\ i \in Nat
    BY <1>3, <1>7, <2>1
  <2> QED
    BY <2>2 DEF PrefixPools
<1> HIDE DEF local, near
<1>8. ASSUME NEW a \in Sources(req, c)
      PROVE  /\ a \in (PrefixPools \X Nat) \cup (PrefixPools \X Nat \X Nat)
             /\ a[2] \in Nat
  BY <1>2, <1>6, <1>7
<1> QED
  BY <1>5, <1>8 DEF int

\* _derive_sxp: a connection for each, from an address its speaker has.
LEMMA SxpDerived ==
  ASSUME NEW req \in Requirement, Accepted(req), ~Repeated(Column(req.networks)),
         req.schema = "1.2", req.policy.sxp # None
  PROVE  LET old == req.policy.sxp
             list == DeriveSxp(req)
             n == Len(old)
         IN  /\ n \in Nat /\ DOMAIN old = 1..n /\ DOMAIN list = 1..n
             /\ old \in Seq(SxpRecord) /\ list \in Seq(ConnectionRecord)
             /\ \A i \in 1..n :
                  /\ list[i].speaker = old[i].speaker /\ list[i].listener = old[i].listener
                  /\ list[i].prefix = old[i].prefix /\ list[i].vrf = old[i].vrf
                  /\ list[i].password = old[i].password
                  /\ list[i].source \in Sources(req, old[i])
<1> DEFINE old == req.policy.sxp
           list == DeriveSxp(req)
           n == Len(old)
           first(S) == CHOOSE a \in S : \A b \in S : a[2] <= b[2]
           source(i) == first(Sources(req, old[i]))
           at(i) == [speaker |-> old[i].speaker, listener |-> old[i].listener,
                     prefix |-> old[i].prefix, vrf |-> old[i].vrf,
                     password |-> old[i].password, source |-> source(i)]
<1>1. req.policy \in PolicyRecord /\ req.policy # None /\ old # None
  BY RequirementTyped
<1>2. old \in Seq(SxpRecord)
  BY <1>1 DEF PolicyRecord
<1>3. list = [i \in DOMAIN old |-> at(i)]
  <2>1. list = IF old = None THEN None ELSE [i \in DOMAIN old |-> at(i)]
    BY DEF DeriveSxp
  <2> HIDE DEF list, old, at
  <2> QED
    BY <1>1, <2>1
<1>4. SourcesAccepted(req)
  BY DEF Accepted
<1> HIDE DEF list, old
<1>5. n \in Nat /\ DOMAIN old = 1..n /\ \A i \in 1..n : old[i] \in SxpRecord
  BY <1>2
<1> HIDE DEF n
<1>6. ASSUME NEW i \in 1..n
      PROVE  /\ source(i) \in Sources(req, old[i])
             /\ source(i) \in (PrefixPools \X Nat) \cup (PrefixPools \X Nat \X Nat)
  <2> DEFINE S == Sources(req, old[i])
  <2>1. old[i] \in ToSet(old)
    BY <1>5 DEF ToSet
  <2>2. S # {}
    BY <1>1, <1>4, <2>1 DEF SourcesAccepted, old
  <2>3. \A a \in S : /\ a \in (PrefixPools \X Nat) \cup (PrefixPools \X Nat \X Nat)
                     /\ a[2] \in Nat
    BY SourcesFound
  <2> HIDE DEF S
  <2>4. first(S) \in S
    BY <2>2, <2>3, FirstSource
  <2> HIDE DEF first
  <2>5. first(S) \in (PrefixPools \X Nat) \cup (PrefixPools \X Nat \X Nat)
    BY <2>3, <2>4
  <2> QED
    BY <2>4, <2>5 DEF S
<1> HIDE DEF source
<1>7. \A i \in 1..n : at(i) \in ConnectionRecord
  BY <1>5, <1>6 DEF SxpRecord, ConnectionRecord
<1>8. list \in [1..n -> ConnectionRecord] /\ \A i \in 1..n : list[i] = at(i)
  <2> HIDE DEF at
  <2> QED
    BY <1>3, <1>5, <1>7
<1>9. DOMAIN list = 1..n /\ list \in Seq(ConnectionRecord)
  BY <1>5, <1>8, Written
<1>10. \A i \in 1..n :
         /\ list[i].speaker = old[i].speaker /\ list[i].listener = old[i].listener
         /\ list[i].prefix = old[i].prefix /\ list[i].vrf = old[i].vrf
         /\ list[i].password = old[i].password
         /\ list[i].source \in Sources(req, old[i])
  BY <1>6, <1>8
<1> QED
  BY <1>2, <1>5, <1>9, <1>10 DEF n, old, list

\* The plane that is derived has the enforcement points, the VLANs and the sections
\* its mode asks for.
LEMMA PlaneChecked ==
  ASSUME NEW req \in Requirement, Accepted(req), ~Repeated(Column(req.networks)),
         req.schema = "1.2"
  PROVE  LET int == DeriveIntent(req)
         IN  /\ PlaneIssues(int) = {}
             /\ int.policy.ise = req.policy.ise
             /\ int.sxp = None <=> req.policy.sxp = None
             /\ req.policy.sxp # None => int.sxp = DeriveSxp(req)
             /\ int.policy.mode = req.policy.mode
<1> DEFINE int == DeriveIntent(req)
           policy == int.policy
           old == req.policy
           edges == {d.id : d \in {x \in ToSet(int.devices) : "fabric_edge" \in x.roles}}
           D1 == policy.mode # "none" /\ policy.enforcers # edges
           D2 == policy.mode # "none" /\ policy.vlans # {p.vlan : p \in ToSet(int.pools)}
           D3 == policy.mode \in {"ise", "hybrid"} /\ policy.ise = None
           D4 == policy.mode \in {"sxp", "hybrid"} /\ int.sxp = None
           D5 == policy.mode \notin {"ise", "hybrid"} /\ policy.ise # None
           D6 == policy.mode \notin {"sxp", "hybrid"} /\ int.sxp # None
           raised == {
             Raise(D1, "policy.enforcement.devices"),
             Raise(D2, "policy.enforcement.vlans"), Raise(D3, "policy.ise.required"),
             Raise(D4, "policy.sxp.required"), Raise(D5, "policy.ise.unexpected"),
             Raise(D6, "policy.sxp.unexpected")}
<1>1. PlaneIssues(int) = UNION raised
  BY DEF PlaneIssues
<1>2. old # None /\ PolicyAccepted(req)
  BY RequirementTyped DEF Accepted
<1>3. ~Repeated(Column(req.devices))
  BY DEF Accepted, DevicesAccepted
<1>4. \A d : HasRole(int, d, "fabric_edge") <=> d \in WithRole(req.devices, "fabric_edge")
  BY <1>3, RolesDerived
<1>5. /\ policy = DerivePolicy(req) /\ int.sxp = DeriveSxp(req)
      /\ int.pools = DerivePools(req)
  <2>1. /\ policy = IF old = None THEN None ELSE DerivePolicy(req)
        /\ int.sxp = IF old = None THEN None ELSE DeriveSxp(req)
        /\ int.pools = DerivePools(req)
    BY IntentFields
  <2> HIDE DEF int
  <2> QED
    BY <1>2, <2>1
<1>6. /\ DerivePolicy(req).mode = old.mode /\ DerivePolicy(req).ise = old.ise
      /\ DerivePolicy(req).enforcers = WithRole(req.devices, "fabric_edge")
      /\ DerivePolicy(req).vlans = PoolVlans(req)
  BY DEF DerivePolicy
<1>7. old.sxp = None => DeriveSxp(req) = None
  BY DEF DeriveSxp
<1>8. old.sxp # None => DeriveSxp(req) # None
  BY SxpDerived, SectionAssumption
<1> HIDE DEF int, old, policy
<1>9. edges = WithRole(req.devices, "fabric_edge")
  <2>1. \A d : d \in edges <=> HasRole(int, d, "fabric_edge")
    BY DEF HasRole
  <2> HIDE DEF edges
  <2> QED
    BY <1>4, <2>1
<1>10. ~D1
  BY <1>5, <1>6, <1>9
<1>11. ~D2
  BY <1>5, <1>6 DEF PoolVlans
<1>12. /\ policy.mode = old.mode /\ policy.ise = old.ise
       /\ int.sxp = None <=> old.sxp = None
  BY <1>5, <1>6, <1>7, <1>8
<1>13. ~D3 /\ ~D4 /\ ~D5 /\ ~D6
  BY <1>2, <1>12 DEF PolicyAccepted, old
<1> HIDE DEF D1, D2, D3, D4, D5, D6
<1>14. (\A r \in raised : r = {}) <=> ~D1 /\ ~D2 /\ ~D3 /\ ~D4 /\ ~D5 /\ ~D6
  BY DEF Raise
<1> HIDE DEF raised
<1>15. PlaneIssues(int) = {}
  BY <1>1, <1>10, <1>11, <1>13, <1>14, UnionEmpty
<1> QED
  BY <1>5, <1>12, <1>15 DEF int, policy, old

\* What the allocator accepts of SXP connections is valid, but for fewer than two
\* speakers or listeners in production.
LEMMA SxpChecked ==
  ASSUME NEW req \in Requirement, Accepted(req), ~Repeated(Column(req.networks)),
         req.schema = "1.2", req.policy.sxp # None
  PROVE  SxpIssues(DeriveIntent(req)) = {} <=> ~(Production(req) /\ FewConnections(req))
<1> DEFINE int == DeriveIntent(req)
           old == req.policy.sxp
           n == Len(old)
           shared == req.services
           ise == req.policy.ise
           list == int.sxp
           withIse == int.policy.mode \in {"ise", "hybrid"}
           prefixes == UNION {s.prefixes : s \in {x \in ToSet(int.services.services) :
                                                    x.type = "ise"}}
           D1 == \E c \in ToSet(list) : c.speaker \notin Ids(int.devices)
           D2 == \E c \in ToSet(list) :
                   /\ c.speaker \in Ids(int.devices)
                   /\ ~HasRole(int, c.speaker, "border")
                   /\ ~HasRole(int, c.speaker, "fabric_edge")
           D3 == \E c \in ToSet(list) : c.vrf \notin VrfsOf(int) \cup {"global"}
           D4 == \E c \in ToSet(list) : c.source \notin ExpectedSources(int, c)
           D5 == \E c \in ToSet(list) : <<c.listener[1], c.listener[2]>> # c.prefix
           D6 == withIse /\ \E c \in ToSet(list) : c.prefix \notin prefixes
           D7 == withIse /\ \E c \in ToSet(list) : c.vrf # int.services.vrf
           D8 == /\ withIse /\ int.policy.ise # None
                 /\ \E c \in ToSet(list) :
                      c.listener \notin {x.address : x \in ToSet(int.policy.ise.nodes)}
           D9 == \E c, x \in ToSet(list) : c.speaker = x.speaker /\ c.password # x.password
           D10 == \E c, x \in ToSet(list) : c.speaker = x.speaker /\ c.vrf # x.vrf
           D11 == Repeated([i \in DOMAIN list |-> <<list[i].speaker, list[i].listener,
                                                    list[i].vrf>>])
           D12 == int.env = "production" /\ Cardinality({c.speaker : c \in ToSet(list)}) < 2
           D13 == int.env = "production" /\ Cardinality({c.listener : c \in ToSet(list)}) < 2
           raised == {
             Raise(D1, "reference.sxp_speaker"), Raise(D2, "policy.sxp.speaker_role"),
             Raise(D3, "reference.sxp_transport_vrf"), Raise(D4, "policy.sxp.source_ip"),
             Raise(D5, "policy.sxp.listener_prefix"),
             Raise(D6, "policy.sxp.listener_service_prefix"),
             Raise(D7, "policy.sxp.transport_vrf"), Raise(D8, "reference.sxp_listener"),
             Raise(D9, "policy.sxp.password_scope"),
             Raise(D10, "policy.sxp.transport_scope"), Raise(D11, "duplicate SXP connection"),
             Raise(D12, "ha.sxp_speakers"), Raise(D13, "ha.sxp_listeners")}
<1>0. req.schema = "1.2" /\ req.policy # None /\ req.services # None /\ old # None
  BY RequirementTyped
<1>1. SxpIssues(int) = UNION raised
  BY DEF SxpIssues
<1>2. ~Repeated(Column(req.devices)) /\ SxpAccepted(req)
  BY <1>0 DEF Accepted, DevicesAccepted, PolicyAccepted
<1>3. /\ \A role : WithRole(req.devices, role) \subseteq Ids(req.devices)
      /\ \A d, role : HasRole(int, d, role) <=> d \in WithRole(req.devices, role)
  BY <1>2, RolesDerived
<1>4. VrfsOf(int) = Vrfs(req)
  BY NetworksDerived
<1>5. list = DeriveSxp(req) /\ int.policy.ise = ise /\ int.policy.mode = req.policy.mode
  BY <1>0, PlaneChecked
<1>6. int.devices = DeriveDevices(req) /\ int.env = req.env
  BY IntentFields
<1>7. int.services.vrf = shared.vrf /\ int.services.services = shared.services
  <2>1. int.services = IF shared = None THEN None ELSE DeriveServices(req)
    BY IntentFields
  <2>2. DeriveServices(req).vrf = shared.vrf /\ DeriveServices(req).services = shared.services
    BY <1>0, ServicesDerived
  <2> HIDE DEF int, shared
  <2> QED
    BY <1>0, <2>1, <2>2 DEF shared
<1>8. /\ n \in Nat /\ DOMAIN old = 1..n /\ DOMAIN list = 1..n
      /\ \A i \in 1..n :
           /\ list[i].speaker = old[i].speaker /\ list[i].listener = old[i].listener
           /\ list[i].prefix = old[i].prefix /\ list[i].vrf = old[i].vrf
           /\ list[i].password = old[i].password
           /\ list[i].source \in Sources(req, old[i])
  <2> DEFINE l == DeriveSxp(req)
  <2>1. /\ n \in Nat /\ DOMAIN old = 1..n /\ DOMAIN l = 1..n
        /\ \A i \in 1..n :
             /\ l[i].speaker = old[i].speaker /\ l[i].listener = old[i].listener
             /\ l[i].prefix = old[i].prefix /\ l[i].vrf = old[i].vrf
             /\ l[i].password = old[i].password
             /\ l[i].source \in Sources(req, old[i])
    BY <1>0, SxpDerived
  <2>2. list = l
    BY <1>5
  <2> HIDE DEF l, list, old, n
  <2> QED
    BY <2>1, <2>2
<1>9. \A c, d : d.vrf = c.vrf /\ d.speaker = c.speaker =>
                  ExpectedSources(int, d) = Sources(req, c)
  BY SourcesFound
<1>10. Ids(int.devices) = Ids(req.devices)
  <2> HIDE DEF int
  <2> QED
    BY <1>6, DevicesDerived
<1> HIDE DEF int, list, old, n, shared, ise
<1>11. /\ \A c \in ToSet(list) : \E i \in 1..n : c = list[i]
       /\ \A i \in 1..n : list[i] \in ToSet(list) /\ old[i] \in ToSet(old)
       /\ \A c \in ToSet(old) : \E i \in 1..n : c = old[i]
  BY <1>8 DEF ToSet
<1>12. ASSUME NEW c \in ToSet(list)
       PROVE  \E x \in ToSet(old) :
                /\ c.speaker = x.speaker /\ c.listener = x.listener /\ c.prefix = x.prefix
                /\ c.vrf = x.vrf /\ c.password = x.password
                /\ c.source \in Sources(req, x)
  <2>1. PICK i \in 1..n : c = list[i]
    BY <1>11
  <2> QED
    BY <1>8, <1>11, <2>1
<1>13. ASSUME NEW c \in ToSet(list)
       PROVE  /\ c.speaker \in Ids(int.devices)
              /\ HasRole(int, c.speaker, "border") \/ HasRole(int, c.speaker, "fabric_edge")
              /\ c.vrf \in VrfsOf(int) \cup {"global"}
              /\ c.source \in ExpectedSources(int, c)
              /\ <<c.listener[1], c.listener[2]>> = c.prefix
              /\ withIse => /\ c.prefix \in prefixes /\ c.vrf = int.services.vrf
                            /\ c.listener \in {x.address : x \in ToSet(int.policy.ise.nodes)}
  <2>1. PICK x \in ToSet(old) :
          /\ c.speaker = x.speaker /\ c.listener = x.listener /\ c.prefix = x.prefix
          /\ c.vrf = x.vrf /\ c.password = x.password
          /\ c.source \in Sources(req, x)
    BY <1>12
  <2>2. /\ x.speaker \in WithRole(req.devices, "border")
                           \cup WithRole(req.devices, "fabric_edge")
        /\ x.vrf \in Vrfs(req) \cup {"global"}
        /\ <<x.listener[1], x.listener[2]>> = x.prefix
        /\ withIse => /\ x.listener \in {y.address : y \in ToSet(ise.nodes)}
                      /\ x.vrf = shared.vrf
                      /\ \E s \in ToSet(shared.services) :
                           s.type = "ise" /\ x.prefix \in s.prefixes
    BY <1>2, <1>5 DEF SxpAccepted, old, shared, ise
  <2>3. c.speaker \in Ids(int.devices)
    BY <1>3, <1>10, <2>1, <2>2
  <2>4. HasRole(int, c.speaker, "border") \/ HasRole(int, c.speaker, "fabric_edge")
    BY <1>3, <2>1, <2>2
  <2>5. c.vrf \in VrfsOf(int) \cup {"global"}
    BY <1>4, <2>1, <2>2
  <2>6. c.source \in ExpectedSources(int, c)
    BY <1>9, <2>1
  <2>7. <<c.listener[1], c.listener[2]>> = c.prefix
    BY <2>1, <2>2
  <2>8. ASSUME withIse
        PROVE  /\ c.prefix \in prefixes /\ c.vrf = int.services.vrf
               /\ c.listener \in {y.address : y \in ToSet(int.policy.ise.nodes)}
    <3>1. PICK s \in ToSet(shared.services) : s.type = "ise" /\ x.prefix \in s.prefixes
      BY <2>2, <2>8
    <3>2. c.prefix \in prefixes
      BY <1>7, <2>1, <3>1
    <3> HIDE DEF withIse
    <3>3. c.vrf = int.services.vrf
      BY <1>7, <2>1, <2>2, <2>8
    <3>4. c.listener \in {y.address : y \in ToSet(int.policy.ise.nodes)}
      BY <1>5, <2>1, <2>2, <2>8
    <3> QED
      BY <3>2, <3>3, <3>4
  <2> HIDE DEF withIse, prefixes
  <2> QED
    BY <2>3, <2>4, <2>5, <2>6, <2>7, <2>8
<1>14. ~D1 /\ ~D2 /\ ~D3 /\ ~D4 /\ ~D5
  <2> HIDE DEF withIse, prefixes
  <2> QED
    BY <1>13
<1>15. ~D6 /\ ~D7 /\ ~D8
  <2> HIDE DEF withIse, prefixes
  <2> QED
    BY <1>13
<1>16. ~D9 /\ ~D10
  <2> SUFFICES ASSUME NEW c \in ToSet(list), NEW d \in ToSet(list), c.speaker = d.speaker
               PROVE  c.password = d.password /\ c.vrf = d.vrf
    OBVIOUS
  <2>1. PICK x \in ToSet(old) : c.speaker = x.speaker /\ c.vrf = x.vrf /\ c.password = x.password
    BY <1>12
  <2>2. PICK y \in ToSet(old) : d.speaker = y.speaker /\ d.vrf = y.vrf /\ d.password = y.password
    BY <1>12
  <2>3. x.speaker = y.speaker => x.vrf = y.vrf /\ x.password = y.password
    BY <1>2 DEF SxpAccepted, old
  <2> QED
    BY <2>1, <2>2, <2>3
<1>17. ~D11
  <2>1. [i \in DOMAIN list |-> <<list[i].speaker, list[i].listener, list[i].vrf>>]
          = [i \in DOMAIN old |-> <<old[i].speaker, old[i].listener, old[i].vrf>>]
    BY <1>8
  <2>2. ~Repeated([i \in DOMAIN old |-> <<old[i].speaker, old[i].listener, old[i].vrf>>])
    BY <1>2 DEF SxpAccepted, old
  <2> QED
    BY <2>1, <2>2
<1>18. D12 \/ D13 <=> Production(req) /\ FewConnections(req)
  <2>1. {c.speaker : c \in ToSet(list)} = {c.speaker : c \in ToSet(old)}
    <3>1. \A c \in ToSet(list) : \E x \in ToSet(old) : c.speaker = x.speaker
      BY <1>12
    <3>2. ASSUME NEW x \in ToSet(old)
          PROVE  \E c \in ToSet(list) : c.speaker = x.speaker
      <4>1. PICK i \in 1..n : x = old[i]
        BY <1>11
      <4>2. list[i] \in ToSet(list) /\ list[i].speaker = x.speaker
        BY <1>8, <1>11, <4>1
      <4> QED
        BY <4>2
    <3> QED
      BY <3>1, <3>2
  <2>2. {c.listener : c \in ToSet(list)} = {c.listener : c \in ToSet(old)}
    <3>1. \A c \in ToSet(list) : \E x \in ToSet(old) : c.listener = x.listener
      BY <1>12
    <3>2. ASSUME NEW x \in ToSet(old)
          PROVE  \E c \in ToSet(list) : c.listener = x.listener
      <4>1. PICK i \in 1..n : x = old[i]
        BY <1>11
      <4>2. list[i] \in ToSet(list) /\ list[i].listener = x.listener
        BY <1>8, <1>11, <4>1
      <4> QED
        BY <4>2
    <3> QED
      BY <3>1, <3>2
  <2>3. FewConnections(req) <=>
          \/ Cardinality({c.speaker : c \in ToSet(old)}) < 2
          \/ Cardinality({c.listener : c \in ToSet(old)}) < 2
    BY <1>0 DEF FewConnections, old
  <2> QED
    BY <1>6, <2>1, <2>2, <2>3 DEF Production
<1> HIDE DEF D1, D2, D3, D4, D5, D6, D7, D8, D9, D10, D11, D12, D13
<1>19. (\A r \in raised : r = {}) <=>
         /\ ~D1 /\ ~D2 /\ ~D3 /\ ~D4 /\ ~D5 /\ ~D6 /\ ~D7 /\ ~D8
         /\ ~D9 /\ ~D10 /\ ~D11 /\ ~D12 /\ ~D13
  BY RaisesNothing
<1> HIDE DEF raised
<1>20. SxpIssues(int) = {} <=> ~(D12 \/ D13)
  BY <1>1, <1>14, <1>15, <1>16, <1>17, <1>19, UnionEmpty
<1> QED
  BY <1>18, <1>20 DEF int

-----------------------------------------------------------------------------
(* The address plan.                                                        *)

\* The prefixes of one pool, numbered one after the other.
LEMMA Segment ==
  ASSUME NEW label, NEW n \in Nat, NEW s, s = [i \in 1..n |-> <<label, i>>]
  PROVE  s \in Seq({label} \X Nat) /\ ~Repeated(s)
<1>1. s \in [1..n -> {label} \X Nat] /\ DOMAIN s = 1..n
  OBVIOUS
<1>2. \A i \in 1..n : s[i] = <<label, i>>
  OBVIOUS
<1>3. ~Repeated(s)
  BY <1>1, <1>2 DEF Repeated
<1> QED
  BY <1>1, <1>3, Written

\* A section that is missing has no prefixes.
LEMMA NoSegment == \A A : <<>> \in Seq(A) /\ ~Repeated(<<>>)
BY DEF Repeated

\* No two prefixes of a derived design overlap (intent.py address.overlap).
LEMMA PlanDistinct ==
  ASSUME NEW req \in Requirement, Accepted(req), ~Repeated(Column(req.networks))
  PROVE  ~Repeated(AddressPlan(DeriveIntent(req)))
<1> DEFINE int == DeriveIntent(req)
           of(list) == [i \in DOMAIN list |-> list[i].prefix]
           s1 == [i \in DOMAIN int.devices |-> int.devices[i].loopback]
           s2 == [i \in DOMAIN int.links |-> int.links[i].subnet]
           s3 == of(int.pools)
           s4 == IF int.peers = None THEN <<>> ELSE of(int.peers)
           s5 == IF int.services = None THEN <<>> ELSE of(int.services.attachments)
           A(label) == {label} \X Nat
<1>1. AddressPlan(int) = s1 \o s2 \o s3 \o s4 \o s5
  BY DEF AddressPlan
<1>2. s1 \in Seq(A("loopbacks")) /\ ~Repeated(s1)
  <2> DEFINE l == DeriveDevices(req)
             n == Len(req.devices)
  <2>1. n \in Nat /\ DOMAIN l = 1..n /\ \A i \in 1..n : l[i].loopback = <<"loopbacks", i>>
    BY DevicesDerived
  <2>2. int.devices = l
    BY IntentFields
  <2> HIDE DEF l, n, int
  <2>3. s1 = [i \in 1..n |-> <<"loopbacks", i>>]
    BY <2>1, <2>2
  <2> HIDE DEF s1
  <2> QED
    BY <2>1, <2>3, Segment
<1>3. s2 \in Seq(A("underlay_p2p")) /\ ~Repeated(s2)
  <2> DEFINE l == DeriveLinks(req)
             n == Len(req.links)
  <2>0. LinksAccepted(req)
    BY DEF Accepted
  <2>1. n \in Nat /\ DOMAIN l = 1..n /\ \A i \in 1..n : l[i].subnet = <<"underlay_p2p", i>>
    BY <2>0, LinksDerived
  <2>2. int.links = l
    BY IntentFields
  <2> HIDE DEF l, n, int
  <2>3. s2 = [i \in 1..n |-> <<"underlay_p2p", i>>]
    BY <2>1, <2>2
  <2> HIDE DEF s2
  <2> QED
    BY <2>1, <2>3, Segment
<1>4. s3 \in Seq(A("overlay_hosts")) /\ ~Repeated(s3)
  <2> DEFINE l == DerivePools(req)
             n == Len(NetworkSites(req))
  <2>0. NetworksAccepted(req) /\ n \in Nat
    BY PlacesListed DEF Accepted
  <2>1. DOMAIN l = 1..n /\ \A i \in 1..n : l[i].prefix = <<"overlay_hosts", i>>
    BY <2>0, PoolsDerived
  <2>2. int.pools = l
    BY IntentFields
  <2> HIDE DEF l, n, int
  <2>3. s3 = [i \in 1..n |-> <<"overlay_hosts", i>>]
    BY <2>1, <2>2
  <2> HIDE DEF s3
  <2> QED
    BY <2>0, <2>3, Segment
<1>5. s4 \in Seq(A("border_handoff")) /\ ~Repeated(s4)
  <2> DEFINE l == DerivePeers(req)
             n == Len(Peerings(req))
  <2>1. int.peers = IF req.handoff.bgp THEN l ELSE None
    BY IntentFields
  <2>2. CASE ~req.handoff.bgp
    <3> HIDE DEF l, int
    <3>1. s4 = <<>>
      BY <2>1, <2>2
    <3> HIDE DEF s4
    <3> QED
      BY <3>1, NoSegment
  <2>3. CASE req.handoff.bgp
    <3>1. /\ n \in Nat /\ DOMAIN l = 1..n /\ l \in Seq(PeerRecord)
          /\ \A i \in 1..n : l[i].prefix = <<"border_handoff", i>>
      BY <2>3, PeersDerived
    <3>2. l # None
      BY <3>1, SectionAssumption
    <3> HIDE DEF l, n, int
    <3>3. s4 = of(l)
      BY <2>1, <2>3, <3>2
    <3>4. of(l) = [i \in 1..n |-> <<"border_handoff", i>>]
      BY <3>1
    <3> HIDE DEF s4, of
    <3> QED
      BY <3>1, <3>3, <3>4, Segment
  <2> QED
    BY <2>2, <2>3
<1>6. s5 \in Seq(A("shared_service_handoff")) /\ ~Repeated(s5)
  <2> DEFINE d == DeriveServices(req)
             l == d.attachments
             n == Len(req.services.attachments)
  <2>0. req.schema = "1.2" <=> req.services # None
    BY RequirementTyped
  <2>1. int.services = IF req.services = None THEN None ELSE d
    BY IntentFields
  <2>2. CASE req.services = None
    <3> HIDE DEF d, int
    <3>1. s5 = <<>>
      BY <2>1, <2>2
    <3> HIDE DEF s5
    <3> QED
      BY <3>1, NoSegment
  <2>3. CASE req.services # None
    <3>1. /\ n \in Nat /\ DOMAIN l = 1..n /\ d \in SharedDesign
          /\ \A i \in 1..n : l[i].prefix = <<"shared_service_handoff", i>>
      BY <2>0, <2>3, ServicesDerived
    <3>2. d # None
      BY <3>1, SectionAssumption
    <3> HIDE DEF d, n, int
    <3>3. s5 = of(l)
      BY <2>1, <2>3, <3>2
    <3>4. of(l) = [i \in 1..n |-> <<"shared_service_handoff", i>>]
      BY <3>1
    <3> HIDE DEF s5, of
    <3> QED
      BY <3>1, <3>3, <3>4, Segment
  <2> QED
    BY <2>2, <2>3
<1> DEFINE A2 == A("loopbacks") \cup A("underlay_p2p")
           A3 == A2 \cup A("overlay_hosts")
           A4 == A3 \cup A("border_handoff")
<1>7. /\ A("loopbacks") \cap A("underlay_p2p") = {}
      /\ A2 \cap A("overlay_hosts") = {}
      /\ A3 \cap A("border_handoff") = {}
      /\ A4 \cap A("shared_service_handoff") = {}
  OBVIOUS
<1> HIDE DEF s1, s2, s3, s4, s5, A, int
<1>8. s1 \o s2 \in Seq(A2) /\ ~Repeated(s1 \o s2)
  BY <1>2, <1>3, <1>7, DistinctConcat
<1>9. s1 \o s2 \o s3 \in Seq(A3) /\ ~Repeated(s1 \o s2 \o s3)
  <2> DEFINE u == s1 \o s2
  <2> HIDE DEF A2, u
  <2>1. u \o s3 \in Seq(A3) /\ ~Repeated(u \o s3)
    BY <1>4, <1>7, <1>8, DistinctConcat DEF u
  <2> QED
    BY <2>1 DEF u
<1>10. s1 \o s2 \o s3 \o s4 \in Seq(A4) /\ ~Repeated(s1 \o s2 \o s3 \o s4)
  <2> DEFINE u == s1 \o s2 \o s3
  <2> HIDE DEF A3, u
  <2>1. u \o s4 \in Seq(A4) /\ ~Repeated(u \o s4)
    BY <1>5, <1>7, <1>9, DistinctConcat DEF u
  <2> QED
    BY <2>1 DEF u
<1>11. ~Repeated(s1 \o s2 \o s3 \o s4 \o s5)
  <2> DEFINE u == s1 \o s2 \o s3 \o s4
  <2> HIDE DEF A4, u
  <2>1. ~Repeated(u \o s5)
    BY <1>6, <1>7, <1>10, DistinctConcat DEF u
  <2> QED
    BY <2>1 DEF u
<1> QED
  BY <1>1, <1>11 DEF int

-----------------------------------------------------------------------------
(* The campus.                                                              *)

\* A hierarchy within a limit is one within a higher limit.
LEMMA HierarchyWithin ==
  ASSUME NEW nodes \in Seq(NodeRecord), IsHierarchy(nodes, MaxDepth)
  PROVE  IsHierarchy(nodes, MaxHierarchyDepth)
<1>1. MaxDepth \in Nat /\ MaxHierarchyDepth \in Nat /\ MaxDepth <= MaxHierarchyDepth
  BY DepthAssumption
<1>2. \A id : Cardinality(Above(nodes, id)) \in Nat
  <2> TAKE id
  <2>1. IsFiniteSet(Ids(nodes))
    BY Listed, ImageFinite
  <2>2. Above(nodes, id) \subseteq Ids(nodes)
    BY DEF Above
  <2>3. IsFiniteSet(Above(nodes, id))
    BY <2>1, <2>2, FS_Subset
  <2> QED
    BY <2>3, FS_CardinalityType
<1>3. \A id : Cardinality(Above(nodes, id)) <= MaxDepth =>
                Cardinality(Above(nodes, id)) <= MaxHierarchyDepth
  BY <1>1, <1>2
<1> QED
  BY <1>3 DEF IsHierarchy

\* The hierarchy and the sites that _derive_site_context accepts.
LEMMA SitesChecked ==
  ASSUME NEW req \in Requirement, Accepted(req)
  PROVE  NodeIssues(req.campus.nodes) = {} /\ SiteIssues(req.campus) = {}
<1> DEFINE campus == req.campus
           nodes == campus.nodes
           sites == campus.sites
           m == Len(sites)
           known == {i \in DOMAIN sites : sites[i].node \in Ids(nodes)}
           D1 == Repeated(Column(sites))
           D2 == known # DOMAIN sites
           D3 == \E i, j \in known : i # j /\ sites[i].node = sites[j].node
           D4 == \E i \in known : TypeIn(nodes, sites[i].node) = "global"
           D5 == \/ campus.model = "single_site" /\ Len(sites) # 1
                 \/ campus.model = "distributed_campus" /\ Len(sites) < 2
           raised == {
             Raise(D1, "duplicate fabric site id"), Raise(D2, "reference.hierarchy_node"),
             Raise(D3, "duplicate fabric-site hierarchy node"),
             Raise(D4, "site.global_node"), Raise(D5, "site.count")}
<1>1. nodes \in Seq(NodeRecord) /\ sites \in Seq(SiteRecord)
  BY RequirementTyped
<1>2. NodesAccepted(nodes) /\ DepthsAccepted(nodes) /\ SitesAccepted(campus)
  BY DEF Accepted, CampusAccepted
<1>3. NodeIssues(nodes) = {}
  BY <1>1, <1>2, ChecksAgree, HierarchyWithin
<1>4. SiteIssues(campus) = UNION raised
  BY DEF SiteIssues
<1>5. /\ ~Repeated(Column(sites)) /\ ~Repeated([i \in DOMAIN sites |-> sites[i].node])
      /\ \A s \in ToSet(sites) : s.node \in Ids(nodes) /\ Entry(nodes, s.node).type # "global"
      /\ campus.model = "single_site" => Len(sites) = 1
      /\ campus.model = "distributed_campus" => Len(sites) >= 2
  BY <1>2 DEF SitesAccepted
<1>6. m \in Nat /\ DOMAIN sites = 1..m /\ \A i \in 1..m : sites[i] \in ToSet(sites)
  BY <1>1, Listed
<1>7. \A id \in Ids(nodes) : TypeIn(nodes, id) = Entry(nodes, id).type
  <2> TAKE id \in Ids(nodes)
  <2>1. ~Repeated(Column(nodes))
    BY <1>2 DEF NodesAccepted
  <2>2. PICK i \in 1..Len(nodes) : nodes[i].id = id /\ Entry(nodes, id) = nodes[i]
    BY <1>1, <2>1, EntryListed
  <2>3. TypeIn(nodes, nodes[i].id) = nodes[i].type
    BY <1>1, <2>1, TypeOfNode
  <2> QED
    BY <2>2, <2>3
<1> HIDE DEF nodes, sites, campus, m
<1>8. ~D2
  BY <1>5, <1>6
<1>9. ~D3
  <2> DEFINE at == [i \in DOMAIN sites |-> sites[i].node]
  <2>1. \A i, j \in 1..m : at[i] = at[j] => i = j
    BY <1>5, <1>6 DEF Repeated
  <2> QED
    BY <1>6, <2>1
<1>10. ~D4
  BY <1>5, <1>6, <1>7
<1>11. ~D5
  BY <1>5, <1>6 DEF m
<1>12. ~D1
  BY <1>5
<1> HIDE DEF D1, D2, D3, D4, D5
<1>13. (\A r \in raised : r = {}) <=> ~D1 /\ ~D2 /\ ~D3 /\ ~D4 /\ ~D5
  BY DEF Raise
<1> HIDE DEF raised
<1>14. SiteIssues(campus) = {}
  BY <1>4, <1>8, <1>9, <1>10, <1>11, <1>12, <1>13, UnionEmpty
<1> QED
  BY <1>3, <1>14 DEF campus, nodes

\* The zones that _derive_site_context accepts.
LEMMA ZonesChecked ==
  ASSUME NEW req \in Requirement, Accepted(req)
  PROVE  ZoneIssues(req.campus, NetworkIds(req)) = {}
<1> DEFINE campus == req.campus
           nodes == campus.nodes
           sites == campus.sites
           zones == campus.zones
           networks == NetworkIds(req)
           place(id) == sites[SelectLastInSeq(sites, LAMBDA s : s.id = id)].node
           D1 == Repeated(Column(zones))
           D2 == \E z \in ToSet(zones) : z.site \notin Ids(sites)
           D3 == \E z \in ToSet(zones) : z.node \notin Ids(nodes)
           D4 == \E z \in ToSet(zones) :
                   /\ z.site \in Ids(sites) /\ z.node \in Ids(nodes)
                   /\ ~DescendsFrom(Parents(nodes), z.node, place(z.site))
           D5 == \E z \in ToSet(zones) : ~(z.networks \subseteq networks)
           raised == {
             Raise(D1, "duplicate fabric zone id"), Raise(D2, "reference.fabric_site"),
             Raise(D3, "reference.hierarchy_node"), Raise(D4, "zone.outside_site"),
             Raise(D5, "reference.virtual_network")}
<1>1. sites \in Seq(SiteRecord)
  BY RequirementTyped
<1>2. SitesAccepted(campus) /\ ZonesAccepted(campus, networks)
  BY DEF Accepted, CampusAccepted
<1>3. ZoneIssues(campus, networks) = UNION raised
  BY DEF ZoneIssues
<1>4. ~Repeated(Column(sites))
  BY <1>2 DEF SitesAccepted
<1>5. \A id \in Ids(sites) : place(id) = Entry(sites, id).node
  <2> TAKE id \in Ids(sites)
  <2>1. PICK i \in 1..Len(sites) : id = sites[i].id
    BY <1>1, Listed
  <2> DEFINE I == {k \in 1..Len(sites) : sites[k].id = id}
  <2>2. I = {i} /\ Entry(sites, id) = sites[i]
    BY <1>1, <1>4, <2>1, ListedOnce
  <2>3. Max(I) = i /\ I # {}
    <3>1. i \in Nat
      BY <1>1, Listed
    <3> HIDE DEF I
    <3> QED
      BY <2>2, <3>1, MaxOfOne
  <2>4. SelectLastInSeq(sites, LAMBDA s : s.id = id) = i
    BY <2>3 DEF SelectLastInSeq
  <2>5. place(id) = sites[i].node
    BY <2>4 DEF place
  <2> QED
    BY <2>2, <2>5
<1> HIDE DEF place, raised
<1>6. ~Repeated(Column(zones))
  BY <1>2 DEF ZonesAccepted
<1>7. \A z \in ToSet(zones) :
        /\ z.site \in Ids(sites) /\ z.node \in Ids(nodes)
        /\ DescendsFrom(Parents(nodes), z.node, Entry(sites, z.site).node)
        /\ z.networks \subseteq networks
  BY <1>2 DEF ZonesAccepted
<1> HIDE DEF nodes, sites, zones, campus, networks
<1>8. ~D1 /\ ~D2 /\ ~D3 /\ ~D5
  BY <1>6, <1>7
<1>9. ~D4
  BY <1>5, <1>7
<1> HIDE DEF D1, D2, D3, D4, D5
<1>10. (\A r \in raised : r = {}) <=> ~D1 /\ ~D2 /\ ~D3 /\ ~D4 /\ ~D5
  BY DEF Raise, raised
<1>11. ZoneIssues(campus, networks) = {}
  BY <1>3, <1>8, <1>9, <1>10, UnionEmpty
<1> QED
  BY <1>11 DEF campus, networks

\* The campus of a derived intent raises no issue.
LEMMA CampusDerived ==
  ASSUME NEW req \in Requirement, Accepted(req)
  PROVE  LET int == DeriveIntent(req)
         IN  CampusIssues(int.campus, {d.site : d \in ToSet(int.devices)}, Ids(int.networks)) = {}
<1> DEFINE int == DeriveIntent(req)
           campus == req.campus
           used == {d.site : d \in ToSet(int.devices)}
           networks == Ids(int.networks)
           stray == ~(used \subseteq Ids(campus.sites))
<1>1. NodeIssues(campus.nodes) = {} /\ SiteIssues(campus) = {}
  BY SitesChecked
<1>2. networks = NetworkIds(req)
  BY NetworksDerived DEF NetworkIds
<1>3. ZoneIssues(campus, NetworkIds(req)) = {}
  BY ZonesChecked
<1>4. int.campus = campus /\ int.devices = DeriveDevices(req)
  BY IntentFields
<1>5. ~stray
  <2> DEFINE old == req.devices
             l == DeriveDevices(req)
             n == Len(old)
  <2>1. UsedSites(req) \subseteq Ids(campus.sites)
    BY DEF Accepted, CampusAccepted
  <2>2. /\ \A i \in 1..n : l[i].site = old[i].site
        /\ ToSet(l) = {l[i] : i \in 1..n}
    BY DevicesDerived
  <2>3. \A i \in 1..n : old[i] \in ToSet(old)
    BY RequirementTyped, Listed
  <2>4. \A i \in 1..n : old[i].site \in UsedSites(req)
    BY <2>3 DEF UsedSites
  <2> HIDE DEF int, l, n, old
  <2>5. \A d \in ToSet(l) : d.site \in UsedSites(req)
    BY <2>2, <2>4
  <2> QED
    BY <1>4, <2>1, <2>5 DEF l
<1> HIDE DEF stray, networks, used, int
<1>6. Raise(stray, "reference.fabric_site") = {}
  BY <1>5, RaisesNothing
<1>7. CampusIssues(campus, used, networks) = {}
  <2> DEFINE r1 == NodeIssues(campus.nodes)
             r2 == SiteIssues(campus)
             r3 == Raise(stray, "reference.fabric_site")
             r4 == ZoneIssues(campus, networks)
  <2>1. CampusIssues(campus, used, networks) = UNION {r1, r2, r3, r4}
    BY DEF CampusIssues, stray
  <2>2. r1 = {} /\ r2 = {} /\ r3 = {} /\ r4 = {}
    BY <1>1, <1>2, <1>3, <1>6
  <2> HIDE DEF r1, r2, r3, r4
  <2> QED
    BY <2>1, <2>2
<1> QED
  BY <1>4, <1>7 DEF int, networks, used

-----------------------------------------------------------------------------
(* The whole of it.                                                         *)

\* The defects by name.
LEMMA DefectsNamed ==
  ASSUME NEW req \in Requirement
  PROVE  /\ Ambiguous(req) <=>
              \/ Repeated(NodeNames(req)) \/ Repeated(NodeAddresses(req))
              \/ GivenTwice(NodeDashboards(req))
              \/ Repeated(Column(req.links)) \/ Repeated(Column(req.networks))
              \/ Repeated([i \in DOMAIN req.networks |-> req.networks[i].vrf])
              \/ Repeated(PoolNames(req))
         /\ Unfit(req) <=>
              \/ WithRole(req.devices, "fabric_edge") = {}
              \/ WithRole(req.devices, "border") = {}
              \/ \E l \in ToSet(req.links) : l.ends[1][1] = l.ends[2][1]
              \/ \E i \in DOMAIN NetworkSites(req) : FirstFit(VlanFree, i) \in LegacyVlans
<1>1. Ambiguous(req) <=>
        \/ Repeated(NodeNames(req)) \/ Repeated(NodeAddresses(req))
        \/ GivenTwice(NodeDashboards(req))
        \/ Repeated(Column(req.links)) \/ Repeated(Column(req.networks))
        \/ Repeated([i \in DOMAIN req.networks |-> req.networks[i].vrf])
        \/ Repeated(PoolNames(req))
  BY DEF Ambiguous, NodeNames, NodeAddresses, NodeDashboards, PoolNames
<1> QED
  BY <1>1 DEF Unfit

\* Of what only schema 1.2 has, validation refuses too few connections in production.
LEMMA PolicyChecked ==
  ASSUME NEW req \in Requirement, Accepted(req), ~Repeated(Column(req.networks))
  PROVE  LET int == DeriveIntent(req)
         IN  (IF int.schema # "1.2" THEN {}
              ELSE UNION {ServiceIssues(int), PlaneIssues(int), GroupIssues(int),
                          IF int.policy.ise = None THEN {} ELSE IseIssues(int),
                          IF int.sxp = None THEN {} ELSE SxpIssues(int)}) = {}
             <=> ~(Production(req) /\ FewConnections(req))
<1> DEFINE int == DeriveIntent(req)
           g1 == ServiceIssues(int)
           g2 == PlaneIssues(int)
           g3 == GroupIssues(int)
           g4 == IF int.policy.ise = None THEN {} ELSE IseIssues(int)
           g5 == IF int.sxp = None THEN {} ELSE SxpIssues(int)
<1>1. int.schema = req.schema
  BY IntentFields
<1>2. ASSUME req.schema = "1.2"
      PROVE  /\ g1 = {} /\ g2 = {} /\ g3 = {} /\ g4 = {}
             /\ g5 = {} <=> ~(Production(req) /\ FewConnections(req))
  <2>1. g1 = {} /\ g3 = {}
    BY <1>2, ServicesChecked, GroupsChecked
  <2>2. /\ g2 = {} /\ int.policy.ise = req.policy.ise
        /\ int.sxp = None <=> req.policy.sxp = None
    BY <1>2, PlaneChecked
  <2>3. req.policy.ise # None => IseIssues(int) = {}
    BY <1>2, IseChecked
  <2>4. req.policy.sxp # None =>
          (SxpIssues(int) = {} <=> ~(Production(req) /\ FewConnections(req)))
    BY <1>2, SxpChecked
  <2>5. req.policy.sxp = None => ~FewConnections(req)
    BY DEF FewConnections
  <2> HIDE DEF int
  <2> QED
    BY <2>1, <2>2, <2>3, <2>4, <2>5
<1> HIDE DEF g1, g2, g3, g4, g5, int
<1>3. req.schema = "1.2" =>
        (UNION {g1, g2, g3, g4, g5} = {} <=> ~(Production(req) /\ FewConnections(req)))
  BY <1>2
<1>4. req.schema # "1.2" => ~FewConnections(req)
  BY RequirementTyped DEF FewConnections
<1> QED
  BY <1>1, <1>3, <1>4 DEF g1, g2, g3, g4, g5, int

\* LateRejection, of every requirements document the allocator accepts: what it
\* derives is refused exactly for a defect that it does not look for or puts up with.
LEMMA RejectedForDefects ==
  ASSUME NEW req \in Requirement, Accepted(req)
  PROVE  Issues(DeriveIntent(req)) # {} <=> Defective(req)
<1> DEFINE int == DeriveIntent(req)
           g1 == CampusIssues(int.campus, {d.site : d \in ToSet(int.devices)},
                              Ids(int.networks))
           g2 == DeviceIssues(int)
           g3 == LinkIssues(int)
           g4 == NetworkIssues(int)
           g5 == PoolIssues(int)
           g6 == AttachmentIssues(int)
           g7 == LispIssues(int)
           g8 == IF Pubsub(int) THEN PubsubIssues(int) ELSE {}
           g9 == IF int.peers = None
                 THEN Raise(int.env = "production", "bgp.handoff.required")
                 ELSE HandoffIssues(int)
                        \cup (IF int.schema = "1.2" THEN FusionPeerIssues(int) ELSE {})
           g10 == Raise(Repeated(AddressPlan(int)), "address.overlap")
           g11 == IF int.schema # "1.2" THEN {}
                  ELSE UNION {ServiceIssues(int), PlaneIssues(int), GroupIssues(int),
                              IF int.policy.ise = None THEN {} ELSE IseIssues(int),
                              IF int.sxp = None THEN {} ELSE SxpIssues(int)}
<1>1. Issues(int) = UNION {g1, g2, g3, g4, g5, g6, g7, g8, g9, g10, g11}
  BY DEF Issues
<1>2. g1 = {} /\ g7 = {}
  BY CampusDerived, LispChecked
<1>3. g8 = {}
  <2>1. int.schema = req.schema /\ int.mode = req.mode
    BY IntentFields
  <2>2. Pubsub(req) => PubsubIssues(int) = {}
    BY PubsubChecked
  <2> HIDE DEF int
  <2> QED
    BY <2>1, <2>2 DEF Pubsub
<1> DEFINE fit == ~Ambiguous(req) /\ ~Unfit(req) /\ ~(Production(req) /\ FewNodes(req))
<1>4. g2 = {} /\ g3 = {} /\ g4 = {} /\ g5 = {} <=> fit
  <2>1. LinksAccepted(req)
    BY DEF Accepted
  <2>2. g2 = {} <=> /\ ~Repeated(NodeNames(req)) /\ ~Repeated(NodeAddresses(req))
                    /\ ~GivenTwice(NodeDashboards(req))
                    /\ WithRole(req.devices, "fabric_edge") # {}
                    /\ WithRole(req.devices, "border") # {}
                    /\ ~(Production(req) /\ FewNodes(req))
    BY DevicesChecked
  <2>3. g3 = {} <=> /\ ~Repeated(Column(req.links))
                    /\ ~\E l \in ToSet(req.links) : l.ends[1][1] = l.ends[2][1]
    BY <2>1, LinksChecked
  <2>4. g4 = {} <=> /\ ~Repeated(Column(req.networks))
                    /\ ~Repeated([i \in DOMAIN req.networks |-> req.networks[i].vrf])
    BY NetworksChecked
  <2>5. g5 = {} <=> /\ ~Repeated(PoolNames(req))
                    /\ ~\E i \in DOMAIN NetworkSites(req) : FirstFit(VlanFree, i) \in LegacyVlans
    BY PoolsChecked
  <2> HIDE DEF g2, g3, g4, g5
  <2> QED
    BY <2>2, <2>3, <2>4, <2>5, DefectsNamed
<1>5. fit => /\ ~Repeated(Column(req.networks)) /\ ~Repeated(PoolNames(req))
             /\ WithRole(req.devices, "border") # {}
  BY DefectsNamed
<1>6. ASSUME fit
      PROVE  /\ g6 = {} /\ g10 = {}
             /\ g9 = {} <=> ~Unconnected(req) /\ ~(Production(req) /\ LonePaths(req))
             /\ g11 = {} <=> ~(Production(req) /\ FewConnections(req))
  <2>1. g6 = {}
    BY <1>5, <1>6, AttachmentsChecked
  <2>2. g9 = {} <=> ~Unconnected(req) /\ ~(Production(req) /\ LonePaths(req))
    BY <1>5, <1>6, PeersChecked
  <2>3. g10 = {}
    BY <1>5, <1>6, PlanDistinct, RaisesNothing
  <2>4. g11 = {} <=> ~(Production(req) /\ FewConnections(req))
    BY <1>5, <1>6, PolicyChecked
  <2> QED
    BY <2>1, <2>2, <2>3, <2>4
<1> HIDE DEF g1, g2, g3, g4, g5, g6, g7, g8, g9, g10, g11
<1>7. UNION {g1, g2, g3, g4, g5, g6, g7, g8, g9, g10, g11} = {} <=>
        /\ g1 = {} /\ g2 = {} /\ g3 = {} /\ g4 = {} /\ g5 = {} /\ g6 = {}
        /\ g7 = {} /\ g8 = {} /\ g9 = {} /\ g10 = {} /\ g11 = {}
  OBVIOUS
<1>8. Defective(req) <=>
        \/ ~fit \/ Unconnected(req)
        \/ Production(req) /\ LonePaths(req)
        \/ Production(req) /\ FewConnections(req)
  BY DEF Defective, Thin
<1> HIDE DEF fit, int
<1> QED
  BY <1>1, <1>2, <1>3, <1>4, <1>6, <1>7, <1>8 DEF int

-----------------------------------------------------------------------------
(* The theorems of the specification.                                       *)

\* What is opened is a document of its kind.
DocumentTyped ==
  /\ doc.kind = "campus" => doc \in Campus
  /\ doc.kind = "requirements" => doc \in Requirement
  /\ doc.kind = "registry" => doc \in Registry
  /\ doc.kind = "draft" => doc.draft \in Campuses \cup Requirements \cup Registries

\* Drafts are revised into documents of their own kind; nothing else is opened.
THEOREM DocumentInvariant == DocSpec => []DocumentTyped
<1>1. DocInit => DocumentTyped
  BY DEF DocInit, DocumentTyped, Nothing
<1>2. DocumentTyped /\ [DocNext]_doc => DocumentTyped'
  <2> SUFFICES ASSUME DocumentTyped, [DocNext]_doc PROVE DocumentTyped'
    OBVIOUS
  <2>1. CASE Draft
    BY <2>1 DEF Draft, DocumentTyped
  <2>2. CASE Open
    <3>1. PICK d \in Campuses \cup Requirements \cup Registries : doc' \in Revisions(d)
      BY <2>2 DEF Open, DocumentTyped
    <3>2. CASE d \in Campuses
      BY <3>1, <3>2, DraftsAssumption DEF DocumentTyped, Campus
    <3>3. CASE d \in Requirements
      BY <3>1, <3>3, DraftsAssumption DEF DocumentTyped, Requirement
    <3>4. CASE d \in Registries
      BY <3>1, <3>4, DraftsAssumption DEF DocumentTyped, Registry
    <3> QED
      BY <3>1, <3>2, <3>3, <3>4
  <2>3. CASE UNCHANGED doc
    BY <2>3 DEF DocumentTyped
  <2> QED
    BY <2>1, <2>2, <2>3 DEF DocNext
<1> QED
  BY <1>1, <1>2, PTL DEF DocSpec

\* _detect_dependency_cycles (acceptance.py:90-120) finds a cycle exactly when some
\* gate waits for itself, in any registry: duplicate names, optional gates and names
\* without a gate included.
THEOREM SearchFindsCycles == DocSpec => []CyclesFound
<1>1. DocumentTyped => CyclesFound
  BY SearchFinds DEF DocumentTyped, CyclesFound
<1> QED
  BY <1>1, DocumentInvariant, PTL

\* validate_production_acceptance (acceptance.py:343-446) calls a release ready only
\* when every gate it rests on, however indirectly, passed on evidence that passed.
THEOREM ReadyIsProven == DocSpec => []ReadyMeansProven
<1>1. DocumentTyped => ReadyMeansProven
  BY ReadyRestsOnProof DEF DocumentTyped, ReadyMeansProven
<1> QED
  BY <1>1, DocumentInvariant, PTL

\* The walks of allocator.py:284-309 and intent.py:376-423 accept exactly the trees
\* within their limits, for any names, order and number of nodes, and the zones that
\* either accepts lie inside their sites.
THEOREM HierarchyIsTree == DocSpec => []HierarchyMatchesTree
<1>1. DocumentTyped => HierarchyMatchesTree
  BY CampusChecked DEF DocumentTyped, HierarchyMatchesTree
<1> QED
  BY <1>1, DocumentInvariant, PTL

\* validate_intent (intent.py:266-320) refuses what derive_fabric_intent
\* (allocator.py:450-496, 1650-1704) derives exactly when the requirements have one of
\* the defects that the allocator does not look for or that its guardrails put up with,
\* whatever the requirements and the guardrails.  It speaks of the rules that
\* DesignDerivation and IntentValidation translate: not of types, formats and ranges of
\* fields, of multicast, nor of schema 1.0.
THEOREM RejectionIsExact == DocSpec => []LateRejection
<1>1. DocumentTyped => LateRejection
  BY RejectedForDefects DEF DocumentTyped, LateRejection
<1> QED
  BY <1>1, DocumentInvariant, PTL
=============================================================================
