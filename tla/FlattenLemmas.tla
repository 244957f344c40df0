--------------------------- MODULE FlattenLemmas ---------------------------
(***************************************************************************)
(* What FlattenSeq and FoldSet of the community modules return.  The steps *)
(* of a run and of a simulation are flattened from one sequence per device *)
(* or phase, and sets are put in a sequence by a fold; a theorem about all *)
(* of the steps needs to know that none is lost, that none is added on the *)
(* way, and which comes before which.                                      *)
(*                                                                         *)
(* Both are recursive functions, so this is induction over data.           *)
(* The induction theorems of the library take the formula as an operator,  *)
(* which no backend can instantiate.  WFMin does not: a set of numbers     *)
(* that is not empty has a least element, and the least counterexample to  *)
(* what is to be proved is what an induction needs.                        *)
(***************************************************************************)
EXTENDS SequencesExt, Integers, FiniteSetTheorems, WellFoundedInduction, TLAPS

LEMMA LeastNat ==
  ASSUME NEW T, T \subseteq Nat, T # {}
  PROVE  \E n \in T : \A m \in T : n <= m
<1> DEFINE R == OpToRel(<, Nat)
<1>1. IsWellFoundedOn(R, Nat)
  BY NatLessThanWellFounded
<1> HIDE DEF R
<1>2. PICK n \in T : \A m \in T : ~(<<m, n>> \in R)
  BY <1>1, WFMin
<1>3. ASSUME NEW m \in T
      PROVE  ~(m < n)
  <2>1. <<m, n>> \in Nat \X Nat
    OBVIOUS
  <2>2. m < n => <<m, n>> \in R
    BY <2>1 DEF R, OpToRel
  <2> QED
    BY <1>2, <2>2
<1> QED
  BY <1>2, <1>3

\* Induction over the numbers, with the formula as a set.
LEMMA SetInduction ==
  ASSUME NEW S, 0 \in S, \A n \in Nat : n \in S => n + 1 \in S
  PROVE  Nat \subseteq S
<1> SUFFICES ASSUME Nat \ S # {} PROVE FALSE
  OBVIOUS
<1>1. PICK n \in Nat \ S : \A m \in Nat \ S : n <= m
  BY LeastNat
<1>2. n # 0 /\ n - 1 \in Nat /\ n - 1 + 1 = n
  BY <1>1
<1>3. n - 1 \in S
  BY <1>1, <1>2
<1> QED
  BY <1>1, <1>2, <1>3

-----------------------------------------------------------------------------
(* The recursion of FlattenSeq. *)


\* g is the first k joins of seqs.
Joins(seqs, k, g) ==
  g = [i \in 1..k |-> IF i = 1 THEN seqs[i] ELSE g[i-1] \o seqs[i]]

LEMMA JoinsExist ==
  ASSUME NEW seqs
  PROVE  \A k \in Nat : \E g : Joins(seqs, k, g)
<1> DEFINE T == {k \in Nat : \E g : Joins(seqs, k, g)}
<1>1. 0 \in T
  <2>1. Joins(seqs, 0, [i \in {} |-> 0])
    BY DEF Joins
  <2> QED
    BY <2>1
<1>2. ASSUME NEW n \in Nat, n \in T
      PROVE  n + 1 \in T
  <2>1. PICK g : Joins(seqs, n, g)
    BY <1>2
  <2> DEFINE h == [i \in 1..(n + 1) |->
                     IF i <= n THEN g[i]
                     ELSE IF i = 1 THEN seqs[i] ELSE g[n] \o seqs[i]]
  <2>2. \A i \in 1..n : g[i] = IF i = 1 THEN seqs[i] ELSE g[i-1] \o seqs[i]
    BY <2>1 DEF Joins
  <2>3. ASSUME NEW i \in 1..(n + 1)
        PROVE  h[i] = IF i = 1 THEN seqs[i] ELSE h[i-1] \o seqs[i]
    <3>1. CASE i <= n
      BY <2>2, <3>1
    <3>2. CASE i = n + 1
      BY <3>2
    <3> QED
      BY <3>1, <3>2
  <2>4. h = [i \in 1..(n + 1) |-> h[i]]
    OBVIOUS
  <2> HIDE DEF h
  <2>5. Joins(seqs, n + 1, h)
    BY <2>3, <2>4 DEF Joins
  <2> QED
    BY <2>5
<1> HIDE DEF T
<1>3. Nat \subseteq T
  BY <1>1, <1>2, SetInduction
<1> QED
  BY <1>3 DEF T

LEMMA FlattenJoins ==
  ASSUME NEW seqs, Len(seqs) \in Nat \ {0}
  PROVE  \E g : Joins(seqs, Len(seqs), g) /\ FlattenSeq(seqs) = g[Len(seqs)]
<1> DEFINE c == CHOOSE g :
                  g = [i \in 1..Len(seqs) |->
                         IF i = 1 THEN seqs[i] ELSE g[i-1] \o seqs[i]]
<1>1. PICK g : Joins(seqs, Len(seqs), g)
  BY JoinsExist
<1>2. Joins(seqs, Len(seqs), c)
  BY <1>1 DEF Joins
<1>3. FlattenSeq(seqs) = c[Len(seqs)]
  BY DEF FlattenSeq
<1> QED
  BY <1>2, <1>3

-----------------------------------------------------------------------------
(* Its elements. *)

\* s has the elements of the first j sequences of seqs and no others.
Gathers(s, seqs, j) ==
  /\ \A i \in 1..j : \A k \in 1..Len(seqs[i]) :
       \E n \in 1..Len(s) : s[n] = seqs[i][k]
  /\ \A n \in 1..Len(s) :
       \E i \in 1..j : \E k \in 1..Len(seqs[i]) : s[n] = seqs[i][k]

LEMMA GatherNext ==
  ASSUME NEW S, NEW seqs \in Seq(Seq(S)), NEW j \in 1..Len(seqs), j # 1,
         NEW s \in Seq(S), Gathers(s, seqs, j - 1)
  PROVE  s \o seqs[j] \in Seq(S) /\ Gathers(s \o seqs[j], seqs, j)
<1> DEFINE t == seqs[j]
           u == s \o t
<1>1. t \in Seq(S) /\ Len(s) \in Nat /\ Len(t) \in Nat
  OBVIOUS
<1> HIDE DEF t
<1>2. /\ u \in Seq(S) /\ Len(u) = Len(s) + Len(t)
      /\ \A n \in 1..Len(s) : u[n] = s[n]
      /\ \A n \in 1..Len(t) : u[Len(s) + n] = t[n]
      /\ \A n \in (Len(s) + 1)..Len(u) : u[n] = t[n - Len(s)]
  BY <1>1
<1> HIDE DEF u
<1>3. ASSUME NEW i \in 1..j, NEW k \in 1..Len(seqs[i])
      PROVE  \E n \in 1..Len(u) : u[n] = seqs[i][k]
  <2>1. CASE i = j
    <3>1. k \in 1..Len(t) /\ Len(s) + k \in 1..Len(u)
      BY <1>1, <1>2, <2>1 DEF t
    <3>2. u[Len(s) + k] = t[k]
      BY <1>2, <3>1
    <3> QED
      BY <2>1, <3>1, <3>2 DEF t
  <2>2. CASE i # j
    <3>1. i \in 1..(j - 1)
      BY <2>2
    <3>2. PICK n \in 1..Len(s) : s[n] = seqs[i][k]
      BY <3>1 DEF Gathers
    <3> QED
      BY <1>1, <1>2, <3>2
  <2> QED
    BY <2>1, <2>2
<1>4. ASSUME NEW n \in 1..Len(u)
      PROVE  \E i \in 1..j : \E k \in 1..Len(seqs[i]) : u[n] = seqs[i][k]
  <2>1. CASE n <= Len(s)
    <3>1. u[n] = s[n] /\ n \in 1..Len(s)
      BY <1>1, <1>2, <2>1
    <3>2. PICK i \in 1..(j - 1) : \E k \in 1..Len(seqs[i]) : s[n] = seqs[i][k]
      BY <3>1 DEF Gathers
    <3>3. i \in 1..j
      OBVIOUS
    <3>4. PICK k \in 1..Len(seqs[i]) : s[n] = seqs[i][k]
      BY <3>2
    <3> QED
      BY <3>1, <3>3, <3>4
  <2>2. CASE n > Len(s)
    <3>1. n - Len(s) \in 1..Len(t) /\ u[n] = t[n - Len(s)]
      BY <1>1, <1>2, <2>2
    <3>2. j \in 1..j
      OBVIOUS
    <3> QED
      BY <3>1, <3>2 DEF t
  <2> QED
    BY <1>1, <2>1, <2>2
<1>5. Gathers(u, seqs, j)
  BY <1>3, <1>4 DEF Gathers
<1> QED
  BY <1>2, <1>5 DEF u, t

\* FlattenSeq returns a sequence of the elements of its argument, all of them.
THEOREM FlattenGathers ==
  ASSUME NEW S, NEW seqs \in Seq(Seq(S))
  PROVE  /\ FlattenSeq(seqs) \in Seq(S)
         /\ Gathers(FlattenSeq(seqs), seqs, Len(seqs))
<1>1. CASE Len(seqs) = 0
  <2>1. seqs = <<>>
    BY <1>1
  <2> QED
    BY <1>1, <2>1 DEF FlattenSeq, Gathers
<1>2. CASE Len(seqs) # 0
  <2>1. Len(seqs) \in Nat \ {0}
    BY <1>2
  <2>2. PICK g : Joins(seqs, Len(seqs), g) /\ FlattenSeq(seqs) = g[Len(seqs)]
    BY <2>1, FlattenJoins
  <2>3. \A i \in 1..Len(seqs) : g[i] = IF i = 1 THEN seqs[i] ELSE g[i-1] \o seqs[i]
    BY <2>2 DEF Joins
  <2> DEFINE T == {j \in Nat : j + 1 \in 1..Len(seqs) =>
                      g[j + 1] \in Seq(S) /\ Gathers(g[j + 1], seqs, j + 1)}
  <2>4. 0 \in T
    <3>1. g[1] = seqs[1] /\ seqs[1] \in Seq(S)
      BY <2>1, <2>3
    <3>2. Gathers(seqs[1], seqs, 1)
      BY DEF Gathers
    <3> QED
      BY <3>1, <3>2
  <2>5. ASSUME NEW n \in Nat, n \in T
        PROVE  n + 1 \in T
    <3> SUFFICES ASSUME n + 1 + 1 \in 1..Len(seqs)
                 PROVE  /\ g[n + 1 + 1] \in Seq(S)
                        /\ Gathers(g[n + 1 + 1], seqs, n + 1 + 1)
      OBVIOUS
    <3> DEFINE j == n + 1 + 1
    <3>1. j \in 1..Len(seqs) /\ j # 1 /\ j - 1 = n + 1 /\ n + 1 \in 1..Len(seqs)
      BY <2>1
    <3>2. g[j - 1] \in Seq(S) /\ Gathers(g[j - 1], seqs, j - 1)
      BY <2>5, <3>1
    <3> HIDE DEF j
    <3>3. g[j] = g[j - 1] \o seqs[j]
      BY <2>3, <3>1
    <3>4. g[j] \in Seq(S) /\ Gathers(g[j], seqs, j)
      BY <3>1, <3>2, <3>3, GatherNext
    <3> QED
      BY <3>4 DEF j
  <2> HIDE DEF T
  <2>6. Nat \subseteq T
    BY <2>4, <2>5, SetInduction
  <2>7. Len(seqs) - 1 \in T /\ Len(seqs) - 1 + 1 = Len(seqs)
    BY <2>1, <2>6
  <2> QED
    BY <2>1, <2>2, <2>7 DEF T
<1> QED
  BY <1>1, <1>2

THEOREM FlattenHas ==
  ASSUME NEW S, NEW seqs \in Seq(Seq(S)), NEW i \in 1..Len(seqs),
         NEW k \in 1..Len(seqs[i])
  PROVE  \E n \in 1..Len(FlattenSeq(seqs)) : FlattenSeq(seqs)[n] = seqs[i][k]
<1>1. Gathers(FlattenSeq(seqs), seqs, Len(seqs))
  BY FlattenGathers
<1> QED
  BY <1>1 DEF Gathers

THEOREM FlattenFrom ==
  ASSUME NEW S, NEW seqs \in Seq(Seq(S)), NEW n \in 1..Len(FlattenSeq(seqs))
  PROVE  \E i \in 1..Len(seqs) : \E k \in 1..Len(seqs[i]) :
           FlattenSeq(seqs)[n] = seqs[i][k]
<1>1. Gathers(FlattenSeq(seqs), seqs, Len(seqs))
  BY FlattenGathers
<1> QED
  BY <1>1 DEF Gathers
-----------------------------------------------------------------------------
(* The set of its elements, and the order they come in. *)

Elems(s) == {s[i] : i \in 1..Len(s)}

IsSequence(s) == s \in Seq(Elems(s))

\* Every y of the sequence has an x before it.
Precedes(s, x, y) ==
  \A n \in 1..Len(s) : s[n] = y => \E m \in 1..(n - 1) : s[m] = x

LEMMA ElemsOfSequence ==
  ASSUME NEW S, NEW s \in Seq(S)
  PROVE  IsSequence(s) /\ Elems(s) \subseteq S
<1>1. s = [i \in 1..Len(s) |-> s[i]] /\ Len(s) \in Nat /\ \A i \in 1..Len(s) : s[i] \in S
  OBVIOUS
<1>2. \A i \in 1..Len(s) : s[i] \in Elems(s)
  BY DEF Elems
<1>3. s \in Seq(Elems(s))
  BY <1>1, <1>2
<1> QED
  BY <1>1, <1>3 DEF IsSequence, Elems

LEMMA SequenceShape ==
  ASSUME NEW s, IsSequence(s)
  PROVE  Len(s) \in Nat /\ \A S : Elems(s) \subseteq S => s \in Seq(S)
<1>1. s = [i \in 1..Len(s) |-> s[i]] /\ Len(s) \in Nat /\ \A i \in 1..Len(s) : s[i] \in Elems(s)
  BY DEF IsSequence
<1>2. ASSUME NEW S, Elems(s) \subseteq S PROVE s \in Seq(S)
  <2>1. \A i \in 1..Len(s) : s[i] \in S
    BY <1>1, <1>2
  <2> QED
    BY <1>1, <2>1
<1> QED
  BY <1>1, <1>2

LEMMA ElemsTuple ==
  ASSUME NEW n \in Nat, NEW f
  PROVE  /\ IsSequence([i \in 1..n |-> f[i]])
         /\ Len([i \in 1..n |-> f[i]]) = n
         /\ Elems([i \in 1..n |-> f[i]]) = {f[i] : i \in 1..n}
<1> DEFINE s == [i \in 1..n |-> f[i]]
           S == {f[i] : i \in 1..n}
<1>1. \A i \in 1..n : f[i] \in S
  OBVIOUS
<1>2. s \in Seq(S) /\ Len(s) = n
  <2> HIDE DEF S
  <2> QED
    BY <1>1
<1>3. IsSequence(s)
  BY <1>2, ElemsOfSequence
<1>4. Elems(s) = S
  BY <1>2 DEF Elems
<1> QED
  BY <1>2, <1>3, <1>4

LEMMA ElemsConcat ==
  ASSUME NEW s, NEW t, IsSequence(s), IsSequence(t)
  PROVE  /\ IsSequence(s \o t)
         /\ Len(s \o t) = Len(s) + Len(t)
         /\ Elems(s \o t) = Elems(s) \cup Elems(t)
         /\ \A n \in 1..Len(s) : (s \o t)[n] = s[n]
         /\ \A n \in 1..Len(t) : (s \o t)[Len(s) + n] = t[n]
         /\ \A n \in (Len(s) + 1)..(Len(s) + Len(t)) :
              n - Len(s) \in 1..Len(t) /\ (s \o t)[n] = t[n - Len(s)]
<1> DEFINE S == Elems(s) \cup Elems(t)
           u == s \o t
<1>1. s \in Seq(S) /\ t \in Seq(S)
  BY SequenceShape
<1> HIDE DEF S
<1>2. Len(s) \in Nat /\ Len(t) \in Nat
  BY <1>1
<1>3. /\ u \in Seq(S) /\ Len(u) = Len(s) + Len(t)
      /\ \A n \in 1..Len(s) : u[n] = s[n]
      /\ \A n \in 1..Len(t) : u[Len(s) + n] = t[n]
      /\ \A n \in (Len(s) + 1)..(Len(s) + Len(t)) :
           n - Len(s) \in 1..Len(t) /\ u[n] = t[n - Len(s)]
  BY <1>1, <1>2
<1> HIDE DEF u
<1>4. IsSequence(u) /\ Elems(u) \subseteq S
  BY <1>3, ElemsOfSequence
<1>5. \A n \in 1..Len(s) : n \in 1..Len(u)
  BY <1>2, <1>3
<1>6. Elems(s) \subseteq Elems(u)
  BY <1>3, <1>5 DEF Elems
<1>7. \A n \in 1..Len(t) : Len(s) + n \in 1..Len(u)
  BY <1>2, <1>3
<1>8. Elems(t) \subseteq Elems(u)
  BY <1>3, <1>7 DEF Elems
<1> QED
  BY <1>3, <1>4, <1>6, <1>8 DEF S, u

LEMMA ElemsPair ==
  \A x, y, z : /\ Elems(<<>>) = {} /\ IsSequence(<<>>)
               /\ Elems(<<x>>) = {x} /\ IsSequence(<<x>>)
               /\ Elems(<<x, y>>) = {x, y} /\ IsSequence(<<x, y>>)
               /\ Elems(<<x, y, z>>) = {x, y, z} /\ IsSequence(<<x, y, z>>)
<1> TAKE x, y, z
<1>0. Elems(<<>>) = {}
  BY DEF Elems
<1>1. Elems(<<x>>) = {x}
  BY DEF Elems
<1>2. Elems(<<x, y>>) = {x, y}
  <2>1. \A i : i \in 1..2 <=> i = 1 \/ i = 2
    OBVIOUS
  <2> QED
    BY <2>1 DEF Elems
<1>3. Elems(<<x, y, z>>) = {x, y, z}
  <2>1. \A i : i \in 1..3 <=> i = 1 \/ i = 2 \/ i = 3
    OBVIOUS
  <2> QED
    BY <2>1 DEF Elems
<1>4. /\ <<>> \in Seq({}) /\ <<x>> \in Seq({x}) /\ <<x, y>> \in Seq({x, y})
      /\ <<x, y, z>> \in Seq({x, y, z})
  OBVIOUS
<1> QED
  BY <1>0, <1>1, <1>2, <1>3, <1>4 DEF IsSequence

LEMMA PrecedesConcat ==
  ASSUME NEW s, NEW t, IsSequence(s), IsSequence(t), NEW x, NEW y,
         Precedes(s, x, y), Precedes(t, x, y) \/ x \in Elems(s)
  PROVE  Precedes(s \o t, x, y)
<1> DEFINE u == s \o t
<1>1. /\ Len(u) = Len(s) + Len(t)
      /\ \A n \in 1..Len(s) : u[n] = s[n]
      /\ \A n \in 1..Len(t) : u[Len(s) + n] = t[n]
      /\ \A n \in (Len(s) + 1)..(Len(s) + Len(t)) :
           n - Len(s) \in 1..Len(t) /\ u[n] = t[n - Len(s)]
  BY ElemsConcat
<1>2. Len(s) \in Nat /\ Len(t) \in Nat
  BY SequenceShape
<1> HIDE DEF u
<1>3. ASSUME NEW n \in 1..Len(u), u[n] = y
      PROVE  \E m \in 1..(n - 1) : u[m] = x
  <2>1. CASE n <= Len(s)
    <3>1. n \in 1..Len(s) /\ s[n] = y
      BY <1>1, <1>2, <1>3, <2>1
    <3>2. PICK m \in 1..(n - 1) : s[m] = x
      BY <3>1 DEF Precedes
    <3>3. m \in 1..Len(s)
      BY <1>2, <2>1
    <3> QED
      BY <1>1, <3>2, <3>3
  <2>2. CASE n > Len(s)
    <3>1. n - Len(s) \in 1..Len(t) /\ t[n - Len(s)] = y
      BY <1>1, <1>2, <1>3, <2>2
    <3>2. CASE x \in Elems(s)
      <4>1. PICK m \in 1..Len(s) : s[m] = x
        BY <3>2 DEF Elems
      <4>2. m \in 1..(n - 1)
        BY <1>2, <2>2
      <4> QED
        BY <1>1, <4>1, <4>2
    <3>3. CASE Precedes(t, x, y)
      <4>1. PICK m \in 1..(n - Len(s) - 1) : t[m] = x
        BY <3>1, <3>3 DEF Precedes
      <4>2. m \in 1..Len(t) /\ Len(s) + m \in 1..(n - 1)
        BY <1>1, <1>2, <2>2, <3>1
      <4> QED
        BY <1>1, <4>1, <4>2
    <3> QED
      BY <3>2, <3>3
  <2> QED
    BY <1>1, <1>2, <2>1, <2>2
<1> QED
  BY <1>3 DEF Precedes, u

LEMMA SequenceOfSequences ==
  ASSUME NEW seqs, IsSequence(seqs), \A i \in 1..Len(seqs) : IsSequence(seqs[i])
  PROVE  seqs \in Seq(Seq(UNION {Elems(seqs[i]) : i \in 1..Len(seqs)}))
<1> DEFINE S == UNION {Elems(seqs[i]) : i \in 1..Len(seqs)}
<1>1. ASSUME NEW i \in 1..Len(seqs)
      PROVE  seqs[i] \in Seq(S)
  <2>1. Elems(seqs[i]) \subseteq S
    OBVIOUS
  <2> HIDE DEF S
  <2> QED
    BY <2>1, SequenceShape
<1> HIDE DEF S
<1>2. Elems(seqs) \subseteq Seq(S)
  BY <1>1 DEF Elems
<1>3. seqs \in Seq(Seq(S))
  BY <1>2, SequenceShape
<1> QED
  BY <1>3 DEF S

LEMMA ElemsFlatten ==
  ASSUME NEW seqs, IsSequence(seqs), \A i \in 1..Len(seqs) : IsSequence(seqs[i])
  PROVE  /\ IsSequence(FlattenSeq(seqs))
         /\ \A x : x \in Elems(FlattenSeq(seqs)) <=>
                     \E i \in 1..Len(seqs) : x \in Elems(seqs[i])
<1> DEFINE S == UNION {Elems(seqs[i]) : i \in 1..Len(seqs)}
           t == FlattenSeq(seqs)
<1>1. seqs \in Seq(Seq(S))
  BY SequenceOfSequences
<1> HIDE DEF S
<1>2. t \in Seq(S) /\ Gathers(t, seqs, Len(seqs))
  BY <1>1, FlattenGathers
<1> HIDE DEF t
<1>3. IsSequence(t) /\ Elems(t) \subseteq S
  BY <1>2, ElemsOfSequence
<1>4. ASSUME NEW x \in S
      PROVE  x \in Elems(t)
  <2>1. PICK i \in 1..Len(seqs) : x \in Elems(seqs[i])
    BY <1>4 DEF S
  <2>2. PICK k \in 1..Len(seqs[i]) : x = seqs[i][k]
    BY <2>1 DEF Elems
  <2>3. PICK n \in 1..Len(t) : t[n] = seqs[i][k]
    BY <1>2 DEF Gathers
  <2> QED
    BY <2>2, <2>3 DEF Elems
<1> QED
  BY <1>3, <1>4 DEF S, t

\* Every y comes after an x of its own sequence or of an earlier one.
THEOREM FlattenPrecedes ==
  ASSUME NEW seqs, IsSequence(seqs), \A i \in 1..Len(seqs) : IsSequence(seqs[i]),
         NEW x, NEW y,
         \A j \in 1..Len(seqs) : \/ Precedes(seqs[j], x, y)
                                 \/ \E i \in 1..(j - 1) : x \in Elems(seqs[i])
  PROVE  Precedes(FlattenSeq(seqs), x, y)
<1>0. Len(seqs) \in Nat
  BY SequenceShape
<1>1. CASE Len(seqs) = 0
  BY <1>1 DEF FlattenSeq, Precedes
<1>2. CASE Len(seqs) # 0
  <2>1. Len(seqs) \in Nat \ {0}
    BY <1>0, <1>2
  <2>2. PICK g : Joins(seqs, Len(seqs), g) /\ FlattenSeq(seqs) = g[Len(seqs)]
    BY <2>1, FlattenJoins
  <2>3. \A i \in 1..Len(seqs) : g[i] = IF i = 1 THEN seqs[i] ELSE g[i-1] \o seqs[i]
    BY <2>2 DEF Joins
  <2> DEFINE T == {j \in Nat : j + 1 \in 1..Len(seqs) =>
                      /\ IsSequence(g[j + 1]) /\ Precedes(g[j + 1], x, y)
                      /\ \A i \in 1..(j + 1) : Elems(seqs[i]) \subseteq Elems(g[j + 1])}
  <2>4. 0 \in T
    <3>1. g[1] = seqs[1] /\ IsSequence(seqs[1]) /\ Precedes(seqs[1], x, y)
      <4>1. 1 \in 1..Len(seqs)
        BY <2>1
      <4> QED
        BY <2>3, <4>1
    <3>2. \A i \in 1..1 : i = 1
      OBVIOUS
    <3>3. \A i \in 1..1 : Elems(seqs[i]) \subseteq Elems(g[1])
      BY <3>1, <3>2
    <3> QED
      BY <3>1, <3>3
  <2>5. ASSUME NEW n \in Nat, n \in T
        PROVE  n + 1 \in T
    <3> DEFINE j == n + 1 + 1
    <3> SUFFICES ASSUME j \in 1..Len(seqs)
                 PROVE  /\ IsSequence(g[j]) /\ Precedes(g[j], x, y)
                        /\ \A i \in 1..j : Elems(seqs[i]) \subseteq Elems(g[j])
      OBVIOUS
    <3>1. j # 1 /\ j - 1 = n + 1 /\ n + 1 \in 1..Len(seqs)
      BY <2>1
    <3>2. /\ IsSequence(g[j - 1]) /\ Precedes(g[j - 1], x, y)
          /\ \A i \in 1..(j - 1) : Elems(seqs[i]) \subseteq Elems(g[j - 1])
      BY <2>5, <3>1
    <3>3. j \in Nat
      OBVIOUS
    <3> HIDE DEF j
    <3>4. g[j] = g[j - 1] \o seqs[j] /\ IsSequence(seqs[j])
      BY <2>3, <3>1
    <3>5. IsSequence(g[j]) /\ Elems(g[j]) = Elems(g[j - 1]) \cup Elems(seqs[j])
      BY <3>2, <3>4, ElemsConcat
    <3>6. Precedes(seqs[j], x, y) \/ x \in Elems(g[j - 1])
      BY <3>2
    <3>7. Precedes(g[j], x, y)
      BY <3>2, <3>4, <3>6, PrecedesConcat
    <3>8. \A i \in 1..j : i \in 1..(j - 1) \/ i = j
      BY <3>3
    <3> QED
      BY <3>2, <3>5, <3>7, <3>8
  <2> HIDE DEF T
  <2>6. Nat \subseteq T
    BY <2>4, <2>5, SetInduction
  <2>7. Len(seqs) - 1 \in T /\ Len(seqs) - 1 + 1 = Len(seqs)
    BY <2>1, <2>6
  <2> QED
    BY <2>1, <2>2, <2>7 DEF T
<1> QED
  BY <1>1, <1>2

-----------------------------------------------------------------------------
(* Finite sets put in a sequence. *)

LEMMA ImageFinite ==
  ASSUME NEW S, IsFiniteSet(S), NEW f
  PROVE  IsFiniteSet({f[x] : x \in S})
<1> DEFINE T == {f[x] : x \in S}
           h == [x \in S |-> f[x]]
<1>1. h \in Surjection(S, T)
  BY DEF Surjection
<1> HIDE DEF T, h
<1>2. IsFiniteSet(T)
  BY <1>1, FS_Surjection
<1> QED
  BY <1>2 DEF T


\* iter is the recursion of FoldSet on the subsets of S with at most k elements.
Appends(S, k, iter) ==
  iter = [s \in {t \in SUBSET S : Cardinality(t) <= k} |->
            IF s = {} THEN <<>>
            ELSE Append(iter[s \ {CHOOSE x \in s : TRUE}], CHOOSE x \in s : TRUE)]

LEMMA SmallerSubset ==
  ASSUME NEW S, IsFiniteSet(S), NEW s \in SUBSET S, s # {}
  PROVE  /\ (CHOOSE x \in s : TRUE) \in s
         /\ s \ {CHOOSE x \in s : TRUE} \in SUBSET S
         /\ Cardinality(s) \in Nat
         /\ Cardinality(s \ {CHOOSE x \in s : TRUE}) = Cardinality(s) - 1
<1>1. IsFiniteSet(s)
  BY FS_Subset
<1>2. (CHOOSE x \in s : TRUE) \in s
  OBVIOUS
<1>3. Cardinality(s \ {CHOOSE x \in s : TRUE}) = Cardinality(s) - 1
  BY <1>1, <1>2, FS_RemoveElement
<1> QED
  BY <1>1, <1>2, <1>3, FS_CardinalityType

LEMMA AppendsExist ==
  ASSUME NEW S, IsFiniteSet(S)
  PROVE  \A k \in Nat : \E g : Appends(S, k, g)
<1> DEFINE Sub(k) == {t \in SUBSET S : Cardinality(t) <= k}
           T == {k \in Nat : \E g : Appends(S, k, g)}
<1>0. \A s \in SUBSET S : IsFiniteSet(s) /\ Cardinality(s) \in Nat
  BY FS_Subset, FS_CardinalityType
<1>1. 0 \in T
  <2> DEFINE g == [s \in Sub(0) |-> <<>>]
  <2>1. \A s \in Sub(0) : s = {}
    <3>1. \A s \in Sub(0) : Cardinality(s) = 0
      BY <1>0
    <3> QED
      BY <1>0, <3>1, FS_EmptySet
  <2>2. g = [s \in Sub(0) |->
            IF s = {} THEN <<>>
            ELSE Append(g[s \ {CHOOSE x \in s : TRUE}], CHOOSE x \in s : TRUE)]
    BY <2>1
  <2> HIDE DEF g
  <2>3. Appends(S, 0, g)
    BY <2>2 DEF Appends
  <2> QED
    BY <2>3
<1>2. ASSUME NEW n \in Nat, n \in T
      PROVE  n + 1 \in T
  <2>1. PICK g : Appends(S, n, g)
    BY <1>2
  <2> DEFINE Next(s) == s \ {CHOOSE x \in s : TRUE}
             h == [s \in Sub(n + 1) |->
                     IF s = {} THEN <<>> ELSE Append(g[Next(s)], CHOOSE x \in s : TRUE)]
  <2>2. \A s \in Sub(n) :
          g[s] = IF s = {} THEN <<>> ELSE Append(g[Next(s)], CHOOSE x \in s : TRUE)
    BY <2>1 DEF Appends
  <2>3. \A s \in Sub(n) : s \in Sub(n + 1)
    BY <1>0
  <2>4. \A s \in Sub(n) : h[s] = g[s]
    BY <2>2, <2>3
  <2>5. ASSUME NEW s \in Sub(n + 1), s # {}
        PROVE  Next(s) \in Sub(n)
    <3>1. Next(s) \in SUBSET S /\ Cardinality(Next(s)) = Cardinality(s) - 1
          /\ Cardinality(s) \in Nat
      BY <2>5, SmallerSubset
    <3> QED
      BY <3>1
  <2>6. /\ h = [s \in Sub(n + 1) |-> h[s]]
        /\ \A s \in Sub(n + 1) :
             h[s] = IF s = {} THEN <<>> ELSE Append(g[Next(s)], CHOOSE x \in s : TRUE)
    OBVIOUS
  <2> HIDE DEF h
  <2>7. ASSUME NEW s \in Sub(n + 1)
        PROVE  h[s] = IF s = {} THEN <<>> ELSE Append(h[Next(s)], CHOOSE x \in s : TRUE)
    <3>1. CASE s = {}
      BY <2>6, <3>1
    <3>2. CASE s # {}
      <4>1. h[Next(s)] = g[Next(s)]
        BY <2>4, <2>5, <3>2
      <4> QED
        BY <2>6, <3>2, <4>1
    <3> QED
      BY <3>1, <3>2
  <2>8. Appends(S, n + 1, h)
    BY <2>6, <2>7 DEF Appends
  <2> QED
    BY <2>8
<1> HIDE DEF T
<1>3. Nat \subseteq T
  BY <1>1, <1>2, SetInduction
<1> QED
  BY <1>3 DEF T

\* A finite set put in a sequence element by element is all there.
THEOREM FoldAppends ==
  ASSUME NEW S, IsFiniteSet(S)
  PROVE  LET s == FoldSet(LAMBDA x, t : Append(t, x), <<>>, S)
         IN  IsSequence(s) /\ Elems(s) = S
<1> DEFINE c == CHOOSE iter :
                  iter = [s \in SUBSET S |->
                            IF s = {} THEN <<>>
                            ELSE Append(iter[s \ {CHOOSE x \in s : TRUE}],
                                        CHOOSE x \in s : TRUE)]
           f == FoldSet(LAMBDA x, t : Append(t, x), <<>>, S)
<1>0. /\ Cardinality(S) \in Nat
      /\ \A s \in SUBSET S : IsFiniteSet(s) /\ Cardinality(s) \in Nat
                             /\ Cardinality(s) <= Cardinality(S)
  BY FS_Subset, FS_CardinalityType
<1>1. PICK g : Appends(S, Cardinality(S), g)
  BY <1>0, AppendsExist
<1>2. SUBSET S = {t \in SUBSET S : Cardinality(t) <= Cardinality(S)}
  BY <1>0
<1>3. \E iter : iter = [s \in SUBSET S |->
                   IF s = {} THEN <<>>
                   ELSE Append(iter[s \ {CHOOSE x \in s : TRUE}],
                               CHOOSE x \in s : TRUE)]
  BY <1>1, <1>2 DEF Appends
<1>4. c = [s \in SUBSET S |->
                   IF s = {} THEN <<>>
                   ELSE Append(c[s \ {CHOOSE x \in s : TRUE}],
                               CHOOSE x \in s : TRUE)]
  BY <1>3
<1>5. f = c[S]
  BY DEF FoldSet, MapThenFoldSet
<1> HIDE DEF c, f
<1> DEFINE T == {k \in Nat : \A s \in SUBSET S : Cardinality(s) = k =>
                               c[s] \in Seq(s) /\ Elems(c[s]) = s}
<1>6. 0 \in T
  <2> SUFFICES ASSUME NEW s \in SUBSET S, Cardinality(s) = 0
               PROVE  c[s] \in Seq(s) /\ Elems(c[s]) = s
    OBVIOUS
  <2>1. s = {}
    BY <1>0, FS_EmptySet
  <2>2. c[s] = <<>>
    BY <1>4, <2>1
  <2> QED
    BY <2>1, <2>2, ElemsPair
<1>7. ASSUME NEW n \in Nat, n \in T
      PROVE  n + 1 \in T
  <2> SUFFICES ASSUME NEW s \in SUBSET S, Cardinality(s) = n + 1
               PROVE  c[s] \in Seq(s) /\ Elems(c[s]) = s
    OBVIOUS
  <2>1. s # {}
    BY FS_EmptySet
  <2> DEFINE x == CHOOSE y \in s : TRUE
             r == s \ {x}
  <2>2. x \in s /\ r \in SUBSET S /\ Cardinality(r) = n
    BY <2>1, SmallerSubset
  <2>3. c[s] = Append(c[r], x)
    BY <1>4, <2>1
  <2>4. s = r \cup {x}
    BY <2>2
  <2> HIDE DEF x, r
  <2>5. c[r] \in Seq(r) /\ Elems(c[r]) = r
    BY <1>7, <2>2
  <2>6. Append(c[r], x) = c[r] \o <<x>>
    <3>1. c[r] \in Seq(s) /\ x \in s
      BY <2>2, <2>4, <2>5
    <3> QED
      BY <3>1
  <2>7. Elems(c[s]) = s
    <3>1. IsSequence(c[r]) /\ IsSequence(<<x>>) /\ Elems(<<x>>) = {x}
      BY <2>5, ElemsPair DEF IsSequence
    <3> QED
      BY <2>3, <2>4, <2>5, <2>6, <3>1, ElemsConcat
  <2>8. c[s] \in Seq(s)
    BY <2>2, <2>3, <2>4, <2>5
  <2> QED
    BY <2>7, <2>8
<1> HIDE DEF T
<1>8. Nat \subseteq T
  BY <1>6, <1>7, SetInduction
<1>9. c[S] \in Seq(S) /\ Elems(c[S]) = S
  BY <1>0, <1>8 DEF T
<1>10. IsSequence(f) /\ Elems(f) = S
  BY <1>5, <1>9 DEF IsSequence
<1> QED
  BY <1>10 DEF f

-----------------------------------------------------------------------------
(* Recursive functions: that there is one, over the subsets of a finite set *)
(* and over the numbers, when its step maps values to values.               *)

\* iter is the recursion on the subsets of S with at most k elements.
Recurs(S, base, step, pick, k, iter) ==
  iter = [s \in {t \in SUBSET S : Cardinality(t) <= k} |->
            IF s = {} THEN base ELSE step[s][iter[s \ {pick[s]}]]]

LEMMA SubsetRecursionUpTo ==
  ASSUME NEW S, IsFiniteSet(S), NEW base, NEW step, NEW pick,
         \A s \in SUBSET S : s # {} => pick[s] \in s
  PROVE  \A k \in Nat : \E g : Recurs(S, base, step, pick, k, g)
<1> DEFINE Sub(k) == {t \in SUBSET S : Cardinality(t) <= k}
           T == {k \in Nat : \E g : Recurs(S, base, step, pick, k, g)}
<1>0. \A s \in SUBSET S : IsFiniteSet(s) /\ Cardinality(s) \in Nat
  BY FS_Subset, FS_CardinalityType
<1>1. 0 \in T
  <2> DEFINE g == [s \in Sub(0) |-> base]
  <2>1. \A s \in Sub(0) : s = {}
    <3>1. \A s \in Sub(0) : Cardinality(s) = 0
      BY <1>0
    <3> QED
      BY <1>0, <3>1, FS_EmptySet
  <2>2. g = [s \in Sub(0) |-> IF s = {} THEN base ELSE step[s][g[s \ {pick[s]}]]]
    BY <2>1
  <2> HIDE DEF g
  <2>3. Recurs(S, base, step, pick, 0, g)
    BY <2>2 DEF Recurs
  <2> QED
    BY <2>3
<1>2. ASSUME NEW n \in Nat, n \in T
      PROVE  n + 1 \in T
  <2>1. PICK g : Recurs(S, base, step, pick, n, g)
    BY <1>2
  <2> DEFINE Rest(s) == s \ {pick[s]}
             h == [s \in Sub(n + 1) |-> IF s = {} THEN base ELSE step[s][g[Rest(s)]]]
  <2>2. \A s \in Sub(n) : g[s] = IF s = {} THEN base ELSE step[s][g[Rest(s)]]
    BY <2>1 DEF Recurs
  <2>3. \A s \in Sub(n) : s \in Sub(n + 1)
    BY <1>0
  <2>4. \A s \in Sub(n) : h[s] = g[s]
    BY <2>2, <2>3
  <2>5. ASSUME NEW s \in Sub(n + 1), s # {}
        PROVE  Rest(s) \in Sub(n)
    <3>1. pick[s] \in s /\ IsFiniteSet(s) /\ Cardinality(s) \in Nat
      BY <1>0, <2>5
    <3>2. Cardinality(Rest(s)) = Cardinality(s) - 1
      BY <3>1, FS_RemoveElement
    <3> QED
      BY <3>1, <3>2
  <2>6. /\ h = [s \in Sub(n + 1) |-> h[s]]
        /\ \A s \in Sub(n + 1) : h[s] = IF s = {} THEN base ELSE step[s][g[Rest(s)]]
    OBVIOUS
  <2> HIDE DEF h
  <2>7. ASSUME NEW s \in Sub(n + 1)
        PROVE  h[s] = IF s = {} THEN base ELSE step[s][h[Rest(s)]]
    <3>1. CASE s = {}
      BY <2>6, <3>1
    <3>2. CASE s # {}
      <4>1. h[Rest(s)] = g[Rest(s)]
        BY <2>4, <2>5, <3>2
      <4> QED
        BY <2>6, <3>2, <4>1
    <3> QED
      BY <3>1, <3>2
  <2>8. Recurs(S, base, step, pick, n + 1, h)
    BY <2>6, <2>7 DEF Recurs
  <2> QED
    BY <2>8
<1> HIDE DEF T
<1>3. Nat \subseteq T
  BY <1>1, <1>2, SetInduction
<1> QED
  BY <1>3 DEF T

\* iter is the recursion on all of them, with values in V.
Recursion(S, V, base, step, pick, iter) ==
  /\ iter \in [SUBSET S -> V]
  /\ \A s \in SUBSET S :
       iter[s] = IF s = {} THEN base ELSE step[s][iter[s \ {pick[s]}]]

LEMMA SubsetRecursion ==
  ASSUME NEW S, IsFiniteSet(S), NEW V, NEW base \in V, NEW pick,
         NEW step \in [SUBSET S -> [V -> V]],
         \A s \in SUBSET S : s # {} => pick[s] \in s
  PROVE  \E iter : Recursion(S, V, base, step, pick, iter)
<1>0. /\ Cardinality(S) \in Nat
      /\ \A s \in SUBSET S : /\ IsFiniteSet(s) /\ Cardinality(s) \in Nat
                             /\ Cardinality(s) <= Cardinality(S)
  BY FS_Subset, FS_CardinalityType
<1>1. PICK g : Recurs(S, base, step, pick, Cardinality(S), g)
  BY <1>0, SubsetRecursionUpTo
<1>2. SUBSET S = {t \in SUBSET S : Cardinality(t) <= Cardinality(S)}
  BY <1>0
<1>3. g = [s \in SUBSET S |-> IF s = {} THEN base ELSE step[s][g[s \ {pick[s]}]]]
  BY <1>1, <1>2 DEF Recurs
<1>13. Cardinality({}) = 0
  BY FS_EmptySet
<1> DEFINE T == {k \in Nat : \A s \in SUBSET S : Cardinality(s) = k => g[s] \in V}
<1>4. 0 \in T
  BY <1>0, <1>3, FS_EmptySet
<1>5. ASSUME NEW n \in Nat, n \in T
      PROVE  n + 1 \in T
  <2> SUFFICES ASSUME NEW s \in SUBSET S, Cardinality(s) = n + 1
               PROVE  g[s] \in V
    OBVIOUS
  <2> HIDE DEF T
  <2>1. s # {}
    <3>1. n + 1 # 0
      OBVIOUS
    <3> QED
      BY <1>13, <3>1
  <2>2. pick[s] \in s
    BY <2>1
  <2>3. Cardinality(s \ {pick[s]}) = n
    BY <1>0, <2>2, FS_RemoveElement
  <2>4. g[s \ {pick[s]}] \in V
    <3>1. s \ {pick[s]} \in SUBSET S
      OBVIOUS
    <3> QED
      BY <1>5, <2>3, <3>1 DEF T
  <2>5. g[s] = step[s][g[s \ {pick[s]}]]
    BY <1>3, <2>1
  <2> QED
    BY <2>4, <2>5
<1> HIDE DEF T
<1>6. Nat \subseteq T
  BY <1>4, <1>5, SetInduction
<1>7. \A s \in SUBSET S : g[s] \in V
  BY <1>0, <1>6 DEF T
<1>8. g \in [SUBSET S -> V]
  BY <1>3, <1>7
<1>9. \A s \in SUBSET S : g[s] = IF s = {} THEN base ELSE step[s][g[s \ {pick[s]}]]
  BY <1>3
<1>10. Recursion(S, V, base, step, pick, g)
  BY <1>8, <1>9 DEF Recursion
<1> QED
  BY <1>10

\* The same over the numbers: first up to each of them.
Part(V, base, step, k, g) ==
  g \in [0..k -> V] /\ g[0] = base /\ \A n \in 1..k : g[n] = step[g[n - 1]]

LEMMA NatRecursionUpTo ==
  ASSUME NEW V, NEW base \in V, NEW step \in [V -> V]
  PROVE  \A k \in Nat : \E g : Part(V, base, step, k, g)
<1> DEFINE T == {k \in Nat : \E g : Part(V, base, step, k, g)}
<1>1. 0 \in T
  <2> DEFINE g == [n \in 0..0 |-> base]
  <2>1. g \in [0..0 -> V] /\ g[0] = base
    OBVIOUS
  <2> HIDE DEF g
  <2>2. Part(V, base, step, 0, g)
    BY <2>1 DEF Part
  <2> QED
    BY <2>2
<1>2. ASSUME NEW k \in Nat, k \in T
      PROVE  k + 1 \in T
  <2>1. PICK g : Part(V, base, step, k, g)
    BY <1>2
  <2> DEFINE h == [n \in 0..(k + 1) |-> IF n = k + 1 THEN step[g[k]] ELSE g[n]]
  <2>2. h \in [0..(k + 1) -> V]
    BY <2>1 DEF Part
  <2>3. h[0] = base
    BY <2>1 DEF Part
  <2>4. ASSUME NEW n \in 1..(k + 1)
        PROVE  h[n] = step[h[n - 1]]
    <3>1. CASE n = k + 1
      BY <3>1
    <3>2. CASE n # k + 1
      BY <2>1, <3>2 DEF Part
    <3> QED
      BY <3>1, <3>2
  <2> HIDE DEF h
  <2>5. Part(V, base, step, k + 1, h)
    BY <2>2, <2>3, <2>4 DEF Part
  <2> QED
    BY <2>5
<1> HIDE DEF T
<1>3. Nat \subseteq T
  BY <1>1, <1>2, SetInduction
<1> QED
  BY <1>3 DEF T

\* f is the recursion on all of them.
Sequel(V, base, step, f) ==
  f \in [Nat -> V] /\ f[0] = base /\ \A n \in Nat : f[n + 1] = step[f[n]]

LEMMA NatRecursion ==
  ASSUME NEW V, NEW base \in V, NEW step \in [V -> V]
  PROVE  \E f : Sequel(V, base, step, f)
<1> DEFINE p == [k \in Nat |-> CHOOSE g : Part(V, base, step, k, g)]
           f == [k \in Nat |-> p[k][k]]
<1>1. ASSUME NEW k \in Nat
      PROVE  Part(V, base, step, k, p[k])
  <2>1. \E g : Part(V, base, step, k, g)
    BY NatRecursionUpTo
  <2> QED
    BY <2>1
<1> HIDE DEF p
\* They agree with each other.
<1>2. ASSUME NEW k \in Nat
      PROVE  \A n \in 0..k : p[k + 1][n] = p[k][n]
  <2> DEFINE T == {n \in Nat : n <= k => p[k + 1][n] = p[k][n]}
  <2>1. 0 \in T
    BY <1>1 DEF Part
  <2>2. ASSUME NEW n \in Nat, n \in T
        PROVE  n + 1 \in T
    <3> SUFFICES ASSUME n + 1 <= k
                 PROVE  p[k + 1][n + 1] = p[k][n + 1]
      OBVIOUS
    <3>1. p[k + 1][n + 1] = step[p[k + 1][n]]
      <4>1. Part(V, base, step, k + 1, p[k + 1]) /\ n + 1 \in 1..(k + 1) /\ n + 1 - 1 = n
        BY <1>1
      <4> QED
        BY <4>1 DEF Part
    <3>2. p[k][n + 1] = step[p[k][n]]
      <4>1. Part(V, base, step, k, p[k]) /\ n + 1 \in 1..k /\ n + 1 - 1 = n
        BY <1>1
      <4> QED
        BY <4>1 DEF Part
    <3> QED
      BY <2>2, <3>1, <3>2
  <2> HIDE DEF T
  <2>3. Nat \subseteq T
    BY <2>1, <2>2, SetInduction
  <2> QED
    BY <2>3 DEF T
<1>3. f \in [Nat -> V]
  BY <1>1 DEF Part
<1>4. f[0] = base
  BY <1>1 DEF Part
<1>5. ASSUME NEW n \in Nat
      PROVE  f[n + 1] = step[f[n]]
  <2>1. Part(V, base, step, n + 1, p[n + 1]) /\ n + 1 \in 1..(n + 1) /\ n + 1 - 1 = n
    BY <1>1
  <2>2. p[n + 1][n + 1] = step[p[n + 1][n]]
    BY <2>1 DEF Part
  <2>3. p[n + 1][n] = p[n][n]
    BY <1>2
  <2> QED
    BY <2>2, <2>3
<1> HIDE DEF f
<1>6. Sequel(V, base, step, f)
  BY <1>3, <1>4, <1>5 DEF Sequel
<1> QED
  BY <1>6

-----------------------------------------------------------------------------
(* FoldLeft of a function: the values it goes through. *)

\* acc are the values that the fold of g goes through.
Folding(V, g, base, seq, acc) ==
  /\ acc \in [0..Len(seq) -> V] /\ acc[0] = base
  /\ \A i \in 1..Len(seq) : acc[i] = g[seq[i]][acc[i - 1]]
  /\ FoldLeft(LAMBDA t, d : g[d][t], base, seq) = acc[Len(seq)]

LEMMA FoldLeftRuns ==
  ASSUME NEW V, NEW A, NEW g, \A a \in A : \A v \in V : g[a][v] \in V,
         NEW base \in V, NEW seq \in Seq(A)
  PROVE  \E acc : Folding(V, g, base, seq, acc)
<1> DEFINE N == DOMAIN seq
           c == CHOOSE iter :
                  iter = [s \in SUBSET N |->
                            IF s = {} THEN base ELSE g[seq[Max(s)]][iter[s \ {Max(s)}]]]
           pick == [s \in SUBSET N |-> Max(s)]
           step == [s \in SUBSET N |-> [v \in V |-> IF s = {} THEN v ELSE g[seq[pick[s]]][v]]]
<1>1. N = 1..Len(seq) /\ Len(seq) \in Nat /\ IsFiniteSet(N)
  BY FS_Interval
<1>2. ASSUME NEW s \in SUBSET N, s # {}
      PROVE  Max(s) \in s /\ \A n \in s : n <= Max(s)
  <2>1. IsFiniteSet(s)
    BY <1>1, FS_Subset
  <2> DEFINE T == {Len(seq) - n : n \in s}
  <2>2. T \subseteq Nat /\ T # {}
    BY <1>1, <1>2
  <2>3. PICK t \in T : \A u \in T : t <= u
    BY <2>2, LeastNat
  <2>4. PICK m \in s : t = Len(seq) - m
    BY <2>3
  <2>5. \A n \in s : n <= m
    <3> TAKE n \in s
    <3>1. Len(seq) - m <= Len(seq) - n
      BY <2>3, <2>4
    <3> QED
      BY <1>1, <3>1
  <2>6. \E x \in s : \A y \in s : x >= y
    BY <1>1, <2>5
  <2>7. Max(s) = CHOOSE x \in s : \A y \in s : x >= y
    BY DEF Max
  <2> QED
    BY <1>1, <2>6, <2>7
<1>3. \A s \in SUBSET N : s # {} => pick[s] \in s
  BY <1>2
<1>8. FoldLeft(LAMBDA t, d : g[d][t], base, seq) = c[N]
  BY DEF FoldLeft, MapThenFoldSet
<1> HIDE DEF N
<1>4. step \in [SUBSET N -> [V -> V]]
  <2> HIDE DEF pick
  <2>2. \A n \in N : seq[n] \in A
    BY <1>1
  <2>1. \A s \in SUBSET N : s # {} => seq[pick[s]] \in A
    BY <1>3, <2>2
  <2> QED
    BY <2>1
<1>5. PICK w : Recursion(N, V, base, step, pick, w)
  <2> HIDE DEF pick, step
  <2> QED
    BY <1>1, <1>3, <1>4, SubsetRecursion
<1>6. w = [s \in SUBSET N |-> IF s = {} THEN base ELSE g[seq[Max(s)]][w[s \ {Max(s)}]]]
  <2>1. ASSUME NEW s \in SUBSET N, s # {}
        PROVE  w[s] = g[seq[Max(s)]][w[s \ {Max(s)}]]
    <3>1. w[s] = step[s][w[s \ {pick[s]}]] /\ pick[s] = Max(s) /\ w[s \ {pick[s]}] \in V
      BY <1>5, <2>1 DEF Recursion
    <3> HIDE DEF pick
    <3> QED
      BY <2>1, <3>1
  <2> HIDE DEF step
  <2>2. \A s \in SUBSET N : w[s] = IF s = {} THEN base ELSE g[seq[Max(s)]][w[s \ {Max(s)}]]
    BY <1>5, <2>1 DEF Recursion
  <2>3. w = [s \in SUBSET N |-> w[s]]
    BY <1>5 DEF Recursion
  <2> QED
    BY <2>2, <2>3
<1>7. c = [s \in SUBSET N |-> IF s = {} THEN base ELSE g[seq[Max(s)]][c[s \ {Max(s)}]]]
  <2> HIDE DEF step, pick
  <2> QED
    BY <1>6
<1> HIDE DEF c, step, pick
<1> DEFINE acc == [k \in 0..Len(seq) |-> c[1..k]]
<1>9. acc[0] = base
  BY <1>1, <1>7
<1>10. ASSUME NEW i \in 1..Len(seq)
       PROVE  acc[i] = g[seq[i]][acc[i - 1]]
  <2>1. (1..i) \in SUBSET N /\ 1..i # {}
    <3>1. 1 \in 1..i
      OBVIOUS
    <3>2. \A n \in 1..i : n \in N
      BY <1>1
    <3> QED
      BY <3>1, <3>2
  <2>2. Max(1..i) = i
    <3>1. Max(1..i) \in 1..i /\ i <= Max(1..i)
      <4>1. i \in 1..i
        OBVIOUS
      <4> QED
        BY <1>2, <2>1, <4>1
    <3> QED
      BY <3>1
  <2>3. (1..i) \ {i} = 1..(i - 1)
    BY <1>1
  <2>4. c[1..i] = g[seq[i]][c[1..(i - 1)]]
    BY <1>7, <2>1, <2>2, <2>3
  <2>5. i \in 0..Len(seq) /\ i - 1 \in 0..Len(seq)
    BY <1>1
  <2> QED
    BY <2>4, <2>5
<1>11. \A k \in 0..Len(seq) : acc[k] \in V
  <2> DEFINE T == {k \in Nat : k <= Len(seq) => acc[k] \in V}
  <2> HIDE DEF acc
  <2>1. 0 \in T
    BY <1>9
  <2>2. ASSUME NEW k \in Nat, k \in T
        PROVE  k + 1 \in T
    <3> SUFFICES ASSUME k + 1 <= Len(seq) PROVE acc[k + 1] \in V
      OBVIOUS
    <3>1. acc[k + 1] = g[seq[k + 1]][acc[k]] /\ seq[k + 1] \in A
      <4>1. k + 1 \in 1..Len(seq) /\ k + 1 - 1 = k
        BY <1>1
      <4> QED
        BY <1>10, <4>1
    <3> QED
      BY <1>1, <2>2, <3>1
  <2> HIDE DEF T
  <2>3. Nat \subseteq T
    BY <2>1, <2>2, SetInduction
  <2> QED
    BY <1>1, <2>3 DEF T
<1>12. FoldLeft(LAMBDA t, d : g[d][t], base, seq) = acc[Len(seq)]
  <2>1. acc[Len(seq)] = c[N]
    BY <1>1
  <2> QED
    BY <1>8, <2>1
<1>13. acc \in [0..Len(seq) -> V]
  BY <1>11
<1> HIDE DEF acc
<1>14. Folding(V, g, base, seq, acc)
  BY <1>9, <1>10, <1>12, <1>13 DEF Folding
<1> QED
  BY <1>14
=============================================================================
