----------------------- MODULE IseTransactionProofs -----------------------
(***************************************************************************)
(* A policy-plane transaction that reports "nothing changed" or "rolled    *)
(* back" left nothing of its own on ISE, for any number of adapters and    *)
(* administrators, any manifests and any requests that fail.               *)
(*                                                                         *)
(* The invariant follows the journal: every object the adapter wrote last  *)
(* has an entry (Covered), and the entry recognises the object as written  *)
(* by the adapter (Faithful), so that no entry is dropped as done while    *)
(* the object is still the adapter's.  That a new entry does not meet an   *)
(* object the adapter wrote before needs the position of each entry in the *)
(* manifest (Fresh).                                                       *)
(*                                                                         *)
(* Three more invariants rest on it.  KeptInv: nobody decides to write an  *)
(* object without the ownership marker.  TraceInv: an adapter that is      *)
(* alone finds what it decided in the server as it was, and leaves every   *)
(* operation behind it as it should be.  SoloInv: if ISE answers as well,  *)
(* each entry knows exactly what its adapter wrote, and a cell's entry     *)
(* comes after those of what the cell refers to.                           *)
(***************************************************************************)
EXTENDS IseTransaction, SequenceTheorems, TLAPS

Kinds == {"none", "create", "noop", "update", "deferred"}
Items == [object : Objects, action : Kinds, id : Nat, pre : Values \cup {None},
          post : Values \cup {None}]
Local == [pc : PCs, pos : Nat, journal : Seq(Items), plan : [Objects -> Actions],
          failed : BOOLEAN]

Idx(x) == 1..Len(x.journal)

\* Whether the object is as the entry's transaction left it.
Written(e, srv) ==
  /\ srv[e.object] # Absent
  /\ e.action = "create" => e.id \in {0, srv[e.object].id}
  /\ e.action # "create" => /\ e.id = srv[e.object].id
                            /\ e.pre # srv[e.object].value

\* Every object t wrote last has an entry until t commits or gives one up.
Covered(t, x, aut) ==
  x.pc # "committed" /\ ~x.failed =>
    \A o \in Objects : aut[o] = t => \E i \in Idx(x) : x.journal[i].object = o

Faithful(t, x, srv, aut) ==
  \A i \in Idx(x) :
    aut[x.journal[i].object] = t => Written(x.journal[i], srv)

\* The journal is empty where nothing was written, and a failure is recorded
\* only in the rollback.
Calm(x) ==
  /\ x.pc \in {"prepare", "prepared", "refused", "clean", "rolled_back"}
       => x.journal = <<>>
  /\ x.pc \notin {"unwind", "undo", "undone", "rollback_failed"} => ~x.failed

Busy(x)   == x.pc \in {"send", "verify", "recover", "undo", "undone"}
Behind(t, x, i) ==
  \E k \in 1..Len(Manifest[t]) : k < x.pos /\ x.journal[i].object = Manifest[t][k]

\* Entries belong to operations before the current one, the last entry of a
\* write that is under way to the current one.
Fresh(t, x) ==
  LET e == x.journal[Len(x.journal)]
      o == Manifest[t][x.pos]
      a == x.plan[o]
  IN
  /\ Busy(x) => Len(x.journal) > 0
  /\ x.pc = "apply" => \A i \in Idx(x) : Behind(t, x, i)
  /\ x.pc \in {"send", "verify", "recover"} =>
       /\ \A i \in 1..(Len(x.journal) - 1) : Behind(t, x, i)
       /\ e.object = o /\ e.action = a.kind /\ e.pre = a.pre
  /\ x.pc = "send" => e.id = a.id
  /\ x.pc \in {"undo", "undone"} => e.id # 0

\* A create has neither an id nor a value to restore, an update has both.
PreOK(kind, pre) ==
  /\ kind = "create" => pre = None
  /\ kind = "update" => pre \in Values

ActionOK(a) == PreOK(a.kind, a.pre) /\ (a.kind = "create" => a.id = 0)

Blank(x) ==
  /\ \A o \in Objects : ActionOK(x.plan[o])
  /\ \A i \in Idx(x) : PreOK(x.journal[i].action, x.journal[i].pre)

Good(t, x, srv, aut) ==
  /\ x \in Local
  /\ x.pos \in 1..Len(Manifest[t])
  /\ Calm(x)
  /\ Fresh(t, x)
  /\ Blank(x)
  /\ Covered(t, x, aut)
  /\ Faithful(t, x, srv, aut)

ServerOK ==
  /\ server \in [Objects -> Incarnations]
  /\ lastId \in [Objects -> Nat]
  /\ author \in [Objects -> Txns \cup {Admin, None}]

IseInv ==
  /\ ServerOK
  /\ tx \in [Txns -> Local]
  /\ \A t \in Txns : Good(t, tx[t], server, author)

-----------------------------------------------------------------------------
(* What the changes of a step do to Good. *)

\* Others only take objects away from u.
LEMMA GoodKept ==
  ASSUME NEW u, NEW x, NEW srv, NEW aut, NEW srv2, NEW aut2,
         Good(u, x, srv, aut),
         \A o \in Objects : aut2[o] = u => aut[o] = u /\ srv2[o] = srv[o]
  PROVE  Good(u, x, srv2, aut2)
<1>1. \A i \in Idx(x) : x.journal[i].object \in Objects
  <2>1. x.journal \in Seq(Items)
    BY DEF Good, Local
  <2>2. \A i \in Idx(x) : x.journal[i] \in Items
    BY <2>1, ElementOfSeq DEF Idx
  <2> QED BY <2>2 DEF Items
<1>2. Covered(u, x, aut2)
  BY DEF Good, Covered
<1>3. Faithful(u, x, srv2, aut2)
  BY <1>1 DEF Good, Faithful, Written
<1> QED BY <1>2, <1>3 DEF Good

\* The adapter moves on with its journal as it is.
LEMMA GoodMove ==
  ASSUME NEW t, NEW x, NEW y, NEW srv, NEW aut,
         Good(t, x, srv, aut),
         y \in Local, y.pos \in 1..Len(Manifest[t]),
         y.journal = x.journal, y.failed = x.failed,
         x.pc # "committed",
         Calm(y), Fresh(t, y),
         \A o \in Objects : ActionOK(y.plan[o])
  PROVE  Good(t, y, srv, aut)
<1>1. Covered(t, y, aut)
  BY DEF Good, Covered, Idx
<1>2. Faithful(t, y, srv, aut)
  BY DEF Good, Faithful, Idx
<1>3. Blank(y)
  BY DEF Good, Blank, Idx
<1> QED BY <1>1, <1>2, <1>3 DEF Good

\* The last entry learns an id, a post_hash, or nothing.
LEMMA GoodLearn ==
  ASSUME NEW t, NEW x, NEW y, NEW srv, NEW aut, NEW e \in Items,
         Good(t, x, srv, aut),
         y \in Local, y.pos \in 1..Len(Manifest[t]),
         Len(x.journal) > 0,
         y.journal = [x.journal EXCEPT ![Len(x.journal)] = e],
         y.failed = x.failed, x.pc # "committed", y.plan = x.plan,
         Calm(y), Fresh(t, y),
         e.object = x.journal[Len(x.journal)].object,
         e.action = x.journal[Len(x.journal)].action,
         e.pre = x.journal[Len(x.journal)].pre,
         aut[e.object] = t => Written(e, srv)
  PROVE  Good(t, y, srv, aut)
<1> DEFINE n == Len(x.journal)
<1>1. x.journal \in Seq(Items) /\ n \in 1..Len(x.journal)
  BY DEF Good, Local
<1>2. /\ Len(y.journal) = n
      /\ \A i \in 1..n : y.journal[i] = IF i = n THEN e ELSE x.journal[i]
  BY <1>1, ExceptSeq
<1> HIDE DEF n
<1>3. \A i \in 1..n : y.journal[i].object = x.journal[i].object
                      /\ y.journal[i].action = x.journal[i].action
                      /\ y.journal[i].pre = x.journal[i].pre
  BY <1>2 DEF n
<1>4. Covered(t, y, aut)
  BY <1>2, <1>3 DEF Good, Covered, Idx, n
<1>5. Faithful(t, y, srv, aut)
  BY <1>2, <1>3 DEF Good, Faithful, Idx, n
<1>6. Blank(y)
  BY <1>2, <1>3 DEF Good, Blank, Idx, n
<1> QED BY <1>4, <1>5, <1>6 DEF Good

\* An entry is written for an object that is not the adapter's.
LEMMA GoodAppend ==
  ASSUME NEW t, NEW x, NEW y, NEW srv, NEW aut, NEW e \in Items,
         Good(t, x, srv, aut),
         y \in Local, y.pos \in 1..Len(Manifest[t]),
         y.journal = Append(x.journal, e),
         y.failed = x.failed, x.pc # "committed", y.plan = x.plan,
         Calm(y), Fresh(t, y),
         PreOK(e.action, e.pre),
         aut[e.object] # t
  PROVE  Good(t, y, srv, aut)
<1>1. x.journal \in Seq(Items)
  BY DEF Good, Local
<1>2. /\ Len(y.journal) = Len(x.journal) + 1
      /\ \A i \in 1..Len(x.journal) : y.journal[i] = x.journal[i]
      /\ y.journal[Len(x.journal) + 1] = e
      /\ Len(x.journal) \in Nat
  BY <1>1
<1>3. Covered(t, y, aut)
  BY <1>2 DEF Good, Covered, Idx
<1>4. Faithful(t, y, srv, aut)
  BY <1>2 DEF Good, Faithful, Idx
<1>5. Blank(y)
  BY <1>2 DEF Good, Blank, Idx
<1> QED BY <1>3, <1>4, <1>5 DEF Good

\* The last entry is dropped as done, or as failed.
LEMMA GoodDrop ==
  ASSUME NEW t, NEW x, NEW y, NEW srv, NEW aut, NEW ok \in BOOLEAN,
         Good(t, x, srv, aut),
         Len(x.journal) > 0,
         y = [x EXCEPT !.journal = Front(x.journal), !.pc = "unwind",
                       !.failed = x.failed \/ ~ok],
         x.pc # "committed",
         ok => aut[x.journal[Len(x.journal)].object] # t
  PROVE  Good(t, y, srv, aut)
<1> DEFINE n == Len(x.journal)
<1>1. x.journal \in Seq(Items) /\ n \in Nat /\ n > 0
  BY DEF Good, Local
<1>2. \A i \in 1..(n - 1) : x.journal[i] \in Items
  BY <1>1, ElementOfSeq
<1>3. /\ Front(x.journal) \in Seq(Items)
      /\ Len(Front(x.journal)) = n - 1
      /\ \A i \in 1..(n - 1) : Front(x.journal)[i] = x.journal[i]
  BY <1>1, <1>2, SubSeqProperties DEF Front
<1> HIDE DEF n
<1>4. x \in Local
  BY DEF Good
<1>5. /\ y.journal = Front(x.journal) /\ y.pc = "unwind"
      /\ y.failed = (x.failed \/ ~ok) /\ y.pos = x.pos /\ y.plan = x.plan
  BY <1>4 DEF Local
<1>6. y \in Local
  BY <1>3, <1>4 DEF Local, PCs, Ended
<1>7. Calm(y) /\ Fresh(t, y)
  BY <1>5 DEF Calm, Fresh, Busy
<1>8. Blank(y)
  BY <1>1, <1>3, <1>5 DEF Good, Blank, Idx, n
<1>9. Covered(t, y, aut)
  <2> SUFFICES ASSUME ~y.failed, NEW o \in Objects, aut[o] = t
               PROVE  \E i \in Idx(y) : y.journal[i].object = o
    BY DEF Covered
  <2>1. ok /\ ~x.failed
    BY <1>5
  <2>2. PICK i \in Idx(x) : x.journal[i].object = o
    BY <2>1 DEF Good, Covered
  <2>3. i # n
    BY <2>1, <2>2 DEF n
  <2>4. i \in 1..(n - 1)
    BY <1>1, <2>3 DEF Idx, n
  <2> QED BY <1>3, <1>5, <2>2, <2>4 DEF Idx
<1>10. Faithful(t, y, srv, aut)
  BY <1>1, <1>3, <1>5 DEF Good, Faithful, Idx, n
<1>11. y.pos \in 1..Len(Manifest[t])
  BY <1>5 DEF Good
<1> QED BY <1>6, <1>7, <1>8, <1>9, <1>10, <1>11 DEF Good

-----------------------------------------------------------------------------
(* The steps of an adapter. *)

LEMMA PlanTyped ==
  ASSUME IseInv, NEW t \in Txns
  PROVE  /\ Object(t) \in Objects
         /\ server[Object(t)] \in Incarnations
         /\ Action(t) \in Actions
         /\ Action(t) = tx[t].plan[Object(t)]
         /\ tx[t] \in Local
         /\ tx[t].pos \in 1..Len(Manifest[t])
<1>1. tx[t] \in Local /\ tx[t].pos \in 1..Len(Manifest[t])
  BY DEF IseInv, Good
<1>2. Object(t) \in Objects
  BY <1>1, ManifestAssumption, ElementOfSeq DEF Object
<1> QED BY <1>1, <1>2 DEF Action, IseInv, ServerOK, Local

LEMMA NextPosOK ==
  ASSUME IseInv, NEW t \in Txns
  PROVE  /\ NextPos(t) \in 1..Len(Manifest[t])
         /\ NextPos(t) \in Nat
         /\ ~LastOne(t) => NextPos(t) = tx[t].pos + 1
<1>1. tx[t].pos \in 1..Len(Manifest[t])
  BY PlanTyped
<1>2. Manifest[t] \in Seq(Objects) /\ Len(Manifest[t]) > 0
  BY ManifestAssumption
<1> QED BY <1>1, <1>2 DEF NextPos, LastOne

\* What a step of t leaves behind.
Preserved(t) ==
  /\ tx' \in [Txns -> Local]
  /\ \A u \in Txns : u # t => tx'[u] = tx[u]
  /\ Good(t, tx'[t], server', author')

LEMMA GotoGood ==
  ASSUME IseInv, NEW t \in Txns, NEW pc \in PCs, Goto(t, pc),
         tx[t].pc \notin {"committed", "unwind", "undo", "undone"},
         ~tx[t].failed,
         pc \in {"refused", "clean", "prepared", "rolled_back"} =>
           tx[t].journal = <<>>,
         ~Busy(tx'[t]), pc # "prepare",
         pc = "apply" => tx[t].journal = <<>>
  PROVE  ServerSame => Preserved(t)
<1> DEFINE x == tx[t]
           y == [x EXCEPT !.pc = pc]
<1>1. x \in Local /\ tx \in [Txns -> Local] /\ Good(t, x, server, author)
  BY DEF IseInv, Good
<1>2. y \in Local /\ y.journal = x.journal /\ y.failed = x.failed
      /\ y.plan = x.plan /\ y.pos = x.pos /\ y.pc = pc
      /\ y.failed = FALSE
  BY <1>1 DEF Local
<1>3. tx' = [tx EXCEPT ![t] = y]
  BY DEF Goto
<1>4. tx'[t] = y
  BY <1>1, <1>3
<1> HIDE DEF x, y
<1>5. Calm(y)
  BY <1>2 DEF Calm, x
<1>6. Fresh(t, y)
  BY <1>2, <1>4 DEF Fresh, Busy, x, Idx
<1>7. /\ y.pos \in 1..Len(Manifest[t])
      /\ \A o \in Objects : ActionOK(y.plan[o])
  BY <1>1, <1>2 DEF Good, Blank
<1>8. x.pc # "committed"
  BY DEF x
<1>9. Good(t, y, server, author)
  BY <1>1, <1>2, <1>5, <1>6, <1>7, <1>8, GoodMove
<1> QED BY <1>1, <1>2, <1>3, <1>4, <1>9 DEF Preserved, ServerSame

\* The record of t is replaced by y.
LEMMA Replace ==
  ASSUME IseInv, NEW t \in Txns, NEW y, y \in Local, tx' = [tx EXCEPT ![t] = y],
         Good(t, y, server', author')
  PROVE  Preserved(t)
<1>1. tx \in [Txns -> Local]
  BY DEF IseInv
<1>2. tx'[t] = y
  BY <1>1
<1> QED BY <1>1, <1>2 DEF Preserved

LEMMA ReadFailsGood ==
  ASSUME IseInv, NEW t \in Txns, ReadFails(t)
  PROVE  Preserved(t)
<1>1. tx[t] \in Local /\ Calm(tx[t]) /\ tx \in [Txns -> Local]
  BY DEF IseInv, Good
<1>2. CASE tx[t].pc = "prepare" /\ Goto(t, "refused")
  <2>1. tx'[t].pc = "refused"
    BY <1>1, <1>2 DEF Goto, Local
  <2> QED BY <1>1, <1>2, <2>1, GotoGood DEF Calm, ReadFails, PCs, Ended, Busy
<1>3. CASE tx[t].pc \in {"apply", "verify", "recover"} /\ Goto(t, "failed")
  <2>1. tx'[t].pc = "failed"
    BY <1>1, <1>3 DEF Goto, Local
  <2> QED BY <1>1, <1>3, <2>1, GotoGood DEF Calm, ReadFails, PCs, Ended, Busy
<1> QED BY <1>2, <1>3 DEF ReadFails

LEMMA ProceedGood ==
  ASSUME IseInv, NEW t \in Txns, Proceed(t)
  PROVE  Preserved(t)
<1>1. tx[t] \in Local /\ Calm(tx[t]) /\ tx \in [Txns -> Local]
  BY DEF IseInv, Good
<1>2. ASSUME NEW pc \in {"apply", "failed"}, Goto(t, pc)
      PROVE  Preserved(t)
  <2>1. tx'[t].pc = pc
    BY <1>1, <1>2 DEF Goto, Local
  <2> QED BY <1>1, <1>2, <2>1, GotoGood DEF Calm, Proceed, PCs, Ended, Busy
<1> QED BY <1>2 DEF Proceed

LEMMA ConcludeGood ==
  ASSUME IseInv, NEW t \in Txns, Conclude(t)
  PROVE  Preserved(t)
<1>1. tx[t] \in Local /\ Calm(tx[t]) /\ tx \in [Txns -> Local]
  BY DEF IseInv, Good
<1>2. ASSUME NEW pc \in {"committed", "failed"}, Goto(t, pc)
      PROVE  Preserved(t)
  <2>1. tx'[t].pc = pc
    BY <1>1, <1>2 DEF Goto, Local
  <2> QED BY <1>1, <1>2, <2>1, GotoGood DEF Calm, Conclude, PCs, Ended, Busy
<1> QED BY <1>2 DEF Conclude

\* Prepare and Reclassify change the plan only.
LEMMA PlannedGood ==
  ASSUME IseInv, NEW t \in Txns, NEW a \in Actions, NEW y \in Local,
         tx' = [tx EXCEPT ![t] = y],
         y.plan = Planned(t, Object(t), a),
         y.journal = tx[t].journal, y.failed = tx[t].failed,
         ServerSame,
         ActionOK(a),
         y.pos \in 1..Len(Manifest[t]),
         \/ tx[t].pc = "prepare" /\ y.pc \in {"prepare", "prepared"}
         \/ tx[t].pc = "apply" /\ y.pc = "apply" /\ y.pos = tx[t].pos
  PROVE  Preserved(t)
<1> DEFINE x == tx[t]
<1>1. x \in Local /\ Good(t, x, server, author)
  BY DEF IseInv, Good
<1>2. \A o \in Objects : y.plan[o] = IF o = Object(t) THEN a ELSE x.plan[o]
  BY <1>1, PlanTyped DEF Planned, Local
<1>3. y.failed \in BOOLEAN
  BY DEF Local
<1>4. x.pc # "committed"
  OBVIOUS
<1>5. Calm(y)
  BY <1>1, <1>3 DEF Good, Calm
<1>6. Fresh(t, y)
  BY <1>1 DEF Good, Fresh, Busy, Idx, Behind
<1>7. \A o \in Objects : ActionOK(y.plan[o])
  BY <1>1, <1>2 DEF Good, Blank
<1>8. Good(t, y, server, author)
  BY <1>1, <1>4, <1>5, <1>6, <1>7, GoodMove
<1> QED BY <1>8, Replace DEF ServerSame

LEMMA ClassifiedOK ==
  ASSUME IseInv, NEW t \in Txns
  PROVE  /\ Classified(t, Object(t)) \in Actions
         /\ ActionOK(Classified(t, Object(t)))
BY PlanTyped, WantAssumption DEF ActionOK, PreOK, Classified, Actions, Incarnations, Absent

LEMMA DeferredOK ==
  /\ [NoAction EXCEPT !.kind = "deferred"] \in Actions
  /\ ActionOK([NoAction EXCEPT !.kind = "deferred"])
BY DEF NoAction, Actions, ActionOK, PreOK

LEMMA PrepareGood ==
  ASSUME IseInv, NEW t \in Txns, Prepare(t)
  PROVE  Preserved(t)
<1>1. /\ tx[t] \in Local /\ Calm(tx[t]) /\ tx \in [Txns -> Local]
      /\ tx[t].pc = "prepare" /\ ServerSame
  BY DEF IseInv, Good, Prepare
<1>2. CASE Goto(t, "refused")
  <2>1. tx'[t].pc = "refused"
    BY <1>1, <1>2 DEF Goto, Local
  <2> QED BY <1>1, <1>2, <2>1, GotoGood DEF Calm, PCs, Ended, Busy
<1>3. ASSUME NEW a \in Actions, ActionOK(a),
             tx' = [tx EXCEPT ![t].plan = Planned(t, Object(t), a),
                              ![t].pos  = NextPos(t),
                              ![t].pc   = NextPc(t, "prepare", "prepared")]
      PROVE  Preserved(t)
  <2> DEFINE p == Planned(t, Object(t), a)
             pos == NextPos(t)
             pc == NextPc(t, "prepare", "prepared")
  <2>1. pos \in Nat /\ pos \in 1..Len(Manifest[t])
    BY NextPosOK
  <2>2. pc \in {"prepare", "prepared"}
    BY DEF NextPc
  <2> DEFINE y == [tx[t] EXCEPT !.plan = p, !.pos = pos, !.pc = pc]
  <2> HIDE DEF p, pos, pc
  <2>3. tx' = [tx EXCEPT ![t] = y]
    BY <1>1, <1>3 DEF p, pos, pc
  <2>4. pc \in PCs
    BY <2>2 DEF PCs
  <2>5. p \in [Objects -> Actions]
    BY <1>1, PlanTyped DEF p, Planned, Local
  <2>6. /\ y \in Local /\ y.journal = tx[t].journal
        /\ y.failed = tx[t].failed /\ y.plan = p /\ y.pos = pos /\ y.pc = pc
    BY <1>1, <2>1, <2>4, <2>5 DEF Local
  <2> HIDE DEF y
  <2> QED BY <1>1, <1>3, <2>1, <2>2, <2>3, <2>6, PlannedGood DEF p
<1> QED BY <1>2, <1>3, ClassifiedOK, DeferredOK DEF Prepare

LEMMA ReclassifyGood ==
  ASSUME IseInv, NEW t \in Txns, Reclassify(t)
  PROVE  Preserved(t)
<1>1. /\ tx[t] \in Local /\ Calm(tx[t]) /\ tx \in [Txns -> Local]
      /\ tx[t].pc = "apply" /\ ServerSame
      /\ tx[t].pos \in 1..Len(Manifest[t])
  BY DEF IseInv, Good, Reclassify, At
<1>2. CASE Goto(t, "failed")
  <2>1. tx'[t].pc = "failed"
    BY <1>1, <1>2 DEF Goto, Local
  <2> QED BY <1>1, <1>2, <2>1, GotoGood DEF Calm, PCs, Ended, Busy
<1>3. ASSUME NEW a \in Actions, ActionOK(a),
             tx' = [tx EXCEPT ![t].plan = Planned(t, Object(t), a)]
      PROVE  Preserved(t)
  <2> DEFINE p == Planned(t, Object(t), a)
             y == [tx[t] EXCEPT !.plan = p]
  <2>1. tx' = [tx EXCEPT ![t] = y]
    BY <1>3
  <2>2. p \in [Objects -> Actions]
    BY <1>1, PlanTyped DEF Planned, Local
  <2> HIDE DEF p
  <2>3. /\ y \in Local /\ y.journal = tx[t].journal
        /\ y.failed = tx[t].failed /\ y.plan = p
        /\ y.pos = tx[t].pos /\ y.pc = tx[t].pc
    BY <1>1, <2>2 DEF Local
  <2> HIDE DEF y
  <2> QED BY <1>1, <1>3, <2>1, <2>3, PlannedGood DEF p
<1> QED BY <1>2, <1>3, ClassifiedOK DEF Reclassify

LEMMA GoodGoto ==
  ASSUME NEW t, NEW x, NEW pc \in PCs, NEW srv, NEW aut,
         Good(t, x, srv, aut), x.pc # "committed",
         Calm([x EXCEPT !.pc = pc]), Fresh(t, [x EXCEPT !.pc = pc])
  PROVE  Good(t, [x EXCEPT !.pc = pc], srv, aut)
<1> DEFINE y == [x EXCEPT !.pc = pc]
<1>1. x \in Local
  BY DEF Good
<1>2. y \in Local /\ y.journal = x.journal /\ y.failed = x.failed
      /\ y.plan = x.plan /\ y.pos = x.pos
  BY <1>1 DEF Local
<1> HIDE DEF y
<1>3. /\ y.pos \in 1..Len(Manifest[t])
      /\ \A o \in Objects : ActionOK(y.plan[o])
  BY <1>2 DEF Good, Blank
<1>4. Calm(y) /\ Fresh(t, y)
  BY DEF y
<1>5. Good(t, y, srv, aut)
  BY <1>2, <1>3, <1>4, GoodMove
<1> QED BY <1>5 DEF y

\* An object that was dealt with before is not the current one.
LEMMA Elsewhere ==
  ASSUME NEW t \in Txns, NEW x, x.pos \in 1..Len(Manifest[t]), NEW i,
         Behind(t, x, i)
  PROVE  x.journal[i].object # Manifest[t][x.pos]
BY ManifestAssumption DEF Behind

LEMMA NewEntryOK ==
  ASSUME IseInv, NEW t \in Txns, tx[t].pc = "apply", Action(t).kind \in Kinds
  PROVE  /\ NewEntry(t) \in Items
         /\ PreOK(NewEntry(t).action, NewEntry(t).pre)
         /\ author[NewEntry(t).object] # t
<1> DEFINE x == tx[t]
<1>1. Good(t, x, server, author) /\ Object(t) \in Objects /\ Action(t) \in Actions
      /\ Action(t) = x.plan[Object(t)]
  BY PlanTyped DEF IseInv
<1>2. NewEntry(t) \in Items
  BY <1>1 DEF NewEntry, Items, Actions
<1>3. PreOK(NewEntry(t).action, NewEntry(t).pre)
  BY <1>1 DEF Good, Blank, ActionOK, NewEntry
<1>4. ASSUME author[Object(t)] = t  PROVE FALSE
  <2>1. PICK i \in Idx(x) : x.journal[i].object = Object(t)
    BY <1>1, <1>4 DEF Good, Covered, Calm
  <2>2. Behind(t, x, i)
    BY <1>1 DEF Good, Fresh
  <2>3. x.journal[i].object # Manifest[t][x.pos]
    BY <1>1, <2>2, Elsewhere DEF Good
  <2> QED BY <2>1, <2>3 DEF Object
<1> QED BY <1>2, <1>3, <1>4 DEF NewEntry

LEMMA CheckGood ==
  ASSUME IseInv, NEW t \in Txns, Check(t)
  PROVE  Preserved(t)
<1> DEFINE x == tx[t]
<1>1. /\ x \in Local /\ Good(t, x, server, author) /\ tx \in [Txns -> Local]
      /\ Calm(x) /\ x.pc = "apply" /\ ServerSame
  BY DEF IseInv, Good, Check
<1>2. CASE Goto(t, "failed")
  <2>1. tx'[t].pc = "failed"
    BY <1>1, <1>2 DEF Goto, Local
  <2> QED BY <1>1, <1>2, <2>1, GotoGood DEF Calm, PCs, Ended, Busy
<1>3. CASE tx' = [tx EXCEPT ![t].pos = NextPos(t),
                            ![t].pc  = NextPc(t, "apply", "applied")]
  <2> DEFINE pos == NextPos(t)
             pc == NextPc(t, "apply", "applied")
             y == [x EXCEPT !.pos = pos, !.pc = pc]
  <2>1. /\ pos \in Nat /\ pos \in 1..Len(Manifest[t])
        /\ pc \in {"apply", "applied"} /\ pc \in PCs
        /\ pc = "apply" => pos = x.pos + 1
    BY NextPosOK DEF NextPc, PCs
  <2> HIDE DEF pos, pc
  <2>2. tx' = [tx EXCEPT ![t] = y]
    BY <1>1, <1>3 DEF pos, pc
  <2>3. /\ y \in Local /\ y.journal = x.journal /\ y.failed = x.failed
        /\ y.plan = x.plan /\ y.pos = pos /\ y.pc = pc /\ y.failed \in BOOLEAN
    BY <1>1, <2>1 DEF Local
  <2> HIDE DEF y
  <2>4. Calm(y)
    BY <1>1, <2>1, <2>3 DEF Calm
  <2>5. \A i : Behind(t, x, i) /\ pc = "apply" => Behind(t, y, i)
    BY <2>1, <2>3, <1>1 DEF Behind, Local
  <2>6. Fresh(t, y)
    BY <1>1, <2>1, <2>3, <2>5 DEF Good, Fresh, Busy, Idx
  <2>7. \A o \in Objects : ActionOK(y.plan[o])
    BY <1>1, <2>3 DEF Good, Blank
  <2>8. Good(t, y, server, author)
    BY <1>1, <2>1, <2>3, <2>4, <2>6, <2>7, GoodMove
  <2> QED BY <1>1, <2>2, <2>3, <2>8, Replace DEF ServerSame
<1>4. CASE tx' = [tx EXCEPT ![t].journal = Journaled(t), ![t].pc = "send"]
  <2> DEFINE e == NewEntry(t)
             j == Append(x.journal, e)
             y == [x EXCEPT !.journal = j, !.pc = "send"]
  <2>1. Action(t) \in Actions /\ Action(t) = x.plan[Object(t)]
    BY PlanTyped
  <2>2. /\ e \in Items
        /\ PreOK(e.action, e.pre)
        /\ author[e.object] # t
    BY <1>1, <2>1, NewEntryOK DEF Actions, Kinds
  <2>3. /\ e.object = Object(t) /\ e.action = Action(t).kind
        /\ e.pre = Action(t).pre /\ e.id = Action(t).id
    BY DEF NewEntry
  <2> HIDE DEF e
  <2>4. /\ j \in Seq(Items) /\ Len(j) = Len(x.journal) + 1
        /\ j[Len(j)] = e /\ Len(x.journal) \in Nat
        /\ \A i \in 1..(Len(j) - 1) : j[i] = x.journal[i]
    <3>1. x.journal \in Seq(Items)
      BY <1>1 DEF Local
    <3> QED BY <2>2, <3>1, AppendProperties
  <2>5. tx' = [tx EXCEPT ![t] = y]
    BY <1>1, <1>4 DEF Journaled, e
  <2> HIDE DEF j
  <2>6. /\ y \in Local /\ y.journal = j /\ y.failed = x.failed
        /\ y.plan = x.plan /\ y.pos = x.pos /\ y.pc = "send"
        /\ y.failed \in BOOLEAN
    BY <1>1, <2>4 DEF Local, PCs
  <2> HIDE DEF y
  <2>7. Calm(y)
    BY <1>1, <2>6 DEF Calm
  <2>8. \A i \in 1..(Len(j) - 1) : Behind(t, y, i)
    <3>1. SUFFICES ASSUME NEW i \in 1..(Len(j) - 1)
                   PROVE  Behind(t, y, i)
      OBVIOUS
    <3>2. i \in Idx(x) /\ Behind(t, x, i) /\ j[i] = x.journal[i]
      BY <1>1, <2>4, <2>6 DEF Good, Fresh, Idx
    <3> QED BY <1>1, <2>6, <3>2 DEF Behind, Good
  <2>9. Fresh(t, y)
    BY <2>1, <2>3, <2>4, <2>6, <2>8 DEF Fresh, Busy, Object
  <2>10. y.pos \in 1..Len(Manifest[t])
    BY <1>1, <2>6 DEF Good
  <2>11. y.journal = Append(x.journal, e) /\ x.pc # "committed"
    BY <1>1, <2>6 DEF j
  <2> HIDE DEF x
  <2>12. Good(t, y, server, author)
    BY <1>1, <2>2, <2>6, <2>7, <2>9, <2>10, <2>11, GoodAppend
  <2> QED BY <1>1, <2>5, <2>6, <2>12, Replace DEF ServerSame
<1> QED BY <1>2, <1>3, <1>4 DEF Check

\* The current object is written: its entry is the last one.
LEMMA GoodWrite ==
  ASSUME NEW t \in Txns, NEW x, NEW srv, NEW aut, NEW srv2, NEW aut2,
         Good(t, x, srv, aut), x.pc = "send",
         \A q \in Objects : q # Manifest[t][x.pos] =>
           srv2[q] = srv[q] /\ aut2[q] = aut[q],
         aut2[Manifest[t][x.pos]] = t => Written(x.journal[Len(x.journal)], srv2)
  PROVE  Good(t, x, srv2, aut2)
<1> DEFINE o == Manifest[t][x.pos]
           n == Len(x.journal)
<1>1. x.journal \in Seq(Items) /\ n \in Nat /\ n > 0 /\ n \in Idx(x)
  BY DEF Good, Local, Fresh, Busy, Idx
<1>2. \A i \in Idx(x) : x.journal[i].object \in Objects
  <2>1. \A i \in Idx(x) : x.journal[i] \in Items
    BY <1>1, ElementOfSeq DEF Idx
  <2> QED BY <2>1 DEF Items
<1>3. x.journal[n].object = o
  BY DEF Good, Fresh
<1>4. \A i \in Idx(x) : i # n => x.journal[i].object # o
  <2>1. \A i \in Idx(x) : i # n => i \in 1..(n - 1)
    BY <1>1 DEF Idx
  <2>2. \A i \in 1..(n - 1) : Behind(t, x, i)
    BY DEF Good, Fresh
  <2>3. x.pos \in 1..Len(Manifest[t])
    BY DEF Good
  <2> QED BY <2>1, <2>2, <2>3, Elsewhere
<1>5. Covered(t, x, aut2)
  BY <1>1, <1>3 DEF Good, Covered
<1>6. Faithful(t, x, srv2, aut2)
  <2> SUFFICES ASSUME NEW i \in Idx(x), aut2[x.journal[i].object] = t
               PROVE  Written(x.journal[i], srv2)
    BY DEF Faithful
  <2>1. CASE i = n
    BY <2>1, <1>3
  <2>2. CASE i # n
    BY <2>2, <1>2, <1>4 DEF Good, Faithful, Written
  <2> QED BY <2>1, <2>2
<1> QED BY <1>5, <1>6 DEF Good

\* From "send": the answer is usable, unusable or missing.
LEMMA SentGood ==
  ASSUME IseInv, NEW t \in Txns, tx[t].pc = "send",
         NEW pc \in {"verify", "recover", "failed"}, Goto(t, pc),
         Good(t, tx[t], server', author')
  PROVE  Preserved(t)
<1> DEFINE x == tx[t]
           y == [x EXCEPT !.pc = pc]
<1>1. x \in Local /\ Calm(x) /\ Fresh(t, x)
  BY DEF Good
<1>2. y \in Local /\ y.journal = x.journal /\ y.failed = x.failed
      /\ y.plan = x.plan /\ y.pos = x.pos /\ y.pc = pc
  BY <1>1 DEF Local, PCs
<1>3. tx' = [tx EXCEPT ![t] = y]
  BY DEF Goto
<1>4. pc \in PCs /\ x.pc # "committed"
  BY DEF PCs
<1> HIDE DEF y
<1>5. Calm(y)
  BY <1>1, <1>2 DEF Calm
<1>6. Fresh(t, y)
  BY <1>1, <1>2 DEF Fresh, Busy, Behind
<1> USE DEF y
<1>7. Good(t, y, server', author')
  BY <1>4, <1>5, <1>6, GoodGoto
<1> HIDE DEF y
<1> QED BY <1>2, <1>3, <1>7, Replace

LEMMA RefusedGood ==
  ASSUME IseInv, NEW t \in Txns, tx[t].pc = "send", WriteRefused(t)
  PROVE  Preserved(t)
BY SentGood DEF WriteRefused, ServerSame, IseInv

LEMMA PostGood ==
  ASSUME IseInv, NEW t \in Txns, Post(t)
  PROVE  Preserved(t)
<1> DEFINE x == tx[t]
           o == Object(t)
           n == Len(x.journal)
<1>1. /\ x \in Local /\ Good(t, x, server, author) /\ x.pc = "send"
      /\ tx \in [Txns -> Local] /\ ServerOK
      /\ o \in Objects /\ o = Manifest[t][x.pos]
      /\ x.plan[o].kind = "create"
  BY PlanTyped DEF IseInv, Good, Post, At, Object, Action
<1>2. /\ Entry(t) = x.journal[n] /\ x.journal \in Seq(Items) /\ n > 0
      /\ Entry(t) \in Items
      /\ Entry(t).object = o /\ Entry(t).action = "create" /\ Entry(t).id = 0
      /\ Entry(t).pre = None
  <2>1. x.journal \in Seq(Items) /\ n > 0
    BY <1>1 DEF Local, Good, Fresh, Busy
  <2>2. Entry(t) = x.journal[n]
    BY DEF Entry, Last
  <2>3. x.journal[n] \in Items
    BY <2>1, ElementOfSeq
  <2> QED BY <1>1, <2>1, <2>2, <2>3 DEF Good, Fresh, Blank, ActionOK, PreOK
<1>3. ASSUME NEW v \in Values, Created(o, v, t)
      PROVE  /\ Good(t, x, server', author')
             /\ server'[o].id = lastId[o] + 1 /\ server'[o] # Absent
             /\ lastId[o] + 1 \in Nat
  <2>1. /\ server'[o] = [id |-> lastId[o] + 1, value |-> v] /\ lastId[o] \in Nat
        /\ \A q \in Objects : q # o => /\ server'[q] = server[q]
                                       /\ author'[q] = author[q]
    BY <1>1, <1>3 DEF ServerOK, Created
  <2>2. server'[o].id = lastId[o] + 1 /\ server'[o] # Absent
    BY <2>1, WantAssumption DEF Absent
  <2>3. Written(Entry(t), server')
    BY <1>2, <2>2 DEF Written
  <2> QED BY <1>1, <1>2, <2>1, <2>2, <2>3, GoodWrite
<1>4. CASE /\ \E v \in Values : Created(o, v, t)
           /\ tx' = [tx EXCEPT ![t].journal = WithId(t, lastId[o] + 1),
                               ![t].pc = "verify"]
  <2> DEFINE id == lastId[o] + 1
             e == [Entry(t) EXCEPT !.id = id]
             j == [x.journal EXCEPT ![n] = e]
             y == [x EXCEPT !.journal = j, !.pc = "verify"]
  <2>1. /\ Good(t, x, server', author') /\ id \in Nat
        /\ server'[o].id = id /\ server'[o] # Absent
    BY <1>3, <1>4
  <2> HIDE DEF id
  <2>2. /\ e \in Items /\ e.object = o /\ e.action = "create" /\ e.id = id
        /\ e.pre = None
    BY <1>2, <2>1 DEF Items
  <2>3. tx' = [tx EXCEPT ![t] = y]
    BY <1>1, <1>4 DEF WithId, WithLast, id
  <2> HIDE DEF e
  <2>4. n \in 1..Len(x.journal)
    BY <1>2
  <2>5. /\ j \in Seq(Items) /\ Len(j) = n
        /\ \A i \in 1..n : j[i] = IF i = n THEN e ELSE x.journal[i]
    BY <1>2, <2>2, <2>4, ExceptSeq
  <2> HIDE DEF j
  <2>6. /\ y \in Local /\ y.journal = j /\ y.failed = x.failed
        /\ y.plan = x.plan /\ y.pos = x.pos /\ y.pc = "verify"
        /\ y.failed \in BOOLEAN
    BY <1>1, <2>5 DEF Local, PCs
  <2> HIDE DEF y
  <2>7. Calm(y)
    BY <1>1, <2>6 DEF Good, Calm
  <2>8. ASSUME NEW i \in 1..(n - 1)  PROVE Behind(t, y, i)
    <3>1. Behind(t, x, i)
      BY <1>1 DEF Good, Fresh
    <3>2. y.journal[i] = x.journal[i]
      BY <2>4, <2>5, <2>6
    <3> QED BY <2>6, <3>1, <3>2 DEF Behind
  <2>9. Fresh(t, y)
    BY <1>1, <1>2, <2>2, <2>4, <2>5, <2>6, <2>8 DEF Good, Fresh, Busy
  <2>10. Written(e, server')
    BY <2>1, <2>2 DEF Written
  <2>11. y.journal = [x.journal EXCEPT ![n] = e]
    BY <2>6 DEF j
  <2>12. y.pos \in 1..Len(Manifest[t])
    BY <1>1, <2>6 DEF Good
  <2>13. Good(t, y, server', author')
    BY <1>1, <1>2, <2>1, <2>2, <2>6, <2>7, <2>9, <2>10, <2>11, <2>12, GoodLearn
  <2> QED BY <2>3, <2>6, <2>13, Replace
<1>5. CASE Created(o, Want[t][o], t) /\ (Goto(t, "recover") \/ Goto(t, "failed"))
  <2>1. Want[t][o] \in Values
    BY <1>1, WantAssumption
  <2>2. Good(t, x, server', author')
    BY <1>3, <1>5, <2>1
  <2> QED BY <1>1, <1>5, <2>2, SentGood
<1>6. CASE WriteRefused(t)
  BY <1>1, <1>6, RefusedGood
<1> QED BY <1>4, <1>5, <1>6 DEF Post

\* The entry of the write under way.
LEMMA EntryOK ==
  ASSUME IseInv, NEW t \in Txns, Len(tx[t].journal) > 0
  PROVE  /\ Entry(t) = tx[t].journal[Len(tx[t].journal)]
         /\ tx[t].journal \in Seq(Items)
         /\ Len(tx[t].journal) \in 1..Len(tx[t].journal)
         /\ Entry(t) \in Items
         /\ author[Entry(t).object] = t => Written(Entry(t), server)
<1>1. tx[t].journal \in Seq(Items)
  BY DEF IseInv, Good, Local
<1>2. Len(tx[t].journal) \in 1..Len(tx[t].journal)
  BY <1>1
<1>3. Entry(t) = tx[t].journal[Len(tx[t].journal)]
  BY DEF Entry, Last
<1>4. Entry(t) \in Items
  BY <1>1, <1>2, <1>3, ElementOfSeq
<1> QED BY <1>1, <1>2, <1>3, <1>4 DEF IseInv, Good, Faithful, Idx

LEMMA PutGood ==
  ASSUME IseInv, NEW t \in Txns, Put(t)
  PROVE  Preserved(t)
<1> DEFINE x == tx[t]
           o == Object(t)
           n == Len(x.journal)
           there == ById(o, Action(t).id) # Absent
<1>1. /\ x \in Local /\ Good(t, x, server, author) /\ x.pc = "send"
      /\ tx \in [Txns -> Local] /\ ServerOK
      /\ o \in Objects /\ o = Manifest[t][x.pos]
      /\ x.plan[o].kind = "update" /\ Action(t) = x.plan[o]
  BY PlanTyped DEF IseInv, Good, Put, At, Object, Action
<1>2. /\ Entry(t) = x.journal[n]
      /\ Entry(t).object = o /\ Entry(t).action = "update"
      /\ Entry(t).id = Action(t).id /\ Entry(t).pre = Action(t).pre
  BY <1>1, EntryOK DEF Good, Fresh, Busy
<1>3. ASSUME NEW v \in Values, NEW who, Replaced(o, v, who), there,
             who = t => v # Action(t).pre
      PROVE  Good(t, x, server', author')
  <2>1. server[o] # Absent /\ server[o].id = Action(t).id
    BY <1>3 DEF ById
  <2>2. server[o] \in [id : Nat \ {0}, value : Values]
    BY <1>1, <2>1 DEF ServerOK, Incarnations
  <2>3. /\ server'[o] = [server[o] EXCEPT !.value = v] /\ author'[o] = who
        /\ \A q \in Objects : q # o => /\ server'[q] = server[q]
                                       /\ author'[q] = author[q]
    BY <1>1, <1>3 DEF ServerOK, Replaced
  <2>4. server'[o].id = Action(t).id /\ server'[o].value = v
    BY <2>1, <2>2, <2>3
  <2>5. server'[o] # Absent
    BY <2>4, WantAssumption DEF Absent
  <2>6. who = t => Written(Entry(t), server')
    BY <1>2, <1>3, <2>4, <2>5 DEF Written
  <2> QED BY <1>1, <1>2, <2>3, <2>6, GoodWrite
<1>4. ASSUME NEW v \in Values, NEW pc \in {"verify", "failed"}, there,
             Replaced(o, v, Mark(t, v)), Goto(t, pc)
      PROVE  Preserved(t)
  <2>1. Mark(t, v) = t => v # Action(t).pre
    BY WantAssumption DEF Mark
  <2>2. Good(t, x, server', author')
    BY <1>3, <1>4, <2>1
  <2> QED BY <1>1, <1>4, <2>2, SentGood
<1>5. Want[t][o] \in Values
  BY <1>1, WantAssumption
<1>6. CASE WriteRefused(t)
  BY <1>1, <1>6, RefusedGood
<1> QED BY <1>4, <1>5, <1>6 DEF Put

\* The last entry learns something, and the adapter moves on to pc.
LEMMA LearntGood ==
  ASSUME IseInv, NEW t \in Txns, NEW e \in Items, NEW y \in Local, ServerSame,
         tx[t].pc \in {"verify", "recover", "unwind"},
         Len(tx[t].journal) > 0,
         tx' = [tx EXCEPT ![t] = y],
         y.journal = WithLast(t, e), y.plan = tx[t].plan,
         y.failed = tx[t].failed,
         e.object = Entry(t).object, e.action = Entry(t).action,
         e.pre = Entry(t).pre,
         e.id = Entry(t).id \/ e.id = server[e.object].id,
         y.pos \in 1..Len(Manifest[t]),
         \/ y.pc = "failed" /\ tx[t].pc # "unwind"
         \/ y.pc = "applied" /\ tx[t].pc = "verify"
         \/ y.pc = "apply" /\ tx[t].pc = "verify" /\ y.pos = tx[t].pos + 1
         \/ y.pc = "undo" /\ tx[t].pc = "unwind" /\ e.id # 0
  PROVE  Preserved(t)
<1> DEFINE x == tx[t]
           n == Len(x.journal)
<1>1. /\ x \in Local /\ Good(t, x, server, author) /\ y.failed \in BOOLEAN
      /\ x.pc # "committed"
  BY DEF IseInv, Good, Local
<1>2. /\ Entry(t) = x.journal[n] /\ n \in 1..Len(x.journal)
      /\ x.journal \in Seq(Items)
      /\ author[Entry(t).object] = t => Written(Entry(t), server)
  BY EntryOK
<1>3. /\ Len(y.journal) = n
      /\ \A i \in 1..n : y.journal[i] = IF i = n THEN e ELSE x.journal[i]
      /\ y.journal = [x.journal EXCEPT ![n] = e]
  BY <1>2, ExceptSeq DEF WithLast
<1>4. author[e.object] = t => Written(e, server)
  BY <1>2 DEF Written
<1>5. Calm(y)
  BY <1>1 DEF Good, Calm
<1>6. ASSUME y.pc = "apply", NEW i \in Idx(y)  PROVE Behind(t, y, i)
  <2>1. CASE i = n
    <3>1. e.object = Manifest[t][x.pos]
      BY <1>1, <1>2, <1>6 DEF Good, Fresh
    <3>2. x.pos \in 1..Len(Manifest[t]) /\ x.pos < y.pos
      BY <1>1, <1>6 DEF Good, Local
    <3> QED BY <1>3, <2>1, <1>2, <3>1, <3>2 DEF Behind
  <2>2. CASE i # n
    <3>1. i \in 1..(n - 1) /\ y.journal[i] = x.journal[i]
      BY <1>2, <1>3, <2>2 DEF Idx
    <3>2. Behind(t, x, i)
      BY <1>1, <1>6, <3>1 DEF Good, Fresh
    <3>3. x.pos < y.pos /\ x.pos \in Nat /\ y.pos \in Nat
      BY <1>1, <1>6 DEF Local
    <3> QED BY <3>1, <3>2, <3>3 DEF Behind
  <2> QED BY <2>1, <2>2
<1>7. Fresh(t, y)
  BY <1>2, <1>3, <1>6 DEF Fresh, Busy
<1> HIDE DEF x, n
<1>8. Good(t, y, server, author)
  <2>1. y.journal = [x.journal EXCEPT ![Len(x.journal)] = e] /\ Len(x.journal) > 0
    BY <1>3 DEF n, x
  <2>2. /\ e.object = x.journal[Len(x.journal)].object
        /\ e.action = x.journal[Len(x.journal)].action
        /\ e.pre = x.journal[Len(x.journal)].pre
    BY <1>2 DEF n
  <2>3. y.failed = x.failed /\ y.plan = x.plan
    BY DEF x
  <2> QED BY <1>1, <1>4, <1>5, <1>7, <2>1, <2>2, <2>3, GoodLearn
<1> QED BY <1>8, Replace DEF ServerSame

LEMMA VerifyGood ==
  ASSUME IseInv, NEW t \in Txns, Verify(t)
  PROVE  Preserved(t)
<1> DEFINE x == tx[t]
           found == ById(Object(t), Entry(t).id)
           e == [Entry(t) EXCEPT !.post = found.value]
           j == WithPost(t, found.value)
<1>1. /\ x \in Local /\ Good(t, x, server, author) /\ tx \in [Txns -> Local]
      /\ x.pc = "verify" /\ ServerSame /\ Calm(x) /\ Len(x.journal) > 0
      /\ x.pos \in 1..Len(Manifest[t])
  BY DEF IseInv, Good, Verify, Fresh, Busy
<1>2. Entry(t) \in Items /\ x.journal \in Seq(Items)
      /\ Len(x.journal) \in 1..Len(x.journal)
  BY <1>1, EntryOK
<1>3. found.value \in Values \cup {None}
  BY PlanTyped DEF ById, Incarnations, Absent
<1>4. /\ e \in Items /\ e.object = Entry(t).object /\ e.action = Entry(t).action
      /\ e.pre = Entry(t).pre /\ e.id = Entry(t).id
  BY <1>2, <1>3 DEF Items
<1>5. j = WithLast(t, e) /\ j \in Seq(Items)
  BY <1>2, <1>4, ExceptSeq DEF WithPost, WithLast
<1> HIDE DEF found, e, j
<1>6. CASE Goto(t, "failed")
  <2>1. tx'[t].pc = "failed"
    BY <1>1, <1>6 DEF Goto, Local
  <2> QED BY <1>1, <1>6, <2>1, GotoGood DEF Calm, PCs, Ended, Busy
<1>7. CASE tx' = [tx EXCEPT ![t].journal = j, ![t].pc = "failed"]
  <2> DEFINE y == [x EXCEPT !.journal = j, !.pc = "failed"]
  <2>1. tx' = [tx EXCEPT ![t] = y]
    BY <1>1, <1>7
  <2>2. /\ y \in Local /\ y.journal = j /\ y.plan = x.plan
        /\ y.failed = x.failed /\ y.pos = x.pos /\ y.pc = "failed"
    BY <1>1, <1>5 DEF Local, PCs
  <2> HIDE DEF y
  <2> QED BY <1>1, <1>4, <1>5, <2>1, <2>2, LearntGood
<1>8. CASE tx' = [tx EXCEPT ![t].journal = j, ![t].pos = NextPos(t),
                            ![t].pc = NextPc(t, "apply", "applied")]
  <2> DEFINE pos == NextPos(t)
             pc == NextPc(t, "apply", "applied")
             y == [x EXCEPT !.journal = j, !.pos = pos, !.pc = pc]
  <2>1. /\ pos \in Nat /\ pos \in 1..Len(Manifest[t])
        /\ pc \in {"apply", "applied"} /\ pc \in PCs
        /\ pc = "apply" => pos = x.pos + 1
    BY NextPosOK DEF NextPc, PCs
  <2> HIDE DEF pos, pc
  <2>2. tx' = [tx EXCEPT ![t] = y]
    BY <1>1, <1>8 DEF pos, pc
  <2>3. /\ y \in Local /\ y.journal = j /\ y.plan = x.plan
        /\ y.failed = x.failed /\ y.pos = pos /\ y.pc = pc
    BY <1>1, <1>5, <2>1 DEF Local
  <2> HIDE DEF y
  <2> QED BY <1>1, <1>4, <1>5, <2>1, <2>2, <2>3, LearntGood
<1> QED BY <1>6, <1>7, <1>8 DEF Verify, found, j

LEMMA RecoverGood ==
  ASSUME IseInv, NEW t \in Txns, Recover(t)
  PROVE  Preserved(t)
<1> DEFINE x == tx[t]
           found == server[Object(t)]
           e == [Entry(t) EXCEPT !.id = found.id, !.post = found.value]
           j == WithLast(t, e)
<1>1. /\ x \in Local /\ Good(t, x, server, author) /\ tx \in [Txns -> Local]
      /\ x.pc = "recover" /\ ServerSame /\ Calm(x) /\ Len(x.journal) > 0
      /\ x.pos \in 1..Len(Manifest[t])
  BY DEF IseInv, Good, Recover, Fresh, Busy
<1>2. Entry(t) \in Items /\ x.journal \in Seq(Items)
      /\ Len(x.journal) \in 1..Len(x.journal)
      /\ Entry(t).object = Object(t)
  BY <1>1, EntryOK DEF Good, Fresh, Object
<1>3. found.value \in Values \cup {None} /\ found.id \in Nat
  BY PlanTyped DEF Incarnations, Absent
<1>4. /\ e \in Items /\ e.object = Entry(t).object /\ e.action = Entry(t).action
      /\ e.pre = Entry(t).pre /\ e.id = server[e.object].id
  BY <1>2, <1>3 DEF Items
<1>5. j \in Seq(Items)
  BY <1>2, <1>4, ExceptSeq DEF WithLast
<1>6. CASE tx' = [tx EXCEPT ![t].pc = "failed", ![t].journal = j]
  <2> HIDE DEF found, e
  <2> DEFINE y == [x EXCEPT !.pc = "failed", !.journal = j]
  <2>1. tx' = [tx EXCEPT ![t] = y]
    BY <1>1, <1>6
  <2>2. /\ y \in Local /\ y.journal = j /\ y.plan = x.plan
        /\ y.failed = x.failed /\ y.pos = x.pos /\ y.pc = "failed"
    BY <1>1, <1>5 DEF Local, PCs
  <2> HIDE DEF y
  <2> QED BY <1>1, <1>4, <2>1, <2>2, LearntGood
<1>7. CASE tx' = [tx EXCEPT ![t].pc = "failed", ![t].journal = x.journal]
  <2>1. Goto(t, "failed")
    BY <1>1, <1>7 DEF Goto, Local
  <2>2. tx'[t].pc = "failed"
    BY <1>1, <2>1 DEF Goto, Local
  <2> QED BY <1>1, <2>1, <2>2, GotoGood DEF Calm, PCs, Ended, Busy
<1> QED BY <1>6, <1>7 DEF Recover

LEMMA LeaveGood ==
  ASSUME IseInv, NEW t \in Txns, Leave(t)
  PROVE  Preserved(t)
<1> DEFINE x == tx[t]
<1>1. /\ x \in Local /\ Calm(x) /\ tx \in [Txns -> Local]
      /\ x.pc = "failed" /\ ServerSame
  BY DEF IseInv, Good, Leave
<1>2. (Goto(t, "clean") /\ x.journal = <<>>) \/ Goto(t, "unwind")
  BY <1>1 DEF Leave, UnwindOrder, Goto, Local
<1>3. ASSUME NEW pc \in {"clean", "unwind"}, Goto(t, pc),
             pc = "clean" => x.journal = <<>>
      PROVE  Preserved(t)
  <2>1. tx'[t].pc = pc
    BY <1>1, <1>3 DEF Goto, Local
  <2> QED BY <1>1, <1>3, <2>1, GotoGood DEF Calm, PCs, Ended, Busy
<1> QED BY <1>2, <1>3

LEMMA EndRollbackGood ==
  ASSUME IseInv, NEW t \in Txns, EndRollback(t)
  PROVE  Preserved(t)
<1> DEFINE x == tx[t]
           pc == Outcome(t)
           y == [x EXCEPT !.pc = pc]
<1>1. /\ x \in Local /\ Good(t, x, server, author)
      /\ x.pc = "unwind" /\ x.journal = <<>> /\ ServerSame
  BY DEF IseInv, Good, EndRollback
<1>2. /\ pc \in {"rolled_back", "rollback_failed"} /\ pc \in PCs
      /\ pc = "rolled_back" => x.failed = FALSE
  BY <1>1 DEF Outcome, PCs, Ended, Local
<1>3. tx' = [tx EXCEPT ![t] = y]
  BY DEF EndRollback, Goto
<1> HIDE DEF pc
<1>4. y \in Local /\ y.journal = <<>> /\ y.failed = x.failed /\ y.pc = pc
  BY <1>1, <1>2 DEF Local
<1> HIDE DEF y
<1>5. Calm(y) /\ Fresh(t, y)
  BY <1>2, <1>4 DEF Calm, Fresh, Busy
<1> USE DEF y
<1>6. x.pc # "committed"
  BY <1>1
<1>7. Good(t, y, server, author)
  BY <1>1, <1>2, <1>5, <1>6, GoodGoto
<1> HIDE DEF y
<1> QED BY <1>1, <1>3, <1>4, <1>7, Replace DEF ServerSame

LEMMA EntryEndsGood ==
  ASSUME IseInv, NEW t \in Txns, NEW ok \in BOOLEAN, EntryEnds(t, ok),
         tx[t].pc # "committed", Len(tx[t].journal) > 0,
         Good(t, tx[t], server', author'),
         ok => author'[Entry(t).object] # t
  PROVE  Preserved(t)
<1> DEFINE x == tx[t]
           y == [x EXCEPT !.journal = Front(x.journal), !.pc = "unwind",
                          !.failed = x.failed \/ ~ok]
<1>1. x \in Local /\ tx \in [Txns -> Local]
  BY DEF IseInv, Good
<1>2. tx' = [tx EXCEPT ![t] = y]
  BY <1>1 DEF EntryEnds, Drop
<1>3. Entry(t) = x.journal[Len(x.journal)]
  BY DEF Entry, Last
<1>4. Good(t, y, server', author')
  <2> HIDE DEF x
  <2>1. /\ Good(t, x, server', author') /\ Len(x.journal) > 0 /\ x.pc # "committed"
        /\ ok => author'[x.journal[Len(x.journal)].object] # t
    BY <1>3 DEF x
  <2> QED BY <2>1, GoodDrop
<1> HIDE DEF y
<1>5. y \in Local
  BY <1>4 DEF Good
<1> QED BY <1>2, <1>4, <1>5, Replace

LEMMA UnwindGood ==
  ASSUME IseInv, NEW t \in Txns, Unwind(t)
  PROVE  Preserved(t)
<1> DEFINE x == tx[t]
           e == Entry(t)
           e2 == [e EXCEPT !.id = Found(e).id]
<1>1. /\ x \in Local /\ Good(t, x, server, author) /\ tx \in [Txns -> Local]
      /\ x.pc = "unwind" /\ ServerSame /\ Len(x.journal) > 0
      /\ x.pos \in 1..Len(Manifest[t])
  <2>1. x.journal \in Seq(Items) /\ x.journal # <<>>
    BY DEF IseInv, Good, Local, Unwind
  <2> QED BY <2>1, EmptySeq DEF IseInv, Good, Unwind
<1>2. /\ e \in Items /\ x.journal \in Seq(Items)
      /\ Len(x.journal) \in 1..Len(x.journal)
      /\ author[e.object] = t => Written(e, server)
  BY <1>1, EntryOK
<1>3. server[e.object] \in Incarnations
  BY <1>2 DEF IseInv, ServerOK, Items
<1>4. Good(t, x, server', author')
  BY <1>1 DEF ServerSame
<1> HIDE DEF e
<1>5. CASE AlreadyUndone(e) /\ EntryEnds(t, TRUE)
  <2>1. author[e.object] # t
    BY <1>2, <1>3, <1>5 DEF AlreadyUndone, Found, ById, Written
  <2> QED BY <1>1, <1>4, <1>5, <2>1, EntryEndsGood DEF ServerSame, e
<1>6. CASE MayUndo(t, e) /\ tx' = [tx EXCEPT ![t].journal = WithId(t, Found(e).id),
                                             ![t].pc = "undo"]
  <2>1. Found(e) = server[e.object] /\ Found(e).id \in Nat \ {0}
    BY <1>3, <1>6 DEF MayUndo, Found, ById, Incarnations
  <2>2. /\ e2 \in Items /\ e2.object = e.object /\ e2.action = e.action
        /\ e2.pre = e.pre /\ e2.id = server[e2.object].id /\ e2.id # 0
    BY <1>2, <2>1 DEF Items
  <2> DEFINE j == WithLast(t, e2)
             y == [x EXCEPT !.journal = j, !.pc = "undo"]
  <2> HIDE DEF e2
  <2>3. j \in Seq(Items)
    BY <1>2, <2>2, ExceptSeq DEF WithLast
  <2>4. tx' = [tx EXCEPT ![t] = y]
    BY <1>1, <1>6 DEF WithId, e, e2
  <2> HIDE DEF j
  <2>5. /\ y \in Local /\ y.journal = j /\ y.plan = x.plan
        /\ y.failed = x.failed /\ y.pos = x.pos /\ y.pc = "undo"
    BY <1>1, <2>3 DEF Local, PCs
  <2> HIDE DEF y
  <2> QED BY <1>1, <2>2, <2>4, <2>5, LearntGood DEF j, e
<1>7. CASE EntryEnds(t, FALSE)
  BY <1>1, <1>4, <1>7, EntryEndsGood
<1> QED BY <1>5, <1>6, <1>7 DEF Unwind, e

LEMMA UndoGood ==
  ASSUME IseInv, NEW t \in Txns, Undo(t)
  PROVE  Preserved(t)
<1> DEFINE x == tx[t]
           o == Entry(t).object
           y == [x EXCEPT !.pc = "undone"]
<1>1. /\ x \in Local /\ Good(t, x, server, author) /\ tx \in [Txns -> Local]
      /\ x.pc = "undo" /\ Len(x.journal) > 0 /\ ServerOK
  BY DEF IseInv, Good, Undo, Fresh, Busy
<1>2. o \in Objects
  BY <1>1, EntryOK DEF Items
<1>3. Good(t, x, server', author')
  <2>1. CASE ServerSame
    BY <1>1, <2>1 DEF ServerSame
  <2>2. CASE Deleted(o, None) \/ Replaced(o, Entry(t).pre, None)
    <3>1. \A q \in Objects : author'[q] = t =>
            author[q] = t /\ server'[q] = server[q]
      BY <1>1, <1>2, <2>2, WantAssumption DEF Deleted, Replaced, ServerOK
    <3> QED BY <1>1, <3>1, GoodKept
  <2> QED BY <2>1, <2>2 DEF Undo
<1>4. CASE Goto(t, "undone")
  <2>1. tx' = [tx EXCEPT ![t] = y]
    BY <1>4 DEF Goto
  <2>2. /\ y \in Local /\ y.journal = x.journal /\ y.failed = x.failed
        /\ y.plan = x.plan /\ y.pos = x.pos /\ y.pc = "undone"
    BY <1>1 DEF Local, PCs
  <2> HIDE DEF y
  <2>3. Calm(y)
    BY <2>2 DEF Calm
  <2>4. Fresh(t, y)
    BY <1>1, <2>2 DEF Good, Fresh, Busy
  <2> USE DEF y
  <2>5. "undone" \in PCs /\ x.pc # "committed"
    BY <1>1 DEF PCs
  <2>6. Good(t, y, server', author')
    BY <1>3, <2>3, <2>4, <2>5, GoodGoto
  <2> HIDE DEF y
  <2> QED BY <2>1, <2>2, <2>6, Replace
<1>5. CASE EntryEnds(t, FALSE)
  BY <1>1, <1>3, <1>5, EntryEndsGood
<1> QED BY <1>4, <1>5 DEF Undo

LEMMA UndoneGood ==
  ASSUME IseInv, NEW t \in Txns, Undone(t)
  PROVE  Preserved(t)
<1> DEFINE x == tx[t]
           e == Entry(t)
           ok == ById(e.object, e.id).value = e.pre
<1>1. /\ x \in Local /\ Good(t, x, server, author)
      /\ x.pc = "undone" /\ ServerSame /\ Len(x.journal) > 0
  BY DEF IseInv, Good, Undone, Fresh, Busy
<1>2. /\ e \in Items /\ e = x.journal[Len(x.journal)] /\ e.id # 0
      /\ e.action = "create" => e.pre = None
      /\ author[e.object] = t => Written(e, server)
  <2>1. e.id # 0 /\ e \in Items /\ e = x.journal[Len(x.journal)]
        /\ (author[e.object] = t => Written(e, server))
    BY <1>1, EntryOK DEF Good, Fresh
  <2>2. Len(x.journal) \in Idx(x)
    BY <1>1, EntryOK DEF Idx
  <2>3. e.action = "create" => e.pre = None
    BY <1>1, <2>1, <2>2 DEF Good, Blank, PreOK
  <2> QED BY <2>1, <2>3
<1>3. server[e.object] \in Incarnations
  BY <1>2 DEF IseInv, ServerOK, Items
<1>4. Good(t, x, server', author')
  BY <1>1 DEF ServerSame
<1> HIDE DEF e
<1>5. CASE EntryEnds(t, ok)
  <2>1. ok => author[e.object] # t
    BY <1>2, <1>3, WantAssumption DEF ById, Written, Incarnations, Absent
  <2>2. ok \in BOOLEAN
    OBVIOUS
  <2> HIDE DEF ok
  <2> QED BY <1>1, <1>4, <1>5, <2>1, <2>2, EntryEndsGood DEF ServerSame, e
<1>6. CASE EntryEnds(t, FALSE)
  BY <1>1, <1>4, <1>6, EntryEndsGood
<1> QED BY <1>5, <1>6 DEF Undone, e, ok

-----------------------------------------------------------------------------
(* The server, and the other adapters. *)

LEMMA TxnStepGood ==
  ASSUME IseInv, NEW t \in Txns, TxnStep(t)
  PROVE  Preserved(t)
BY PrepareGood, ProceedGood, ReclassifyGood, CheckGood, PostGood, PutGood,
   VerifyGood, RecoverGood, ConcludeGood, LeaveGood, UnwindGood, UndoGood,
   UndoneGood, EndRollbackGood, ReadFailsGood
   DEF TxnStep

\* What a write by `who` means for everybody else.
WrittenBy(who) ==
  /\ ServerOK'
  /\ \A o \in Objects, u \in Txns : u # who =>
       (author'[o] = u => author[o] = u /\ server'[o] = server[o])

LEMMA CreatedBy ==
  ASSUME ServerOK, NEW o \in Objects, NEW v \in Values,
         NEW who \in Txns \cup {Admin, None}, Created(o, v, who)
  PROVE  WrittenBy(who)
<1>1. lastId[o] + 1 \in Nat \ {0}
  BY DEF ServerOK
<1>2. [id |-> lastId[o] + 1, value |-> v] \in Incarnations
  BY <1>1 DEF Incarnations
<1> QED BY <1>1, <1>2 DEF Created, WrittenBy, ServerOK

LEMMA ReplacedBy ==
  ASSUME ServerOK, NEW o \in Objects, NEW v \in Values, server[o] # Absent,
         NEW who \in Txns \cup {Admin, None}, Replaced(o, v, who)
  PROVE  WrittenBy(who)
<1>1. server[o] \in [id : Nat \ {0}, value : Values]
  BY DEF ServerOK, Incarnations
<1>2. [server[o] EXCEPT !.value = v] \in Incarnations
  BY <1>1 DEF Incarnations
<1> QED BY <1>2 DEF Replaced, WrittenBy, ServerOK

LEMMA DeletedBy ==
  ASSUME ServerOK, NEW o \in Objects, NEW who \in Txns \cup {Admin, None},
         Deleted(o, who)
  PROVE  WrittenBy(who)
BY DEF Deleted, WrittenBy, ServerOK, Incarnations

LEMMA NobodyWrites ==
  ASSUME ServerOK, ServerSame
  PROVE  \A who : WrittenBy(who)
BY DEF ServerSame, WrittenBy, ServerOK

\* Who writes None takes no object from anybody else either.
LEMMA UnmarkedToo ==
  ASSUME NEW t \in Txns, WrittenBy(None) \/ WrittenBy(t)
  PROVE  WrittenBy(t)
BY WantAssumption DEF WrittenBy

LEMMA TxnStepWrites ==
  ASSUME IseInv, NEW t \in Txns, TxnStep(t)
  PROVE  WrittenBy(t)
<1>1. ServerOK /\ Object(t) \in Objects /\ Want[t][Object(t)] \in Values
  BY PlanTyped, WantAssumption DEF IseInv
<1>2. CASE ServerSame
  BY <1>1, <1>2, NobodyWrites
<1>3. CASE Post(t)
  <2>1. ASSUME NEW v \in Values, Created(Object(t), v, t)  PROVE WrittenBy(t)
    BY <1>1, <2>1, CreatedBy
  <2> QED BY <1>1, <1>2, <1>3, <2>1 DEF Post, WriteRefused
<1>4. CASE Put(t)
  <2>1. CASE /\ ById(Object(t), Action(t).id) # Absent
             /\ \E v \in Values : Replaced(Object(t), v, Mark(t, v))
    <3>1. PICK v \in Values : Replaced(Object(t), v, Mark(t, v))
      BY <2>1
    <3>2. server[Object(t)] # Absent /\ Mark(t, v) \in {None, t}
      BY <2>1 DEF ById, Mark
    <3>3. WrittenBy(Mark(t, v))
      BY <1>1, <3>1, <3>2, ReplacedBy
    <3> QED BY <3>2, <3>3, UnmarkedToo
  <2> QED BY <1>1, <1>2, <1>4, <2>1 DEF Put, WriteRefused
<1>5. CASE Undo(t)
  <2>1. /\ Len(tx[t].journal) > 0 /\ Good(t, tx[t], server, author)
    BY <1>5 DEF IseInv, Good, Undo, Fresh, Busy
  <2>2. /\ Entry(t) \in Items /\ Len(tx[t].journal) \in Idx(tx[t])
        /\ Entry(t) = tx[t].journal[Len(tx[t].journal)]
    BY <2>1, EntryOK DEF Idx
  <2>3. /\ Entry(t).object \in Objects
        /\ Entry(t).action = "update" => Entry(t).pre \in Values
    BY <2>1, <2>2 DEF Items, Good, Blank, PreOK
  <2>4. CASE Deleted(Entry(t).object, None)
    BY <1>1, <2>3, <2>4, DeletedBy, UnmarkedToo
  <2>5. CASE /\ Undoable(Entry(t)) /\ Entry(t).action = "update"
             /\ Replaced(Entry(t).object, Entry(t).pre, None)
    <3>1. server[Entry(t).object] # Absent
      BY <2>5 DEF Undoable, ById
    <3> QED BY <1>1, <2>3, <2>5, <3>1, ReplacedBy, UnmarkedToo
  <2> QED BY <1>2, <1>5, <2>4, <2>5 DEF Undo
<1> QED BY <1>2, <1>3, <1>4, <1>5
        DEF TxnStep, Prepare, Proceed, Reclassify, Check, Verify, Recover,
            Conclude, Leave, Unwind, Undone, EndRollback, ReadFails

LEMMA EditWrites ==
  ASSUME IseInv, NEW o \in Objects, Edit(o)
  PROVE  WrittenBy(Admin)
BY CreatedBy, ReplacedBy, DeletedBy DEF IseInv, Edit

-----------------------------------------------------------------------------
(* The theorems. *)

LEMMA InitGood == IseInit => IseInv
<1> SUFFICES ASSUME IseInit  PROVE IseInv
  OBVIOUS
<1>1. ServerOK
  BY WantAssumption DEF IseInit, ServerOK, Incarnations, Absent
<1> DEFINE x == [pc |-> "prepare", pos |-> 1, journal |-> <<>>,
                 plan |-> [o \in Objects |-> NoAction], failed |-> FALSE]
<1>2. x \in Local
  BY DEF Local, PCs, Actions, NoAction
<1>3. ASSUME NEW t \in Txns  PROVE Good(t, x, server, author)
  <2>1. x.pos \in 1..Len(Manifest[t])
    BY ManifestAssumption
  <2>2. Calm(x) /\ Fresh(t, x)
    BY DEF Calm, Fresh, Busy
  <2>3. Len(x.journal) = 0 /\ Idx(x) = {}
    BY DEF Idx
  <2>4. Blank(x)
    BY <2>3 DEF Blank, ActionOK, PreOK, NoAction
  <2>5. \A o \in Objects : author[o] # t
    BY WantAssumption DEF IseInit
  <2>6. Covered(t, x, author) /\ Faithful(t, x, server, author)
    BY <2>3, <2>5 DEF Covered, Faithful
  <2> QED BY <1>2, <2>1, <2>2, <2>4, <2>6 DEF Good
<1>4. tx = [t \in Txns |-> x]
  BY DEF IseInit
<1> HIDE DEF x
<1> QED BY <1>1, <1>2, <1>3, <1>4 DEF IseInv

LEMMA StepGood == IseInv /\ [IseNext]_iseVars => IseInv'
<1> SUFFICES ASSUME IseInv, [IseNext]_iseVars  PROVE IseInv'
  OBVIOUS
<1>1. ASSUME NEW t \in Txns, TxnStep(t)  PROVE IseInv'
  <2>1. Preserved(t) /\ WrittenBy(t)
    BY <1>1, TxnStepGood, TxnStepWrites
  <2>2. ASSUME NEW u \in Txns, u # t
        PROVE  Good(u, tx'[u], server', author')
    <3>1. Good(u, tx[u], server, author) /\ tx'[u] = tx[u]
      BY <2>1, <2>2 DEF IseInv, Preserved
    <3>2. \A o \in Objects : author'[o] = u =>
            author[o] = u /\ server'[o] = server[o]
      BY <2>1, <2>2 DEF WrittenBy
    <3> QED BY <3>1, <3>2, GoodKept
  <2> QED BY <2>1, <2>2 DEF IseInv, Preserved, WrittenBy
<1>2. ASSUME NEW o \in Objects, Edit(o)  PROVE IseInv'
  <2>1. WrittenBy(Admin) /\ tx' = tx
    BY <1>2, EditWrites DEF Edit
  <2>2. ASSUME NEW u \in Txns  PROVE Good(u, tx[u], server', author')
    <3>1. Good(u, tx[u], server, author)
      BY DEF IseInv
    <3>2. \A q \in Objects : author'[q] = u =>
            author[q] = u /\ server'[q] = server[q]
      BY <2>1, WantAssumption DEF WrittenBy
    <3> QED BY <3>1, <3>2, GoodKept
  <2> QED BY <2>1, <2>2 DEF IseInv, WrittenBy
<1>3. CASE UNCHANGED iseVars
  BY <1>3 DEF IseInv, ServerOK, iseVars
<1> QED BY <1>1, <1>2, <1>3 DEF IseNext

\* The journal of every adapter accounts for all it wrote (IseInv), whatever
\* ise.py's requests meet.
THEOREM JournalInvariant == IseSpec => []IseInv
BY InitGood, StepGood, PTL DEF IseSpec

\* A transaction that ends refused, clean or rolled back left nothing of its
\* own on ISE (IseErsAdapter.rollback), with any number of failed requests
\* and concurrent changes.
THEOREM NothingLeftHolds == IseSpec => []NothingLeft
<1>1. IseInv => NothingLeft
  <2> SUFFICES ASSUME IseInv, NEW t \in Txns, tx[t].pc \in Undamaged,
                      NEW o \in Objects, author[o] = t
               PROVE  FALSE
    BY DEF NothingLeft
  <2>1. Good(t, tx[t], server, author)
    BY DEF IseInv
  <2>2. tx[t].journal = <<>> /\ ~tx[t].failed /\ tx[t].pc # "committed"
    BY <2>1 DEF Good, Calm, Undamaged
  <2>3. Idx(tx[t]) = {}
    BY <2>2 DEF Idx
  <2> QED BY <2>1, <2>2, <2>3 DEF Good, Covered
<1> QED BY <1>1, JournalInvariant, PTL

-----------------------------------------------------------------------------
(* Objects without the ownership marker. *)

Writes == {"create", "update"}

\* Nobody has decided to write a foreign object, so nobody writes it.
Spared(o) ==
  /\ server[o] = initial[o]
  /\ \A t \in Txns :
       /\ tx[t].plan[o].kind \notin Writes
       /\ \A i \in Idx(tx[t]) :
            tx[t].journal[i].object = o => tx[t].journal[i].action \notin Writes

KeptInv ==
  /\ edits \in Nat
  /\ edits = 0 => \A o \in Objects : ~Owned(initial[o]) => Spared(o)

-----------------------------------------------------------------------------
(* An adapter that is alone with the server. *)

\* What was decided about an object tells what it was.
Origin(kind, id, pre, o) ==
  /\ kind = "create" => initial[o] = Absent
  /\ kind \in {"update", "noop"} => initial[o] = [id |-> id, value |-> pre]

\* The operations the adapter is through with.
Settled(x, k) ==
  \/ x.pc \in {"apply", "send", "verify", "recover"} /\ k < x.pos
  \/ x.pc \in {"applied", "committed"}

\* The operations the adapter has looked at.
Ready(x, k) == x.pc \notin {"prepare", "refused"} \/ k < x.pos

Trace(t, x, srv, aut) ==
  /\ \A o \in Objects : aut[o] # t => srv[o] = initial[o]
  /\ \A o \in Objects :
       LET a == x.plan[o] IN
       /\ Origin(a.kind, a.id, a.pre, o)
       /\ a.kind = "noop" => a.pre = Want[t][o]
       /\ a.kind = "update" => a.pre # Want[t][o]
  /\ \A i \in Idx(x) :
       LET e == x.journal[i] IN
       Origin(e.action, e.id, e.pre, e.object) /\ e.action \in Writes
  /\ \A k \in 1..Len(Manifest[t]) :
       Ready(x, k) => x.plan[Manifest[t][k]].kind # "none"
  /\ \A k \in 1..Len(Manifest[t]) :
       Settled(x, k) => srv[Manifest[t][k]].value = Want[t][Manifest[t][k]]
  /\ x.pc = "prepared" => x.pos = 1
  /\ x.pc = "recover" => x.plan[Manifest[t][x.pos]].kind = "create"

TraceInv ==
  /\ initial \in [Objects -> Incarnations]
  /\ edits \in Nat
  /\ \A t \in Txns : Alone(t) => Trace(t, tx[t], server, author)

-----------------------------------------------------------------------------
(* An adapter that is alone with a server that answers. *)

\* An object the adapter wrote is as it wants it, and its entry knows.
Known(t, e, srv) ==
  /\ e.action \in Writes
  /\ srv[e.object] = [id |-> e.id, value |-> Want[t][e.object]]
  /\ e.post \in {None, Want[t][e.object]}

\* A cell was written after what it refers to, if t made that.
Dependents(t, x, aut) ==
  \A i, j \in Idx(x) :
    /\ x.journal[i].action = "create" /\ aut[x.journal[j].object] = t
    /\ x.journal[i].object \in RefsOf[x.journal[j].object]
    => i < j

Solo(t, x, srv, aut) ==
  LET e == x.journal[Len(x.journal)] IN
  /\ ~x.failed
  /\ \A i \in Idx(x) :
       LET f == x.journal[i] IN
       aut[f.object] = t =>
         /\ Known(t, f, srv)
         /\ f.action = "update" /\ f.post = None =>
              x.pc = "verify" /\ i = Len(x.journal)
  /\ Dependents(t, x, aut)
  /\ x.pc # "recover"
  /\ x.pc = "send" => e.post = None
  /\ x.pc \in {"send", "undone"} => aut[e.object] # t
  /\ x.pc \in {"verify", "undo"} => aut[e.object] = t

SoloInv ==
  /\ faults \in Nat
  /\ Linked(server) /\ Linked(initial)
  /\ \A t \in Txns : faults = 0 /\ Alone(t) => Solo(t, tx[t], server, author)

-----------------------------------------------------------------------------
(* What a step of an adapter may do to the server, the plan and the journal. *)

ServerShape(t) ==
  \/ ServerSame
  \/ /\ At(t, "send", "create") /\ Creatable(Object(t))
     /\ \E v \in Values : Created(Object(t), v, t)
  \/ /\ At(t, "send", "update") /\ ById(Object(t), Action(t).id) # Absent
     /\ \E v \in Values : Replaced(Object(t), v, Mark(t, v))
  \/ /\ tx[t].pc = "undo" /\ Undoable(Entry(t))
     /\ \/ Entry(t).action = "create" /\ Deleted(Entry(t).object, None)
        \/ /\ Entry(t).action = "update"
           /\ Replaced(Entry(t).object, Entry(t).pre, None)

PlanShape(t) ==
  \/ tx'[t].plan = tx[t].plan
  \/ /\ tx[t].pc \in {"prepare", "apply"} /\ ServerSame
     /\ \E a \in Actions :
          /\ tx'[t].plan = Planned(t, Object(t), a)
          /\ \/ a.kind = "deferred"
             \/ Managed(server[Object(t)]) /\ a = Classified(t, Object(t))

\* An entry may learn an id and a post_hash; an update keeps the id it has.
Descends(e, f, recovered) ==
  /\ e.object = f.object /\ e.action = f.action /\ e.pre = f.pre
  /\ f.action = "update" /\ f.id # 0 /\ ~recovered => e.id = f.id

Recovered(t, i) == tx[t].pc = "recover" /\ i = Len(tx[t].journal)

JournalShape(t) ==
  \A i \in Idx(tx'[t]) :
    \/ i \in Idx(tx[t])
       /\ Descends(tx'[t].journal[i], tx[t].journal[i], Recovered(t, i))
    \/ /\ tx[t].pc = "apply" /\ ServerSame
       /\ Action(t).kind \notin {"deferred", "noop"}
       /\ tx'[t].journal[i] = NewEntry(t)

LEMMA Typed ==
  ASSUME IseInv, NEW t \in Txns
  PROVE  /\ tx \in [Txns -> Local] /\ tx[t] \in Local
         /\ tx[t].journal \in Seq(Items)
         /\ Good(t, tx[t], server, author) /\ ServerOK
BY DEF IseInv, Local, Good

LEMMA ServerShapeHolds ==
  ASSUME IseInv, NEW t \in Txns, TxnStep(t)
  PROVE  ServerShape(t)
<1>1. CASE Post(t)
  BY <1>1, WantAssumption, PlanTyped
     DEF Post, ServerShape, At, WriteRefused
<1>2. CASE Put(t)
  BY <1>2, WantAssumption, PlanTyped DEF Put, ServerShape, At, WriteRefused
<1>3. CASE Undo(t)
  BY <1>3 DEF Undo, ServerShape
<1> QED BY <1>1, <1>2, <1>3
        DEF TxnStep, Prepare, Proceed, Reclassify, Check, Verify, Recover,
            Conclude, Leave, Unwind, Undone, EndRollback, ReadFails, ServerShape

LEMMA PlanShapeHolds ==
  ASSUME IseInv, NEW t \in Txns, TxnStep(t)
  PROVE  PlanShape(t)
<1>1. tx \in [Txns -> Local] /\ tx[t] \in Local
  BY Typed
<1>2. CASE Prepare(t)
  BY <1>1, <1>2, ClassifiedOK, DeferredOK
     DEF Prepare, PlanShape, Goto, Local, NoAction
<1>3. CASE Reclassify(t)
  BY <1>1, <1>3, ClassifiedOK DEF Reclassify, PlanShape, Goto, Local, At
<1>4. ASSUME NEW y, y.plan = tx[t].plan, tx' = [tx EXCEPT ![t] = y]
      PROVE  PlanShape(t)
  BY <1>1, <1>4 DEF PlanShape
<1>5. CASE Proceed(t) \/ Check(t) \/ Conclude(t) \/ Leave(t) \/ EndRollback(t)
           \/ ReadFails(t)
  BY <1>1, <1>5 DEF Proceed, Check, Conclude, Leave, EndRollback, ReadFails,
                    Goto, PlanShape, Local
<1>6. CASE Post(t) \/ Put(t) \/ Verify(t) \/ Recover(t)
  BY <1>1, <1>6 DEF Post, Put, Verify, Recover, WriteRefused, Goto, PlanShape,
                    Local
<1>7. ASSUME NEW ok, EntryEnds(t, ok)  PROVE PlanShape(t)
  BY <1>1, <1>7 DEF EntryEnds, PlanShape, Local
<1>8. CASE Undo(t) \/ Undone(t)
  BY <1>1, <1>7, <1>8 DEF Undo, Undone, Goto, PlanShape, Local
<1>9. CASE Unwind(t)
  <2>1. ASSUME NEW j, tx' = [tx EXCEPT ![t].journal = j, ![t].pc = "undo"]
        PROVE  PlanShape(t)
    BY <1>1, <2>1 DEF PlanShape, Local
  <2> QED BY <1>7, <1>9, <2>1 DEF Unwind
<1> QED BY <1>2, <1>3, <1>5, <1>6, <1>8, <1>9 DEF TxnStep

\* The journal keeps its entries, up to what the last one learns.
LEMMA Learns ==
  ASSUME NEW t, NEW x, x.journal \in Seq(Items), Len(x.journal) > 0, NEW e,
         NEW recovered \in BOOLEAN,
         e.object = x.journal[Len(x.journal)].object,
         e.action = x.journal[Len(x.journal)].action,
         e.pre = x.journal[Len(x.journal)].pre,
         \/ e.id = x.journal[Len(x.journal)].id
         \/ recovered
         \/ ~(e.action = "update" /\ x.journal[Len(x.journal)].id # 0),
         NEW j, j = [x.journal EXCEPT ![Len(x.journal)] = e]
  PROVE  /\ Len(j) = Len(x.journal)
         /\ \A i \in 1..Len(j) :
              /\ i \in Idx(x)
              /\ Descends(j[i], x.journal[i], recovered /\ i = Len(x.journal))
<1>1. Len(x.journal) \in 1..Len(x.journal)
  BY LenProperties
<1>2. /\ DOMAIN j = DOMAIN x.journal
      /\ \A i \in 1..Len(x.journal) :
           j[i] = IF i = Len(x.journal) THEN e ELSE x.journal[i]
  BY <1>1
<1>3. Len(j) = Len(x.journal)
  BY <1>2, LenProperties
<1> QED BY <1>2, <1>3 DEF Idx, Descends

LEMMA FrontShape ==
  ASSUME NEW s \in Seq(Items), s # <<>>
  PROVE  /\ Front(s) \in Seq(Items) /\ Len(Front(s)) = Len(s) - 1
         /\ \A i \in 1..(Len(s) - 1) : Front(s)[i] = s[i]
<1>1. Len(s) \in Nat /\ Len(s) > 0
  BY EmptySeq
<1> DEFINE n == Len(s)
<1>2. \A i \in 1..(n - 1) : s[i] \in Items
  BY <1>1, ElementOfSeq
<1>3. Front(s) = SubSeq(s, 1, n - 1)
  BY DEF Front
<1> HIDE DEF n
<1>4. n \in Nat /\ n > 0
  BY <1>1 DEF n
<1>5. /\ SubSeq(s, 1, n - 1) \in Seq(Items)
      /\ Len(SubSeq(s, 1, n - 1)) = n - 1
      /\ \A i \in 1..(n - 1) : SubSeq(s, 1, n - 1)[i] = s[i]
  BY <1>2, <1>4, SubSeqProperties
<1> QED BY <1>3, <1>5 DEF n

LEMMA SameJournal ==
  ASSUME IseInv, NEW t \in Txns, tx'[t].journal = tx[t].journal
  PROVE  JournalShape(t)
BY DEF JournalShape, Descends, Idx

LEMMA LearntJournal ==
  ASSUME IseInv, NEW t \in Txns, Len(tx[t].journal) > 0, NEW e,
         tx'[t].journal = WithLast(t, e),
         e.object = Entry(t).object, e.action = Entry(t).action,
         e.pre = Entry(t).pre,
         \/ e.id = Entry(t).id
         \/ tx[t].pc = "recover"
         \/ ~(e.action = "update" /\ Entry(t).id # 0)
  PROVE  JournalShape(t)
<1> DEFINE x == tx[t]
           j == tx'[t].journal
<1>1. /\ x.journal \in Seq(Items) /\ Len(x.journal) > 0
      /\ Entry(t) = x.journal[Len(x.journal)]
  BY EntryOK
<1>2. j = [x.journal EXCEPT ![Len(x.journal)] = e]
  BY DEF WithLast
<1> DEFINE recovered == x.pc = "recover"
<1>3. recovered \in BOOLEAN /\ (recovered <=> tx[t].pc = "recover")
  OBVIOUS
<1> HIDE DEF x, j, recovered
<1>4. \A i \in 1..Len(j) :
        /\ i \in Idx(x)
        /\ Descends(j[i], x.journal[i], recovered /\ i = Len(x.journal))
  <2>1. /\ e.object = x.journal[Len(x.journal)].object
        /\ e.action = x.journal[Len(x.journal)].action
        /\ e.pre = x.journal[Len(x.journal)].pre
        /\ \/ e.id = x.journal[Len(x.journal)].id
           \/ recovered
           \/ ~(e.action = "update" /\ x.journal[Len(x.journal)].id # 0)
    BY <1>1, <1>3
  <2> QED BY <1>1, <1>2, <1>3, <2>1, Learns
<1> QED BY <1>3, <1>4 DEF JournalShape, Recovered, Descends, Idx, x, j

LEMMA EndedJournal ==
  ASSUME IseInv, NEW t \in Txns, Len(tx[t].journal) > 0,
         NEW ok, EntryEnds(t, ok)
  PROVE  JournalShape(t)
<1> DEFINE x == tx[t]
           s == x.journal
<1>1. tx \in [Txns -> Local] /\ s \in Seq(Items) /\ x \in Local
  BY Typed
<1>2. s # <<>>
  BY <1>1, EmptySeq
<1>3. /\ Len(Front(s)) = Len(s) - 1
      /\ \A i \in 1..(Len(s) - 1) : Front(s)[i] = s[i]
  BY <1>1, <1>2, FrontShape
<1>4. tx'[t].journal = Front(s)
  BY <1>1 DEF EntryEnds, Drop, Local
<1>5. Len(s) \in Nat
  BY <1>1
<1> HIDE DEF s
<1> QED BY <1>3, <1>4, <1>5 DEF JournalShape, Descends, Idx, s

LEMMA JournalShapeHolds ==
  ASSUME IseInv, NEW t \in Txns, TxnStep(t)
  PROVE  JournalShape(t)
<1> DEFINE x == tx[t]
<1>1. /\ tx \in [Txns -> Local] /\ x \in Local /\ x.journal \in Seq(Items)
      /\ Good(t, x, server, author)
  BY Typed
<1>2. ASSUME NEW pc, Goto(t, pc)  PROVE JournalShape(t)
  <2>1. tx'[t].journal = x.journal
    BY <1>1, <1>2 DEF Goto, Local
  <2> QED BY <2>1, SameJournal
<1>3. CASE Prepare(t) \/ Reclassify(t)
  <2>1. tx'[t].journal = x.journal
    BY <1>1, <1>3 DEF Prepare, Reclassify, Goto, Local
  <2> QED BY <2>1, SameJournal
<1>4. CASE Check(t)
  <2>1. CASE tx' = [tx EXCEPT ![t].journal = Journaled(t), ![t].pc = "send"]
             /\ Action(t).kind # "noop"
    <3>1. tx'[t].journal = Append(x.journal, NewEntry(t))
      BY <1>1, <2>1 DEF Journaled, Local
    <3> DEFINE e == NewEntry(t)
    <3> HIDE DEF e
    <3>2. /\ Len(Append(x.journal, e)) = Len(x.journal) + 1
          /\ \A i \in 1..Len(x.journal) : Append(x.journal, e)[i] = x.journal[i]
          /\ Append(x.journal, e)[Len(x.journal) + 1] = e
          /\ Len(x.journal) \in Nat
      BY <1>1
    <3>3. /\ x.pc = "apply" /\ ServerSame
          /\ Action(t).kind \notin {"deferred", "noop"}
      BY <1>4, <2>1 DEF Check
    <3>4. \A i \in Idx(tx'[t]) : i \in Idx(x) \/ i = Len(x.journal) + 1
      BY <3>1, <3>2 DEF Idx, e
    <3>5. ASSUME NEW i \in Idx(x)
          PROVE  Descends(tx'[t].journal[i], x.journal[i], Recovered(t, i))
      BY <3>1, <3>2 DEF Idx, Descends, e
    <3>6. tx'[t].journal[Len(x.journal) + 1] = NewEntry(t)
      BY <3>1, <3>2 DEF e
    <3> QED BY <3>3, <3>4, <3>5, <3>6 DEF JournalShape
  <2>2. CASE tx' = [tx EXCEPT ![t].pos = NextPos(t),
                              ![t].pc  = NextPc(t, "apply", "applied")]
    <3>1. tx'[t].journal = x.journal
      BY <1>1, <2>2 DEF Local
    <3> QED BY <3>1, SameJournal
  <2> QED BY <1>2, <1>4, <2>1, <2>2 DEF Check
<1>5. CASE Post(t)
  <2>1. ASSUME NEW id, tx' = [tx EXCEPT ![t].journal = WithId(t, id),
                                        ![t].pc = "verify"]
        PROVE  JournalShape(t)
    <3> DEFINE e == [Entry(t) EXCEPT !.id = id]
    <3>1. Len(x.journal) > 0 /\ Entry(t).action = "create" /\ Entry(t) \in Items
      BY <1>1, <1>5, EntryOK DEF Post, At, Action, Object, Good, Fresh, Busy
    <3>2. /\ tx'[t].journal = WithLast(t, e)
          /\ e.object = Entry(t).object /\ e.action = "create"
          /\ e.pre = Entry(t).pre
      BY <1>1, <2>1, <3>1 DEF WithId, Local, Items
    <3> HIDE DEF e
    <3> QED BY <3>1, <3>2, LearntJournal
  <2> QED BY <1>2, <1>5, <2>1 DEF Post, WriteRefused
<1>6. CASE Verify(t)
  <2>1. ASSUME NEW v, \/ tx' = [tx EXCEPT ![t].journal = WithPost(t, v),
                                         ![t].pos = NextPos(t),
                                         ![t].pc  = NextPc(t, "apply", "applied")]
                      \/ tx' = [tx EXCEPT ![t].journal = WithPost(t, v),
                                          ![t].pc = "failed"]
        PROVE  JournalShape(t)
    <3> DEFINE e == [Entry(t) EXCEPT !.post = v]
    <3>1. Len(x.journal) > 0 /\ Entry(t) \in Items
      BY <1>1, <1>6, EntryOK DEF Verify, Good, Fresh, Busy
    <3>2. /\ tx'[t].journal = WithLast(t, e)
          /\ e.object = Entry(t).object /\ e.action = Entry(t).action
          /\ e.pre = Entry(t).pre /\ e.id = Entry(t).id
      BY <1>1, <2>1, <3>1 DEF WithPost, Local, Items
    <3> HIDE DEF e
    <3> QED BY <3>1, <3>2, LearntJournal
  <2> QED BY <1>2, <1>6, <2>1 DEF Verify
<1>7. CASE Recover(t)
  <2> DEFINE found == server[Object(t)]
             e == [Entry(t) EXCEPT !.id = found.id, !.post = found.value]
  <2>1. Len(x.journal) > 0 /\ Entry(t) \in Items /\ x.pc = "recover"
    BY <1>1, <1>7, EntryOK DEF Recover, Good, Fresh, Busy
  <2>2. /\ e.object = Entry(t).object /\ e.action = Entry(t).action
        /\ e.pre = Entry(t).pre
    BY <2>1 DEF Items
  <2>3. tx'[t].journal = WithLast(t, e) \/ tx'[t].journal = x.journal
    BY <1>1, <1>7 DEF Recover, Local
  <2> HIDE DEF e
  <2> QED BY <2>1, <2>2, <2>3, LearntJournal, SameJournal
<1>8. CASE Leave(t)
  <2>1. tx'[t].journal = x.journal
    BY <1>1, <1>8 DEF Leave, Goto, Local, UnwindOrder
  <2> QED BY <2>1, SameJournal
<1>9. CASE Unwind(t)
  <2>1. Len(x.journal) > 0 /\ x.pc = "unwind"
    BY <1>1, <1>9, EmptySeq DEF Unwind
  <2>2. Entry(t) \in Items
    BY <2>1, EntryOK
  <2>3. CASE MayUndo(t, Entry(t))
             /\ tx' = [tx EXCEPT ![t].journal = WithId(t, Found(Entry(t)).id),
                                 ![t].pc = "undo"]
    <3> DEFINE e == [Entry(t) EXCEPT !.id = Found(Entry(t)).id]
    <3>1. /\ tx'[t].journal = WithLast(t, e)
          /\ e.object = Entry(t).object /\ e.action = Entry(t).action
          /\ e.pre = Entry(t).pre /\ e.id = Found(Entry(t)).id
      BY <1>1, <2>2, <2>3 DEF WithId, Local, Items
    <3>2. Entry(t).id # 0 => e.id = Entry(t).id
      BY <2>3, <3>1 DEF MayUndo, Found, ById
    <3> HIDE DEF e
    <3> QED BY <2>1, <3>1, <3>2, LearntJournal
  <2> QED BY <1>9, <2>1, <2>3, EndedJournal DEF Unwind
<1>10. CASE Undo(t)
  <2>1. Len(x.journal) > 0
    BY <1>1, <1>10 DEF Undo, Good, Fresh, Busy
  <2> QED BY <1>2, <1>10, <2>1, EndedJournal DEF Undo
<1>11. CASE Undone(t)
  <2>1. Len(x.journal) > 0
    BY <1>1, <1>11 DEF Undone, Good, Fresh, Busy
  <2> QED BY <1>11, <2>1, EndedJournal DEF Undone
<1>12. CASE Proceed(t) \/ Put(t) \/ Conclude(t) \/ EndRollback(t) \/ ReadFails(t)
  BY <1>2, <1>12 DEF Proceed, Put, Conclude, EndRollback, ReadFails, WriteRefused
<1> QED BY <1>3, <1>4, <1>5, <1>6, <1>7, <1>8, <1>9, <1>10, <1>11, <1>12
        DEF TxnStep

-----------------------------------------------------------------------------
(* The theorem about foreign objects. *)

LEMMA EditsTyped ==
  /\ IseInit => edits \in Nat
  /\ edits \in Nat /\ [IseNext]_iseVars =>
       /\ edits' \in Nat
       /\ edits' = 0 => edits = 0 /\ ~(\E o \in Objects : Edit(o))
<1>1. IseInit => edits \in Nat
  BY DEF IseInit
<1>2. ASSUME edits \in Nat, [IseNext]_iseVars
      PROVE  /\ edits' \in Nat
             /\ edits' = 0 => edits = 0 /\ ~(\E o \in Objects : Edit(o))
  <2>1. CASE \E o \in Objects : Edit(o)
    BY <1>2, <2>1 DEF Edit
  <2>2. CASE (\E t \in Txns : TxnStep(t)) /\ ~(\E o \in Objects : Edit(o))
    BY <1>2, <2>2 DEF TxnStep
  <2>3. CASE UNCHANGED iseVars
    <3>1. edits' = edits
      BY <2>3 DEF iseVars, bounds
    <3>2. ASSUME NEW o \in Objects, Edit(o)  PROVE FALSE
      BY <1>2, <3>1, <3>2 DEF Edit
    <3> QED BY <1>2, <3>1, <3>2
  <2> QED BY <1>2, <2>1, <2>2, <2>3 DEF IseNext
<1> QED BY <1>1, <1>2

\* A step changes only the object it was decided to write.
LEMMA WritesDecided ==
  ASSUME IseInv, NEW t \in Txns, TxnStep(t), NEW o \in Objects, server'[o] # server[o]
  PROVE  \/ tx[t].plan[o].kind \in Writes
         \/ \E i \in Idx(tx[t]) : /\ tx[t].journal[i].object = o
                                  /\ tx[t].journal[i].action \in Writes
<1>1. ServerShape(t)
  BY ServerShapeHolds
<1>2. CASE tx[t].pc = "send" /\ Action(t).kind \in Writes /\ o = Object(t)
  BY <1>2 DEF Action
<1>3. CASE tx[t].pc = "undo" /\ Entry(t).action \in Writes /\ o = Entry(t).object
  <2>1. Len(tx[t].journal) > 0
    BY <1>3, Typed DEF Good, Fresh, Busy
  <2>2. Entry(t) = tx[t].journal[Len(tx[t].journal)] /\ Len(tx[t].journal) \in Idx(tx[t])
    BY <2>1, EntryOK DEF Idx
  <2> QED BY <1>3, <2>2
<1>4. /\ server \in [Objects -> Incarnations] /\ Object(t) \in Objects
  BY PlanTyped DEF IseInv, ServerOK
<1>5. CASE At(t, "send", "create") /\ \E v \in Values : Created(Object(t), v, t)
  BY <1>2, <1>4, <1>5 DEF Created, At, Writes
<1>6. CASE At(t, "send", "update") /\ \E v \in Values : Replaced(Object(t), v, Mark(t, v))
  BY <1>2, <1>4, <1>6 DEF Replaced, At, Writes
<1>7. CASE /\ tx[t].pc = "undo"
           /\ \/ Entry(t).action = "create" /\ Deleted(Entry(t).object, None)
              \/ /\ Entry(t).action = "update"
                 /\ Replaced(Entry(t).object, Entry(t).pre, None)
  BY <1>3, <1>4, <1>7 DEF Deleted, Replaced, Writes
<1> QED BY <1>1, <1>5, <1>6, <1>7 DEF ServerShape, ServerSame

\* An adapter decides nothing about an object it finds unmarked.
LEMMA Undecided ==
  ASSUME IseInv, NEW t \in Txns, TxnStep(t), NEW o \in Objects,
         server[o].value \in Foreign, tx[t].plan[o].kind \notin Writes,
         \A i \in Idx(tx[t]) :
           tx[t].journal[i].object = o => tx[t].journal[i].action \notin Writes
  PROVE  /\ tx'[t].plan[o].kind \notin Writes
         /\ \A i \in Idx(tx'[t]) :
              tx'[t].journal[i].object = o => tx'[t].journal[i].action \notin Writes
<1>1. PlanShape(t) /\ JournalShape(t) /\ tx[t] \in Local
  BY PlanShapeHolds, JournalShapeHolds, Typed
<1>2. ~Managed(server[o])
  BY MarkerAssumption DEF Managed, Owned, Absent
<1>3. tx'[t].plan[o].kind \notin Writes
  BY <1>1, <1>2 DEF PlanShape, Planned, Local, Writes
<1>4. ASSUME NEW i \in Idx(tx'[t]), tx'[t].journal[i].object = o
      PROVE  tx'[t].journal[i].action \notin Writes
  BY <1>1, <1>4 DEF JournalShape, Descends, NewEntry, Action
<1> QED BY <1>3, <1>4

LEMMA KeptInit == IseInit => KeptInv
<1> SUFFICES ASSUME IseInit  PROVE KeptInv
  OBVIOUS
<1>1. ASSUME NEW t \in Txns
      PROVE  Idx(tx[t]) = {} /\ \A o \in Objects : tx[t].plan[o].kind = "none"
  BY DEF IseInit, Idx, NoAction
<1> QED BY <1>1 DEF IseInit, KeptInv, Spared, Writes

LEMMA KeptStep == IseInv /\ KeptInv /\ [IseNext]_iseVars => KeptInv'
<1> SUFFICES ASSUME IseInv, KeptInv, [IseNext]_iseVars  PROVE KeptInv'
  OBVIOUS
<1>1. edits' \in Nat
  BY EditsTyped DEF KeptInv
<1> SUFFICES ASSUME edits' = 0, NEW o \in Objects, ~Owned(initial'[o])
             PROVE  Spared(o)'
  BY <1>1 DEF KeptInv, Owned
<1>2. edits = 0 /\ ~(\E q \in Objects : Edit(q))
  BY EditsTyped DEF KeptInv
<1>3. CASE UNCHANGED iseVars
  BY <1>2, <1>3 DEF iseVars, KeptInv, Spared, Idx, Owned
<1>4. ASSUME NEW t \in Txns, TxnStep(t)  PROVE Spared(o)'
  <2>1. initial' = initial /\ Spared(o) /\ server[o].value \in Foreign
    BY <1>2, <1>4 DEF TxnStep, KeptInv, Owned, Spared
  <2>2. Preserved(t)
    BY <1>4, TxnStepGood
  <2>3. server'[o] = server[o]
    BY <1>4, <2>1, WritesDecided DEF Spared
  <2>4. /\ tx'[t].plan[o].kind \notin Writes
        /\ \A i \in Idx(tx'[t]) :
             tx'[t].journal[i].object = o => tx'[t].journal[i].action \notin Writes
    BY <1>4, <2>1, Undecided DEF Spared
  <2> QED BY <2>1, <2>2, <2>3, <2>4 DEF Spared, Preserved
<1> QED BY <1>2, <1>3, <1>4 DEF IseNext

\* _classify refuses an object without the ownership marker, and what was not
\* classified is not written: as long as nobody else edits ISE, such an object
\* stays as it is, whatever any number of adapters does.
THEOREM ForeignKeptHolds == IseSpec => []ForeignKept
<1>1. KeptInv => ForeignKept
  BY DEF KeptInv, ForeignKept, Spared
<1>2. IseSpec => []KeptInv
  BY JournalInvariant, KeptInit, KeptStep, PTL DEF IseSpec
<1> QED BY <1>1, <1>2, PTL

-----------------------------------------------------------------------------
(* The theorem about an adapter that is alone with the server. *)

\* No adapter comes back to where it started.
LEMMA NeverBack ==
  ASSUME IseInv, NEW u \in Txns, TxnStep(u)
  PROVE  ~(tx'[u].pc = "prepare" /\ tx'[u].pos = 1)
<1>1. tx \in [Txns -> Local] /\ tx[u] \in Local /\ tx[u].pos \in 1..Len(Manifest[u])
  BY Typed, PlanTyped
<1>2. ASSUME NEW pc, pc # "prepare", NEW y, y.pc = pc, tx' = [tx EXCEPT ![u] = y]
      PROVE  tx'[u].pc # "prepare"
  BY <1>1, <1>2
<1>3. ASSUME NEW pc, pc # "prepare", Goto(u, pc)  PROVE tx'[u].pc # "prepare"
  BY <1>1, <1>3 DEF Goto, Local
<1>4. ASSUME NEW ok, EntryEnds(u, ok)  PROVE tx'[u].pc # "prepare"
  BY <1>1, <1>4 DEF EntryEnds, Local
<1>5. CASE Prepare(u)
  <2>1. ASSUME NEW a,
               tx' = [tx EXCEPT ![u].plan = Planned(u, Object(u), a),
                                ![u].pos  = NextPos(u),
                                ![u].pc   = NextPc(u, "prepare", "prepared")]
        PROVE  ~(tx'[u].pc = "prepare" /\ tx'[u].pos = 1)
    <3>1. /\ tx'[u].pos = NextPos(u)
          /\ tx'[u].pc = NextPc(u, "prepare", "prepared")
      BY <1>1, <2>1 DEF Local
    <3> QED BY <1>1, <3>1 DEF NextPos, NextPc
  <2> QED BY <1>3, <1>5, <2>1 DEF Prepare
<1>6. CASE Reclassify(u) \/ Check(u)
  BY <1>1, <1>3, <1>6 DEF Reclassify, Check, At, NextPc, Local
<1>7. CASE Post(u) \/ Put(u)
  BY <1>1, <1>3, <1>7 DEF Post, Put, WriteRefused, Local
<1>8. CASE Verify(u) \/ Recover(u) \/ Leave(u)
  BY <1>1, <1>3, <1>8 DEF Verify, Recover, Leave, NextPc, Local
<1>9. CASE Unwind(u)
  <2>1. ASSUME NEW j, tx' = [tx EXCEPT ![u].journal = j, ![u].pc = "undo"]
        PROVE  tx'[u].pc # "prepare"
    BY <1>1, <2>1 DEF Local
  <2> QED BY <1>4, <1>9, <2>1 DEF Unwind
<1>10. CASE Undo(u) \/ Undone(u)
  BY <1>3, <1>4, <1>10 DEF Undo, Undone
<1>11. CASE Proceed(u) \/ Conclude(u) \/ EndRollback(u) \/ ReadFails(u)
  <2>1. \A pc \in {"apply", "failed", "committed", "refused", Outcome(u)} :
          pc # "prepare"
    BY DEF Outcome
  <2> QED BY <1>3, <1>11, <2>1 DEF Proceed, Conclude, EndRollback, ReadFails
<1> QED BY <1>5, <1>6, <1>7, <1>8, <1>9, <1>10, <1>11 DEF TxnStep

\* Who is alone was alone before, and moved itself.
LEMMA AloneBefore ==
  ASSUME IseInv, edits \in Nat, [IseNext]_iseVars, NEW t \in Txns, Alone(t)'
  PROVE  /\ Alone(t)
         /\ TxnStep(t) \/ UNCHANGED iseVars
<1>1. edits = 0 /\ ~(\E o \in Objects : Edit(o))
  BY EditsTyped DEF Alone
<1>2. CASE UNCHANGED iseVars
  BY <1>1, <1>2 DEF iseVars, bounds, Alone
<1>3. ASSUME NEW u \in Txns, TxnStep(u)
      PROVE  Alone(t) /\ TxnStep(t)
  <2>1. u = t
    BY <1>3, NeverBack DEF Alone
  <2>2. \A v \in Txns : v # t => tx'[v] = tx[v]
    BY <1>3, <2>1, TxnStepGood DEF Preserved
  <2> QED BY <1>1, <1>3, <2>1, <2>2 DEF Alone
<1> QED BY <1>1, <1>2, <1>3 DEF IseNext

\* An operation is settled because its object was found as it should be.
Right(t) ==
  /\ ServerSame
  /\ \/ Action(t).kind = "noop" /\ Unchanged(t)
     \/ \E id : /\ ById(Object(t), id) # Absent
                /\ ById(Object(t), id).value = Want[t][Object(t)]

Progress(t) ==
  /\ tx'[t].pc = "prepared" => tx'[t].pos = 1
  /\ tx'[t].pc = "recover" =>
       At(t, "send", "create") /\ tx'[t].pos = tx[t].pos /\ tx'[t].plan = tx[t].plan
  /\ \A k \in 1..Len(Manifest[t]) : Settled(tx'[t], k) =>
       \/ Settled(tx[t], k)
       \/ tx[t].pc = "prepared" /\ k < tx[t].pos
       \/ k = tx[t].pos /\ Right(t)

LEMMA ProgressHolds ==
  ASSUME IseInv, NEW t \in Txns, TxnStep(t)
  PROVE  Progress(t)
<1> DEFINE x == tx[t]
           y == tx'[t]
<1>1. /\ tx \in [Txns -> Local] /\ x \in Local /\ x.pos \in 1..Len(Manifest[t])
      /\ Len(Manifest[t]) \in Nat
  BY Typed, PlanTyped, ManifestAssumption
<1>2. ASSUME y.pc \notin {"prepared", "apply", "send", "verify", "recover",
                        "applied", "committed"}
      PROVE  Progress(t)
  BY <1>2 DEF Progress, Settled
<1>3. ASSUME NEW pc \in {"failed", "refused", "clean", "undone", Outcome(t)},
             Goto(t, pc)
      PROVE  Progress(t)
  <2>1. y.pc = pc
    BY <1>1, <1>3 DEF Goto, Local
  <2> QED BY <1>2, <2>1 DEF Outcome
<1>4. ASSUME NEW ok, EntryEnds(t, ok)  PROVE Progress(t)
  <2>1. y.pc = "unwind"
    BY <1>1, <1>4 DEF EntryEnds, Local
  <2> QED BY <1>2, <2>1
\* What moves on to the next operation.
<1>5. ASSUME x.pc \in {"apply", "verify"}, Right(t), y.pos = NextPos(t),
             y.pc = NextPc(t, "apply", "applied")
      PROVE  Progress(t)
  BY <1>1, <1>5 DEF Progress, Settled, NextPos, NextPc, LastOne
\* What stays at its operation.
<1>6. ASSUME x.pc \in {"apply", "send"}, y.pos = x.pos,
             y.pc \in {"apply", "send", "verify"}
      PROVE  Progress(t)
  BY <1>6 DEF Progress, Settled
<1>7. CASE Prepare(t)
  <2>1. ASSUME NEW a,
               tx' = [tx EXCEPT ![t].plan = Planned(t, Object(t), a),
                                ![t].pos  = NextPos(t),
                                ![t].pc   = NextPc(t, "prepare", "prepared")]
        PROVE  Progress(t)
    <3>1. y.pos = NextPos(t) /\ y.pc = NextPc(t, "prepare", "prepared")
      BY <1>1, <2>1 DEF Local
    <3> QED BY <3>1 DEF Progress, Settled, NextPos, NextPc
  <2> QED BY <1>3, <1>7, <2>1 DEF Prepare
<1>8. CASE Proceed(t)
  <2>1. CASE Goto(t, "apply")
    <3>1. y.pc = "apply" /\ y.pos = x.pos /\ x.pc = "prepared"
      BY <1>1, <1>8, <2>1 DEF Goto, Local, Proceed
    <3> QED BY <3>1 DEF Progress, Settled
  <2> QED BY <1>3, <1>8, <2>1 DEF Proceed
<1>9. CASE Reclassify(t)
  <2>1. ASSUME NEW p, tx' = [tx EXCEPT ![t].plan = p]
        PROVE  y.pc = x.pc /\ y.pos = x.pos
    BY <1>1, <2>1 DEF Local
  <2> QED BY <1>3, <1>6, <1>9, <2>1 DEF Reclassify, At
<1>10. CASE Check(t)
  <2>1. CASE Unchanged(t) /\ Action(t).kind = "noop"
             /\ tx' = [tx EXCEPT ![t].pos = NextPos(t),
                                 ![t].pc  = NextPc(t, "apply", "applied")]
    <3>1. y.pos = NextPos(t) /\ y.pc = NextPc(t, "apply", "applied")
      BY <1>1, <2>1 DEF Local
    <3> QED BY <1>5, <1>10, <2>1, <3>1 DEF Check, Right
  <2>2. CASE tx' = [tx EXCEPT ![t].journal = Journaled(t), ![t].pc = "send"]
    <3>1. y.pos = x.pos /\ y.pc = "send"
      BY <1>1, <2>2 DEF Local
    <3> QED BY <1>6, <1>10, <3>1 DEF Check
  <2> QED BY <1>3, <1>10, <2>1, <2>2 DEF Check
<1>11. CASE Post(t)
  <2>1. ASSUME NEW j, tx' = [tx EXCEPT ![t].journal = j, ![t].pc = "verify"]
        PROVE  y.pos = x.pos /\ y.pc = "verify"
    BY <1>1, <2>1 DEF Local
  <2>2. CASE Goto(t, "recover")
    <3>1. y.pc = "recover" /\ y.pos = x.pos /\ y.plan = x.plan
      BY <1>1, <2>2 DEF Goto, Local
    <3> QED BY <1>11, <3>1 DEF Progress, Settled, Post, At
  <2> QED BY <1>3, <1>6, <1>11, <2>1, <2>2 DEF Post, At, WriteRefused
<1>12. CASE Put(t)
  <2>1. CASE Goto(t, "verify")
    <3>1. y.pc = "verify" /\ y.pos = x.pos
      BY <1>1, <2>1 DEF Goto, Local
    <3> QED BY <1>6, <1>12, <3>1 DEF Put, At
  <2> QED BY <1>3, <1>12, <2>1 DEF Put, WriteRefused
<1>13. CASE Verify(t)
  <2> DEFINE found == ById(Object(t), Entry(t).id)
             journal == WithPost(t, found.value)
  <2>1. CASE /\ found # Absent /\ Confirmed(t, found)
             /\ tx' = [tx EXCEPT ![t].journal = journal,
                                 ![t].pos = NextPos(t),
                                 ![t].pc  = NextPc(t, "apply", "applied")]
    <3>1. y.pos = NextPos(t) /\ y.pc = NextPc(t, "apply", "applied")
      BY <1>1, <2>1 DEF Local
    <3> QED BY <1>5, <1>13, <2>1, <3>1 DEF Verify, Right, Confirmed
  <2>2. ASSUME tx' = [tx EXCEPT ![t].journal = journal, ![t].pc = "failed"]
        PROVE  y.pc = "failed"
    BY <1>1, <2>2 DEF Local
  <2> QED BY <1>2, <1>3, <1>13, <2>1, <2>2 DEF Verify
<1>14. CASE Recover(t)
  <2>1. y.pc = "failed"
    BY <1>1, <1>14 DEF Recover, Local
  <2> QED BY <1>2, <2>1
<1>15. CASE Conclude(t)
  <2>1. CASE Goto(t, "committed")
    <3>1. y.pc = "committed" /\ x.pc = "applied"
      BY <1>1, <1>15, <2>1 DEF Goto, Local, Conclude
    <3> QED BY <3>1 DEF Progress, Settled
  <2> QED BY <1>3, <1>15, <2>1 DEF Conclude
<1>16. CASE Leave(t)
  <2>1. y.pc = "unwind" \/ Goto(t, "clean")
    BY <1>1, <1>16 DEF Leave, Local
  <2> QED BY <1>2, <1>3, <2>1
<1>17. CASE Unwind(t)
  <2>1. ASSUME NEW j, tx' = [tx EXCEPT ![t].journal = j, ![t].pc = "undo"]
        PROVE  y.pc = "undo"
    BY <1>1, <2>1 DEF Local
  <2> QED BY <1>2, <1>4, <1>17, <2>1 DEF Unwind
<1>18. CASE Undo(t) \/ Undone(t) \/ EndRollback(t) \/ ReadFails(t)
  BY <1>3, <1>4, <1>18 DEF Undo, Undone, EndRollback, ReadFails
<1> QED BY <1>7, <1>8, <1>9, <1>10, <1>11, <1>12, <1>13, <1>14, <1>15, <1>16,
           <1>17, <1>18 DEF TxnStep

\* What an entry of an update tells is an incarnation that was there.
LEMMA UpdateEntry ==
  ASSUME IseInv, NEW t \in Txns, initial \in [Objects -> Incarnations],
         Trace(t, tx[t], server, author), NEW i \in Idx(tx[t])
  PROVE  LET f == tx[t].journal[i] IN
         /\ f \in Items
         /\ f.action = "create" => f.pre = None /\ initial[f.object] = Absent
         /\ f.action = "update" =>
              /\ f.pre \in Values /\ f.id \in Nat \ {0}
              /\ initial[f.object] = [id |-> f.id, value |-> f.pre]
<1> DEFINE f == tx[t].journal[i]
<1>1. f \in Items
  BY Typed, ElementOfSeq DEF Idx
<1>2. PreOK(f.action, f.pre)
  BY DEF IseInv, Good, Blank
<1>3. Origin(f.action, f.id, f.pre, f.object)
  BY DEF Trace
<1>4. initial[f.object] \in Incarnations
  BY <1>1 DEF Items
<1> HIDE DEF f
<1>5. f.action = "update" => f.id \in Nat \ {0}
  BY <1>2, <1>3, <1>4, WantAssumption DEF PreOK, Origin, Incarnations, Absent
<1> QED BY <1>1, <1>2, <1>3, <1>5 DEF PreOK, Origin, f

LEMMA UntouchedStep ==
  ASSUME IseInv, NEW t \in Txns, TxnStep(t), initial \in [Objects -> Incarnations],
         Trace(t, tx[t], server, author)
  PROVE  \A o \in Objects : author'[o] # t => server'[o] = initial[o]
<1> SUFFICES ASSUME NEW o \in Objects, author'[o] # t
             PROVE  server'[o] = initial[o]
  OBVIOUS
<1>1. ServerShape(t) /\ ServerOK /\ Object(t) \in Objects
  BY ServerShapeHolds, PlanTyped, Typed
<1>2. ASSUME server'[o] = server[o], author'[o] = author[o]
      PROVE  server'[o] = initial[o]
  BY <1>2 DEF Trace
<1>3. CASE At(t, "send", "create") /\ \E v \in Values : Created(Object(t), v, t)
  BY <1>1, <1>2, <1>3 DEF Created, ServerOK
<1>4. ASSUME At(t, "send", "update"), ById(Object(t), Action(t).id) # Absent,
             NEW v \in Values, Replaced(Object(t), v, Mark(t, v))
      PROVE  server'[o] = initial[o]
  <2>1. CASE o # Object(t)
    BY <1>1, <1>2, <1>4, <2>1 DEF Replaced, ServerOK
  <2>2. CASE o = Object(t)
    <3>1. v = Action(t).pre
      BY <1>1, <1>4, <2>2 DEF Replaced, Mark, ServerOK
    <3>2. initial[o] = [id |-> Action(t).id, value |-> v]
      BY <1>4, <2>2, <3>1 DEF Trace, Origin, At, Action
    <3>3. server[o].id = Action(t).id /\ server[o] \in [id : Nat \ {0}, value : Values]
      BY <1>1, <1>4, <2>2 DEF ById, ServerOK, Incarnations
    <3> QED BY <1>1, <1>4, <2>2, <3>2, <3>3 DEF Replaced, ServerOK
  <2> QED BY <2>1, <2>2
<1>5. ASSUME tx[t].pc = "undo", Undoable(Entry(t)),
             \/ Entry(t).action = "create" /\ Deleted(Entry(t).object, None)
             \/ /\ Entry(t).action = "update"
                /\ Replaced(Entry(t).object, Entry(t).pre, None)
      PROVE  server'[o] = initial[o]
  <2> DEFINE e == Entry(t)
  <2>1. Len(tx[t].journal) > 0
    BY <1>5, Typed DEF Good, Fresh, Busy
  <2>2. e = tx[t].journal[Len(tx[t].journal)] /\ Len(tx[t].journal) \in Idx(tx[t])
    BY <2>1, EntryOK DEF Idx
  <2>3. /\ e \in Items
        /\ e.action = "create" => initial[e.object] = Absent
        /\ e.action = "update" => initial[e.object] = [id |-> e.id, value |-> e.pre]
    BY <2>2, UpdateEntry
  <2> HIDE DEF e
  <2>4. CASE o # e.object
    BY <1>1, <1>2, <1>5, <2>3, <2>4 DEF Deleted, Replaced, ServerOK, Items, e
  <2>5. CASE o = e.object /\ e.action = "create"
    BY <1>1, <1>5, <2>3, <2>5 DEF Deleted, ServerOK, e
  <2>6. CASE o = e.object /\ e.action = "update"
    <3>1. server[o].id = e.id /\ server[o] \in [id : Nat \ {0}, value : Values]
      BY <1>1, <1>5, <2>6 DEF Undoable, ById, ServerOK, Incarnations, e
    <3> QED BY <1>1, <1>5, <2>3, <2>6, <3>1 DEF Replaced, ServerOK, e
  <2> QED BY <1>5, <2>4, <2>5, <2>6 DEF e
<1> QED BY <1>1, <1>2, <1>3, <1>4, <1>5 DEF ServerShape, ServerSame

\* The current object is not t's when t is about to decide about it.
LEMMA NotYetOurs ==
  ASSUME IseInv, NEW t \in Txns, tx[t].pc \in {"prepare", "apply"}
  PROVE  author[Object(t)] # t
<1>1. Good(t, tx[t], server, author) /\ Object(t) \in Objects
  BY PlanTyped, Typed
<1> SUFFICES ASSUME author[Object(t)] = t  PROVE FALSE
  OBVIOUS
<1>2. PICK i \in Idx(tx[t]) : tx[t].journal[i].object = Object(t)
  BY <1>1 DEF Good, Covered, Calm
<1>3. CASE tx[t].pc = "prepare"
  BY <1>1, <1>2, <1>3 DEF Good, Calm, Idx
<1>4. CASE tx[t].pc = "apply"
  <2>1. Behind(t, tx[t], i)
    BY <1>1, <1>4 DEF Good, Fresh
  <2>2. tx[t].journal[i].object # Manifest[t][tx[t].pos]
    BY <1>1, <2>1, Elsewhere DEF Good
  <2> QED BY <1>2, <2>2 DEF Object
<1> QED BY <1>3, <1>4

LEMMA TracePlan ==
  ASSUME IseInv, NEW t \in Txns, TxnStep(t), initial \in [Objects -> Incarnations],
         Trace(t, tx[t], server, author)
  PROVE  \A o \in Objects :
           LET a == tx'[t].plan[o] IN
           /\ Origin(a.kind, a.id, a.pre, o)
           /\ a.kind = "noop" => a.pre = Want[t][o]
           /\ a.kind = "update" => a.pre # Want[t][o]
<1>1. PlanShape(t) /\ Object(t) \in Objects /\ tx[t] \in Local
  BY PlanShapeHolds, PlanTyped, Typed
<1>2. CASE tx'[t].plan = tx[t].plan
  BY <1>2 DEF Trace
<1>3. ASSUME tx[t].pc \in {"prepare", "apply"}, NEW a \in Actions,
             tx'[t].plan = Planned(t, Object(t), a),
             \/ a.kind = "deferred"
             \/ Managed(server[Object(t)]) /\ a = Classified(t, Object(t))
      PROVE  \A o \in Objects :
               LET b == tx'[t].plan[o] IN
               /\ Origin(b.kind, b.id, b.pre, o)
               /\ b.kind = "noop" => b.pre = Want[t][o]
               /\ b.kind = "update" => b.pre # Want[t][o]
  <2>1. server[Object(t)] = initial[Object(t)]
    BY <1>1, <1>3, NotYetOurs DEF Trace
  <2>2. server[Object(t)] # Absent =>
          server[Object(t)] = [id |-> server[Object(t)].id,
                               value |-> server[Object(t)].value]
    BY PlanTyped DEF Incarnations
  <2>3. /\ Origin(a.kind, a.id, a.pre, Object(t))
        /\ a.kind = "noop" => a.pre = Want[t][Object(t)]
        /\ a.kind = "update" => a.pre # Want[t][Object(t)]
    BY <1>3, <2>1, <2>2 DEF Classified, Origin
  <2>4. \A o \in Objects :
          tx'[t].plan[o] = IF o = Object(t) THEN a ELSE tx[t].plan[o]
    BY <1>1, <1>3 DEF Planned, Local
  <2> QED BY <2>3, <2>4 DEF Trace
<1> QED BY <1>1, <1>2, <1>3 DEF PlanShape

LEMMA TraceReady ==
  ASSUME IseInv, NEW t \in Txns, TxnStep(t), Trace(t, tx[t], server, author),
         NEW k \in 1..Len(Manifest[t]), Ready(tx'[t], k)
  PROVE  tx'[t].plan[Manifest[t][k]].kind # "none"
<1> DEFINE x == tx[t]
           y == tx'[t]
           o == Manifest[t][k]
<1>1. /\ PlanShape(t) /\ Object(t) \in Objects /\ tx[t] \in Local /\ o \in Objects
      /\ tx \in [Txns -> Local] /\ x.pos \in 1..Len(Manifest[t])
      /\ Len(Manifest[t]) \in Nat
  BY PlanShapeHolds, PlanTyped, Typed, ManifestAssumption, ElementOfSeq
<1>2. CASE Ready(x, k)
  <2>1. x.plan[o].kind # "none"
    BY <1>2 DEF Trace
  <2>2. ASSUME NEW a, a.kind # "none", y.plan = Planned(t, Object(t), a)
        PROVE  y.plan[o].kind # "none"
    BY <1>1, <2>1, <2>2 DEF Planned, Local
  <2>3. Classified(t, Object(t)).kind # "none"
    BY DEF Classified
  <2> QED BY <1>1, <2>1, <2>2, <2>3 DEF PlanShape
<1>3. CASE ~Ready(x, k)
  <2>1. x.pc \in {"prepare", "refused"} /\ ~(k < x.pos)
    BY <1>3 DEF Ready
  <2>2. Prepare(t) \/ ReadFails(t)
    BY <2>1 DEF TxnStep, Proceed, Reclassify, Check, Post, Put, Verify, Recover,
                Conclude, Leave, Unwind, Undo, Undone, EndRollback, At
  <2>3. CASE Goto(t, "refused")
    <3>1. y.pc = "refused" /\ y.pos = x.pos
      BY <1>1, <2>3 DEF Goto, Local
    <3> QED BY <2>1, <3>1 DEF Ready
  <2>4. ASSUME NEW a, a.kind # "none",
               tx' = [tx EXCEPT ![t].plan = Planned(t, Object(t), a),
                                ![t].pos  = NextPos(t),
                                ![t].pc   = NextPc(t, "prepare", "prepared")]
        PROVE  y.plan[o].kind # "none"
    <3>1. /\ y.plan = Planned(t, Object(t), a) /\ y.pos = NextPos(t)
          /\ y.pc = NextPc(t, "prepare", "prepared")
      BY <1>1, <2>4 DEF Local
    <3>2. k = x.pos
      BY <1>1, <2>1, <3>1 DEF Ready, NextPos, NextPc, LastOne
    <3> QED BY <1>1, <2>4, <3>1, <3>2 DEF Planned, Local, Object
  <2>5. [NoAction EXCEPT !.kind = "deferred"].kind # "none"
    BY DEF NoAction
  <2>6. Classified(t, Object(t)).kind # "none"
    BY DEF Classified
  <2> QED BY <2>1, <2>2, <2>3, <2>4, <2>5, <2>6 DEF Prepare, ReadFails
<1> QED BY <1>2, <1>3

LEMMA TraceJournal ==
  ASSUME IseInv, NEW t \in Txns, TxnStep(t), initial \in [Objects -> Incarnations],
         Trace(t, tx[t], server, author)
  PROVE  \A i \in Idx(tx'[t]) :
           LET e == tx'[t].journal[i] IN
           Origin(e.action, e.id, e.pre, e.object) /\ e.action \in Writes
<1> SUFFICES ASSUME NEW i \in Idx(tx'[t])
             PROVE  LET e == tx'[t].journal[i] IN
                    Origin(e.action, e.id, e.pre, e.object) /\ e.action \in Writes
  OBVIOUS
<1>1. JournalShape(t) /\ Object(t) \in Objects
  BY JournalShapeHolds, PlanTyped
<1>2. CASE /\ tx[t].pc = "apply" /\ tx'[t].journal[i] = NewEntry(t)
           /\ Action(t).kind \notin {"deferred", "noop"}
  <2>1. Action(t).kind # "none"
    BY <1>2, PlanTyped DEF Trace, Ready, Action, Object
  <2>2. Action(t).kind \in Writes
    BY <1>2, <2>1, PlanTyped DEF Actions, Writes
  <2> QED BY <1>1, <2>2, <1>2 DEF Trace, NewEntry, Action
<1>3. CASE i \in Idx(tx[t])
           /\ Descends(tx'[t].journal[i], tx[t].journal[i], Recovered(t, i))
  <2> DEFINE f == tx[t].journal[i]
             e == tx'[t].journal[i]
  <2>1. Origin(f.action, f.id, f.pre, f.object) /\ f.action \in Writes
    BY <1>3 DEF Trace
  <2>2. f.action = "update" => f.id # 0
    BY <1>3, UpdateEntry
  <2>3. f.action = "update" => ~Recovered(t, i)
    <3>1. ASSUME Recovered(t, i)  PROVE f.action = "create"
      BY <1>3, <3>1, Typed DEF Recovered, Trace, Good, Fresh
    <3> QED BY <3>1
  <2> HIDE DEF e, f
  <2>4. Descends(e, f, Recovered(t, i))
    BY <1>3 DEF e, f
  <2>5. Origin(e.action, e.id, e.pre, e.object) /\ e.action \in Writes
    BY <2>1, <2>2, <2>3, <2>4 DEF Descends, Origin, Writes
  <2> QED BY <2>5 DEF e
<1> QED BY <1>1, <1>2, <1>3 DEF JournalShape

LEMMA TraceSettled ==
  ASSUME IseInv, NEW t \in Txns, TxnStep(t), initial \in [Objects -> Incarnations],
         Trace(t, tx[t], server, author),
         NEW k \in 1..Len(Manifest[t]), Settled(tx'[t], k)
  PROVE  server'[Manifest[t][k]].value = Want[t][Manifest[t][k]]
<1> DEFINE o == Manifest[t][k]
<1>1. /\ Progress(t) /\ ServerShape(t) /\ Object(t) \in Objects /\ ServerOK
      /\ tx[t].pos \in 1..Len(Manifest[t])
  BY ProgressHolds, ServerShapeHolds, PlanTyped, Typed
<1>2. o \in Objects
  BY ManifestAssumption, ElementOfSeq
<1>3. CASE Settled(tx[t], k)
  <2>1. server[o].value = Want[t][o]
    BY <1>3 DEF Trace
  <2>2. tx[t].pc = "send" => o # Object(t)
    BY <1>1, <1>3, ManifestAssumption DEF Settled, Object
  <2>3. tx[t].pc # "undo"
    BY <1>3 DEF Settled
  <2> HIDE DEF o
  <2>4. server'[o] = server[o]
    BY <1>1, <1>2, <2>2, <2>3
       DEF ServerShape, ServerSame, At, Created, Replaced, ServerOK
  <2> QED BY <2>1, <2>4 DEF o
<1>4. CASE tx[t].pc = "prepared" /\ k < tx[t].pos
  BY <1>1, <1>4 DEF Trace
<1>5. CASE k = tx[t].pos /\ Right(t)
  <2>1. o = Object(t) /\ server' = server
    BY <1>5 DEF Object, Right, ServerSame
  <2>2. CASE Action(t).kind = "noop" /\ Unchanged(t)
    <3>1. /\ Action(t).pre = Want[t][o]
          /\ initial[o] = [id |-> Action(t).id, value |-> Action(t).pre]
      BY <1>2, <2>1, <2>2 DEF Trace, Origin, Action
    <3>2. ById(o, Action(t).id).value = Want[t][o]
      BY <2>1, <2>2, <3>1 DEF Unchanged
    <3>3. Want[t][o] # None
      BY <1>2, WantAssumption
    <3> QED BY <2>1, <3>2, <3>3 DEF ById, Absent
  <2>3. CASE \E id : /\ ById(Object(t), id) # Absent
                     /\ ById(Object(t), id).value = Want[t][Object(t)]
    BY <2>1, <2>3 DEF ById
  <2> QED BY <1>5, <2>1, <2>2, <2>3 DEF Right
<1> QED BY <1>1, <1>3, <1>4, <1>5 DEF Progress

LEMMA TraceStep ==
  ASSUME IseInv, NEW t \in Txns, TxnStep(t), initial \in [Objects -> Incarnations],
         Trace(t, tx[t], server, author)
  PROVE  Trace(t, tx[t], server, author)'
<1>1. initial' = initial
  BY DEF TxnStep
<1>2. Progress(t)
  BY ProgressHolds
<1>3. tx'[t].pc = "recover" => tx'[t].plan[Manifest[t][tx'[t].pos]].kind = "create"
  BY <1>2 DEF Progress, At, Action, Object
<1>4. \A o \in Objects : author'[o] # t => server'[o] = initial[o]
  BY UntouchedStep
<1>5. \A o \in Objects :
        LET a == tx'[t].plan[o] IN
        /\ Origin(a.kind, a.id, a.pre, o)
        /\ a.kind = "noop" => a.pre = Want[t][o]
        /\ a.kind = "update" => a.pre # Want[t][o]
  BY TracePlan
<1>6. \A i \in Idx(tx'[t]) :
        LET e == tx'[t].journal[i] IN
        Origin(e.action, e.id, e.pre, e.object) /\ e.action \in Writes
  BY TraceJournal
<1>8. \A k \in 1..Len(Manifest[t]) :
        Ready(tx'[t], k) => tx'[t].plan[Manifest[t][k]].kind # "none"
  BY TraceReady
<1>7. \A k \in 1..Len(Manifest[t]) :
        Settled(tx'[t], k) => server'[Manifest[t][k]].value = Want[t][Manifest[t][k]]
  BY TraceSettled
<1> QED BY <1>1, <1>2, <1>3, <1>4, <1>5, <1>6, <1>7, <1>8
        DEF Trace, Progress, Origin, Ready, Settled, Idx

LEMMA TraceInit == IseInit => TraceInv
<1> SUFFICES ASSUME IseInit  PROVE TraceInv
  OBVIOUS
<1>1. initial \in [Objects -> Incarnations] /\ edits \in Nat
  BY WantAssumption DEF IseInit
<1>2. ASSUME NEW t \in Txns  PROVE Trace(t, tx[t], server, author)
  <2>1. /\ tx[t].pc = "prepare" /\ tx[t].pos = 1 /\ Idx(tx[t]) = {}
        /\ \A o \in Objects : tx[t].plan[o] = NoAction
    BY DEF IseInit, Idx
  <2>2. server = initial
    BY DEF IseInit
  <2> QED BY <2>1, <2>2 DEF Trace, Origin, Settled, Ready, NoAction
<1> QED BY <1>1, <1>2 DEF TraceInv

LEMMA TraceNext == IseInv /\ TraceInv /\ [IseNext]_iseVars => TraceInv'
<1> SUFFICES ASSUME IseInv, TraceInv, [IseNext]_iseVars  PROVE TraceInv'
  OBVIOUS
<1>1. edits' \in Nat /\ initial' = initial
  BY EditsTyped DEF TraceInv, IseNext, TxnStep, Edit, iseVars
<1>2. ASSUME NEW t \in Txns, Alone(t)'
      PROVE  Trace(t, tx[t], server, author)'
  <2>1. Alone(t) /\ (TxnStep(t) \/ UNCHANGED iseVars)
    BY <1>2, AloneBefore DEF TraceInv
  <2>2. Trace(t, tx[t], server, author)
    BY <2>1 DEF TraceInv
  <2>3. CASE TxnStep(t)
    BY <2>2, <2>3, TraceStep DEF TraceInv
  <2>4. CASE UNCHANGED iseVars
    BY <2>2, <2>4 DEF iseVars, Trace, Origin, Settled, Ready, Idx
  <2> QED BY <2>1, <2>3, <2>4
<1> QED BY <1>1, <1>2 DEF TraceInv

LEMMA TraceInvariant == IseSpec => []TraceInv
BY JournalInvariant, TraceInit, TraceNext, PTL DEF IseSpec

\* An adapter that is alone with the server commits with all it wants there,
\* or takes the server back to what it was, whichever requests fail.
THEOREM AllOrNothingHolds == IseSpec => []AllOrNothing
<1>1. NothingLeft /\ TraceInv => AllOrNothing
  <2> SUFFICES ASSUME NothingLeft, TraceInv, NEW t \in Txns, Alone(t)
               PROVE  /\ tx[t].pc = "committed" =>
                           \A i \in 1..Len(Manifest[t]) :
                             server[Manifest[t][i]].value = Want[t][Manifest[t][i]]
                      /\ tx[t].pc \in Undamaged =>
                           \A o \in Objects : server[o].value = initial[o].value
    BY DEF AllOrNothing
  <2>1. Trace(t, tx[t], server, author)
    BY DEF TraceInv
  <2> QED BY <2>1 DEF Trace, Settled, NothingLeft
<1> QED BY <1>1, NothingLeftHolds, TraceInvariant, PTL

-----------------------------------------------------------------------------
(* The theorem about the rollback of an adapter that is alone. *)

LEMMA FaultsTyped ==
  ASSUME faults \in Nat, [IseNext]_iseVars
  PROVE  /\ faults' \in Nat
         /\ faults' = 0 => faults = 0 /\ ~Fault
<1>1. NoFault \/ Fault
  <2>1. CASE \E t \in Txns : TxnStep(t)
    <3> USE <2>1 DEF TxnStep
    <3> QED BY DEF Prepare, Proceed, Reclassify, Check, Post, Put, Verify,
                   Recover, Conclude, Leave, Unwind, Undo, Undone, EndRollback,
                   ReadFails, Stores
  <2>2. CASE (\E o \in Objects : Edit(o)) \/ UNCHANGED iseVars
    BY <2>2 DEF Edit, NoFault, iseVars, bounds
  <2> QED BY <2>1, <2>2 DEF IseNext
<1> QED BY <1>1 DEF NoFault, Fault

LEMMA CreatedLinked ==
  ASSUME ServerOK, Linked(server), NEW o \in Objects, Creatable(o),
         NEW v, NEW who, Created(o, v, who)
  PROVE  Linked(server')
<1>1. \A q \in Objects : server'[q] = IF q = o THEN [id |-> lastId[o] + 1, value |-> v]
                                             ELSE server[q]
  BY DEF ServerOK, Created
<1>2. server'[o] # Absent
  BY <1>1 DEF ServerOK, Absent
<1>3. \A q \in Objects : server[q] # Absent => server'[q] # Absent
  BY <1>1, <1>2
<1>4. \A c \in Objects : RefsOf[c] \subseteq Objects
  BY WantAssumption
<1> QED BY <1>1, <1>3, <1>4 DEF Linked, Creatable

LEMMA ReplacedLinked ==
  ASSUME ServerOK, Linked(server), NEW o \in Objects, server[o] # Absent,
         NEW v, NEW who, Replaced(o, v, who)
  PROVE  Linked(server')
<1>1. \A q \in Objects : server'[q] = IF q = o THEN [server[o] EXCEPT !.value = v]
                                             ELSE server[q]
  BY DEF ServerOK, Replaced
<1>2. server[o] \in [id : Nat \ {0}, value : Values]
  BY DEF ServerOK, Incarnations
<1>3. \A q \in Objects : server[q] # Absent <=> server'[q] # Absent
  BY <1>1, <1>2 DEF Absent
<1>4. \A c \in Objects : RefsOf[c] \subseteq Objects
  BY WantAssumption
<1> QED BY <1>3, <1>4 DEF Linked

LEMMA DeletedLinked ==
  ASSUME ServerOK, Linked(server), NEW o \in Objects, ~Referenced(o),
         NEW who, Deleted(o, who)
  PROVE  Linked(server')
<1>1. \A q \in Objects : server'[q] = IF q = o THEN Absent ELSE server[q]
  BY DEF ServerOK, Deleted
<1>2. \A c \in Objects : RefsOf[c] \subseteq Objects
  BY WantAssumption
<1> QED BY <1>1, <1>2 DEF Linked, Referenced

\* The server keeps what its cells refer to, whoever uses it.
LEMMA LinkedStep ==
  ASSUME IseInv, Linked(server), [IseNext]_iseVars
  PROVE  Linked(server')
<1>1. ServerOK
  BY DEF IseInv
<1>2. ASSUME NEW o \in Objects, Edit(o)  PROVE Linked(server')
  BY <1>1, <1>2, CreatedLinked, ReplacedLinked, DeletedLinked DEF Edit
<1>3. ASSUME NEW t \in Txns, TxnStep(t)  PROVE Linked(server')
  <2>1. ServerShape(t) /\ Object(t) \in Objects
    BY <1>3, ServerShapeHolds, PlanTyped
  <2>2. CASE At(t, "send", "create") /\ Creatable(Object(t))
             /\ \E v \in Values : Created(Object(t), v, t)
    BY <1>1, <2>1, <2>2, CreatedLinked
  <2>3. CASE /\ ById(Object(t), Action(t).id) # Absent
             /\ \E v \in Values : Replaced(Object(t), v, Mark(t, v))
    BY <1>1, <2>1, <2>3, ReplacedLinked DEF ById
  <2>4. CASE /\ tx[t].pc = "undo" /\ Undoable(Entry(t))
             /\ \/ Entry(t).action = "create" /\ Deleted(Entry(t).object, None)
                \/ /\ Entry(t).action = "update"
                   /\ Replaced(Entry(t).object, Entry(t).pre, None)
    <3>1. Len(tx[t].journal) > 0
      BY <2>4, Typed DEF Good, Fresh, Busy
    <3>2. Entry(t).object \in Objects
      BY <3>1, EntryOK DEF Items
    <3> QED BY <1>1, <2>4, <3>2, ReplacedLinked, DeletedLinked DEF Undoable, ById
  <2> QED BY <2>1, <2>2, <2>3, <2>4 DEF ServerShape, ServerSame
<1>4. CASE UNCHANGED iseVars
  BY <1>4 DEF iseVars
<1> QED BY <1>2, <1>3, <1>4 DEF IseNext

\* The adapter moves on, and neither its journal nor the server changes.
LEMMA SoloQuiet ==
  ASSUME IseInv, NEW t \in Txns, Solo(t, tx[t], server, author), ServerSame,
         tx'[t].journal = tx[t].journal, tx'[t].failed = tx[t].failed,
         tx[t].pc # "verify",
         tx'[t].pc \notin {"recover", "send", "undone", "verify", "undo"}
  PROVE  Solo(t, tx[t], server, author)'
BY DEF Solo, ServerSame, Known, Dependents, Idx

LEMMA SoloGoto ==
  ASSUME IseInv, NEW t \in Txns, Solo(t, tx[t], server, author), ServerSame,
         tx[t].pc # "verify",
         NEW pc \in PCs \ {"recover", "send", "undone", "verify", "undo"}, Goto(t, pc)
  PROVE  Solo(t, tx[t], server, author)'
<1>1. tx \in [Txns -> Local] /\ tx[t] \in Local
  BY Typed
<1>2. /\ tx'[t].journal = tx[t].journal /\ tx'[t].failed = tx[t].failed
      /\ tx'[t].pc = pc
  BY <1>1 DEF Goto, Local
<1> QED BY <1>2, SoloQuiet

\* The last entry is done with.
LEMMA SoloDrop ==
  ASSUME IseInv, NEW t \in Txns, Solo(t, tx[t], server, author), ServerSame,
         Len(tx[t].journal) > 0, tx[t].pc # "verify", EntryEnds(t, TRUE)
  PROVE  Solo(t, tx[t], server, author)'
<1> DEFINE x == tx[t]
           s == x.journal
<1>1. tx \in [Txns -> Local] /\ s \in Seq(Items) /\ x \in Local
  BY Typed
<1>2. s # <<>>
  BY <1>1, EmptySeq
<1>3. /\ Len(Front(s)) = Len(s) - 1
      /\ \A i \in 1..(Len(s) - 1) : Front(s)[i] = s[i]
  BY <1>1, <1>2, FrontShape
<1>4. /\ tx'[t].journal = Front(s) /\ tx'[t].pc = "unwind"
      /\ ~tx'[t].failed
  BY <1>1 DEF EntryEnds, Drop, Local, Solo
<1>5. Len(s) \in Nat
  BY <1>1
<1> HIDE DEF s
<1>6. \A i \in Idx(tx'[t]) : i \in Idx(x) /\ tx'[t].journal[i] = x.journal[i]
  BY <1>3, <1>4, <1>5 DEF Idx, s
<1>7. server' = server /\ author' = author
  BY DEF ServerSame
<1>8. Dependents(t, tx'[t], author')
  BY <1>6, <1>7 DEF Dependents, Solo
<1>9. \A i \in Idx(tx'[t]) :
        LET f == tx'[t].journal[i] IN
        author'[f.object] = t =>
          Known(t, f, server') /\ ~(f.action = "update" /\ f.post = None)
  <2>1. \A i \in Idx(x) :
          LET f == x.journal[i] IN
          author[f.object] = t =>
            Known(t, f, server) /\ ~(f.action = "update" /\ f.post = None)
    BY DEF Solo
  <2> QED BY <1>6, <1>7, <2>1
<1> QED BY <1>4, <1>8, <1>9 DEF Solo, Known, Dependents

\* What is said of an adapter that is alone, before its step.
Lonely(t) ==
  /\ IseInv /\ TraceInv /\ Linked(server) /\ Linked(initial)
  /\ Trace(t, tx[t], server, author) /\ Solo(t, tx[t], server, author)

\* A written object is there, with the id the entry has.
LEMMA KnownThere ==
  ASSUME NEW t \in Txns, NEW e \in Items, ServerOK, Known(t, e, server)
  PROVE  /\ server[e.object] # Absent
         /\ e.id \in Nat \ {0}
         /\ ById(e.object, e.id) = server[e.object]
         /\ server[e.object].id = e.id
         /\ server[e.object].value = Want[t][e.object]
<1>1. server[e.object] \in Incarnations /\ Want[t][e.object] \in Values
  BY WantAssumption DEF ServerOK, Items
<1>2. server[e.object] # Absent
  BY <1>1, WantAssumption DEF Known, Absent
<1> QED BY <1>1, <1>2 DEF Known, Incarnations, ById

LEMMA CheckSolo ==
  ASSUME NEW t \in Txns, Lonely(t), Check(t)
  PROVE  Solo(t, tx[t], server, author)'
<1> DEFINE x == tx[t]
           y == tx'[t]
           e == NewEntry(t)
           n == Len(x.journal)
<1>1. /\ tx \in [Txns -> Local] /\ x \in Local /\ x.journal \in Seq(Items)
      /\ ServerSame /\ x.pc = "apply" /\ n \in Nat /\ IseInv /\ ServerOK
      /\ Solo(t, x, server, author)
  BY Typed DEF Lonely, Check
<1>2. CASE Goto(t, "failed")
  BY <1>1, <1>2, SoloGoto DEF PCs
<1>3. CASE tx' = [tx EXCEPT ![t].pos = NextPos(t),
                            ![t].pc  = NextPc(t, "apply", "applied")]
  <2>1. /\ y.journal = x.journal /\ y.failed = x.failed
        /\ y.pc = NextPc(t, "apply", "applied")
    BY <1>1, <1>3 DEF Local
  <2> QED BY <1>1, <2>1, SoloQuiet DEF NextPc
<1>4. CASE tx' = [tx EXCEPT ![t].journal = Journaled(t), ![t].pc = "send"]
  <2>1. /\ y.journal = Append(x.journal, e) /\ y.failed = x.failed /\ y.pc = "send"
    BY <1>1, <1>4 DEF Local, Journaled
  <2>2. /\ author[e.object] # t /\ e.post = None /\ e.action = Action(t).kind
        /\ e.object = Object(t) /\ Object(t) \in Objects
    BY <1>1, NotYetOurs, PlanTyped DEF NewEntry
  <2> HIDE DEF e
  <2>3. /\ Len(y.journal) = n + 1
        /\ \A i \in 1..n : y.journal[i] = x.journal[i]
        /\ y.journal[n + 1] = e
    BY <1>1, <2>1
  <2>4. server' = server /\ author' = author
    BY <1>1 DEF ServerSame
  <2>5. \A i \in Idx(y) : i \in Idx(x) \/ i = n + 1
    BY <1>1, <2>3 DEF Idx
  <2>6. Idx(x) = 1..n
    BY DEF Idx
  <2> HIDE DEF n, x, y
  <2>7. \A i \in Idx(x) :
          LET f == x.journal[i] IN
          author[f.object] = t =>
            Known(t, f, server) /\ ~(f.action = "update" /\ f.post = None)
    BY <1>1 DEF Solo
  <2>8. \A i \in Idx(y) :
          LET f == y.journal[i] IN
          author[f.object] = t =>
            Known(t, f, server) /\ ~(f.action = "update" /\ f.post = None)
    BY <2>2, <2>3, <2>5, <2>6, <2>7
  <2>9. ASSUME NEW j \in Idx(x), author[x.journal[j].object] = t,
               e.action = "create", e.object \in RefsOf[x.journal[j].object]
        PROVE  FALSE
    <3>1. server[e.object] = Absent
      <4>1. e.action = "create" BY <2>9
      <4> HIDE DEF e
      <4> QED BY <2>2, <4>1 DEF Lonely, Trace, Origin, Action
    <3>2. x.journal[j] \in Items
      BY <1>1, ElementOfSeq, <2>6 DEF n
    <3>3. server[x.journal[j].object] # Absent
      BY <1>1, <2>7, <2>9, <3>2, KnownThere
    <3> QED BY <2>9, <3>1, <3>2, <3>3 DEF Lonely, Linked, Items
  <2>10. Dependents(t, y, author)
    <3> SUFFICES ASSUME NEW i \in Idx(y), NEW j \in Idx(y),
                        y.journal[i].action = "create",
                        author[y.journal[j].object] = t,
                        y.journal[i].object \in RefsOf[y.journal[j].object]
                 PROVE  i < j
      BY DEF Dependents
    <3>1. j \in Idx(x) /\ y.journal[j] = x.journal[j]
      BY <2>2, <2>3, <2>5, <2>6
    <3>2. i \in Idx(x) /\ y.journal[i] = x.journal[i]
      BY <2>3, <2>5, <2>6, <2>9, <3>1
    <3> QED BY <1>1, <3>1, <3>2 DEF Solo, Dependents
  <2>11. Solo(t, y, server, author)
    BY <1>1, <2>1, <2>2, <2>3, <2>8, <2>10 DEF Solo, x, y
  <2> QED BY <2>4, <2>11 DEF Solo, Known, Dependents, Idx, y
<1> QED BY <1>2, <1>3, <1>4 DEF Check

\* The entry of the write under way is the only one of its object.
LEMMA CurrentEntry ==
  ASSUME IseInv, NEW t \in Txns, tx[t].pc \in {"send", "verify"}
  PROVE  LET x == tx[t]
             n == Len(x.journal)
         IN
         /\ n \in Nat /\ n > 0 /\ n \in Idx(x) /\ Entry(t) = x.journal[n]
         /\ Entry(t) \in Items /\ Entry(t).object = Object(t)
         /\ Entry(t).action = Action(t).kind /\ Entry(t).pre = Action(t).pre
         /\ tx[t].pc = "send" => Entry(t).id = Action(t).id
         /\ \A i \in Idx(x) : i # n => i < n /\ x.journal[i].object # Object(t)
<1> DEFINE x == tx[t]
           n == Len(x.journal)
<1>1. Good(t, x, server, author) /\ x.journal \in Seq(Items)
  BY Typed
<1>2. n > 0
  BY <1>1 DEF Good, Fresh, Busy
<1>3. /\ Entry(t) = x.journal[n] /\ n \in 1..n /\ Entry(t) \in Items
  BY <1>2, EntryOK
<1>4. ASSUME NEW i \in Idx(x), i # n
      PROVE  i < n /\ x.journal[i].object # Object(t)
  <2>1. i \in 1..(n - 1)
    BY <1>1, <1>4 DEF Idx
  <2>2. Behind(t, x, i)
    BY <1>1, <2>1 DEF Good, Fresh
  <2> QED BY <1>1, <2>1, <2>2, Elsewhere DEF Good, Object
<1> QED BY <1>1, <1>2, <1>3, <1>4 DEF Good, Fresh, Idx, Object, Action

\* The current object is written as it should be: author and server change at
\* that object only, and the last entry knows.
LEMMA SoloWritten ==
  ASSUME NEW t \in Txns, Lonely(t), tx[t].pc = "send",
         NEW e, tx'[t].pc = "verify", tx'[t].failed = tx[t].failed,
         Len(tx'[t].journal) = Len(tx[t].journal),
         \A i \in Idx(tx[t]) : tx'[t].journal[i] =
           IF i = Len(tx[t].journal) THEN e ELSE tx[t].journal[i],
         e.object = Object(t), e.action = Action(t).kind,
         e.action \in Writes, e.post = None,
         server'[Object(t)] = [id |-> e.id, value |-> Want[t][Object(t)]],
         author'[Object(t)] = t,
         \A o \in Objects : o # Object(t) =>
           server'[o] = server[o] /\ author'[o] = author[o],
         \A i \in Idx(tx[t]) :
           tx[t].journal[i].action = "create" =>
             tx[t].journal[i].object \notin RefsOf[Object(t)]
             \/ i < Len(tx[t].journal)
  PROVE  Solo(t, tx[t], server, author)'
<1> DEFINE x == tx[t]
           y == tx'[t]
           n == Len(x.journal)
<1>1. /\ IseInv /\ Solo(t, x, server, author) /\ Idx(y) = Idx(x)
      /\ x.journal \in Seq(Items)
  BY Typed DEF Lonely, Idx
<1>2. /\ n \in Nat /\ n \in Idx(x) /\ x.journal[n].object = Object(t)
      /\ x.journal[n].action = Action(t).kind
      /\ \A i \in Idx(x) : i # n => i < n /\ x.journal[i].object # Object(t)
  BY <1>1, CurrentEntry
<1>3. \A i \in Idx(x) : x.journal[i].object \in Objects
  <2>1. \A i \in Idx(x) : x.journal[i] \in Items
    BY <1>1, ElementOfSeq DEF Idx
  <2> QED BY <2>1 DEF Items
<1>4. \A i \in Idx(x) : y.journal[i] = IF i = n THEN e ELSE x.journal[i]
  OBVIOUS
<1>5. /\ y.pc = "verify" /\ Len(y.journal) = n /\ y.failed = x.failed
  OBVIOUS
<1> HIDE DEF x, y, n
<1>6. \A i \in Idx(x) :
        LET f == x.journal[i] IN
        author[f.object] = t =>
          Known(t, f, server) /\ ~(f.action = "update" /\ f.post = None)
  <2>1. x.pc = "send"
    BY DEF x
  <2> QED BY <1>1, <2>1 DEF Solo
<1>7. ASSUME NEW i \in Idx(y), author'[y.journal[i].object] = t
      PROVE  /\ Known(t, y.journal[i], server')
             /\ y.journal[i].action = "update" /\ y.journal[i].post = None =>
                  y.pc = "verify" /\ i = Len(y.journal)
  <2>1. CASE i = n
    BY <1>1, <1>4, <1>5, <2>1 DEF Known
  <2>2. CASE i # n
    <3>1. /\ i \in Idx(x) /\ y.journal[i] = x.journal[i]
          /\ x.journal[i].object \in Objects /\ x.journal[i].object # Object(t)
      BY <1>1, <1>2, <1>3, <1>4, <2>2
    <3>2. /\ Known(t, x.journal[i], server)
          /\ ~(x.journal[i].action = "update" /\ x.journal[i].post = None)
      BY <1>6, <1>7, <3>1
    <3> QED BY <3>1, <3>2 DEF Known
  <2> QED BY <2>1, <2>2
<1>8. \A i \in Idx(x) : /\ y.journal[i].object = x.journal[i].object
                        /\ y.journal[i].action = x.journal[i].action
  BY <1>2, <1>4
<1>9. Dependents(t, y, author')
  <2> SUFFICES ASSUME NEW i \in Idx(x), NEW j \in Idx(x),
                      x.journal[i].action = "create",
                      author'[x.journal[j].object] = t,
                      x.journal[i].object \in RefsOf[x.journal[j].object]
               PROVE  i < j
    BY <1>1, <1>8 DEF Dependents
  <2>1. CASE j = n
    BY <1>2, <2>1 DEF x, n
  <2>2. CASE j # n
    BY <1>1, <1>2, <1>3, <2>2 DEF Solo, Dependents
  <2> QED BY <2>1, <2>2
<1>10. author'[y.journal[Len(y.journal)].object] = t
  BY <1>2, <1>4, <1>5
<1>11. ~y.failed
  BY <1>1, <1>5 DEF Solo
<1> QED BY <1>5, <1>7, <1>9, <1>10, <1>11 DEF Solo, Known, Dependents, Idx, y

LEMMA PostSolo ==
  ASSUME NEW t \in Txns, Lonely(t), Post(t), ~Fault
  PROVE  Solo(t, tx[t], server, author)'
<1> DEFINE x == tx[t]
           y == tx'[t]
           o == Object(t)
           n == Len(x.journal)
<1>1. /\ tx \in [Txns -> Local] /\ x \in Local /\ x.journal \in Seq(Items)
      /\ IseInv /\ ServerOK /\ o \in Objects
      /\ x.pc = "send" /\ Action(t).kind = "create"
      /\ Solo(t, x, server, author)
  BY Typed, PlanTyped DEF Lonely, Post, At
<1>2. /\ n \in Nat /\ n > 0 /\ n \in Idx(x) /\ Entry(t) = x.journal[n]
      /\ Entry(t) \in Items /\ Entry(t).object = o
      /\ Entry(t).action = "create" /\ Entry(t).post = None
      /\ \A i \in Idx(x) : i # n => i < n
  BY <1>1, CurrentEntry DEF Solo
<1>3. CASE WriteRefused(t)
  BY <1>1, <1>3, SoloGoto DEF WriteRefused, PCs
<1>4. CASE /\ Creatable(o) /\ Created(o, Want[t][o], t)
           /\ tx' = [tx EXCEPT ![t].journal = WithId(t, lastId[o] + 1),
                               ![t].pc = "verify"]
  <2> DEFINE e == [Entry(t) EXCEPT !.id = lastId[o] + 1]
  <2>1. /\ y.journal = WithLast(t, e) /\ y.failed = x.failed /\ y.pc = "verify"
    BY <1>1, <1>4 DEF Local, WithId
  <2>2. /\ e.object = o /\ e.action = "create" /\ e.post = None
        /\ e.id = lastId[o] + 1
    BY <1>2 DEF Items
  <2> HIDE DEF e
  <2>3. /\ Len(y.journal) = n
        /\ \A i \in Idx(x) : y.journal[i] = IF i = n THEN e ELSE x.journal[i]
    <3>1. y.journal = [x.journal EXCEPT ![n] = e]
      BY <2>1 DEF WithLast
    <3>2. DOMAIN y.journal = DOMAIN x.journal
      BY <3>1
    <3> QED BY <1>1, <1>2, <3>1, <3>2, LenProperties DEF Idx
  <2>4. /\ server'[o] = [id |-> e.id, value |-> Want[t][o]] /\ author'[o] = t
        /\ \A q \in Objects : q # o => server'[q] = server[q] /\ author'[q] = author[q]
    BY <1>1, <1>4, <2>2 DEF Created, ServerOK
  <2>5. \A i \in Idx(x) : x.journal[i].object \notin RefsOf[o] \/ i < n
    BY <1>2, <1>4 DEF Creatable
  <2> QED BY <1>1, <2>1, <2>2, <2>3, <2>4, <2>5, SoloWritten DEF Writes
<1> QED BY <1>3, <1>4, WantAssumption DEF Post, Stores, WriteRefused

LEMMA PutSolo ==
  ASSUME NEW t \in Txns, Lonely(t), Put(t), ~Fault
  PROVE  Solo(t, tx[t], server, author)'
<1> DEFINE x == tx[t]
           y == tx'[t]
           o == Object(t)
           n == Len(x.journal)
<1>1. /\ tx \in [Txns -> Local] /\ x \in Local /\ x.journal \in Seq(Items)
      /\ IseInv /\ ServerOK /\ o \in Objects
      /\ x.pc = "send" /\ Action(t).kind = "update"
      /\ Solo(t, x, server, author)
  BY Typed, PlanTyped DEF Lonely, Put, At
<1>2. /\ n \in Nat /\ n > 0 /\ n \in Idx(x) /\ Entry(t) = x.journal[n]
      /\ Entry(t) \in Items /\ Entry(t).object = o
      /\ Entry(t).action = "update" /\ Entry(t).post = None
      /\ Entry(t).id = Action(t).id
      /\ \A i \in Idx(x) : i # n => i < n
  BY <1>1, CurrentEntry DEF Solo
<1>3. CASE WriteRefused(t)
  BY <1>1, <1>3, SoloGoto DEF WriteRefused, PCs
<1>4. CASE /\ ById(o, Action(t).id) # Absent
           /\ Replaced(o, Want[t][o], Mark(t, Want[t][o])) /\ Goto(t, "verify")
  <2>1. /\ y.journal = x.journal /\ y.failed = x.failed /\ y.pc = "verify"
    BY <1>1, <1>4 DEF Local, Goto
  <2>2. Mark(t, Want[t][o]) = t
    BY <1>1 DEF Mark, Lonely, Trace, Action
  <2>3. server[o].id = Entry(t).id /\ server[o] \in [id : Nat \ {0}, value : Values]
    BY <1>1, <1>2, <1>4 DEF ById, ServerOK, Incarnations
  <2>4. /\ server'[o] = [id |-> Entry(t).id, value |-> Want[t][o]] /\ author'[o] = t
        /\ \A q \in Objects : q # o => server'[q] = server[q] /\ author'[q] = author[q]
    BY <1>1, <1>4, <2>2, <2>3 DEF Replaced, ServerOK
  <2>5. ASSUME NEW i \in Idx(x), x.journal[i].action = "create",
               x.journal[i].object \in RefsOf[o]
        PROVE  FALSE
    <3>1. initial[x.journal[i].object] = Absent
      BY <2>5, UpdateEntry DEF Lonely, TraceInv
    <3>2. initial[o] = [id |-> Action(t).id, value |-> Action(t).pre]
      BY <1>1 DEF Lonely, Trace, Origin, Action
    <3>3. initial[o] # Absent
      BY <1>2, <2>3, <3>2 DEF Absent
    <3> QED BY <1>1, <2>5, <3>1, <3>3 DEF Lonely, Linked
  <2>6. /\ Len(y.journal) = n
        /\ \A i \in Idx(x) : y.journal[i] = IF i = n THEN Entry(t) ELSE x.journal[i]
    BY <1>2, <2>1
  <2> QED BY <1>1, <1>2, <2>1, <2>4, <2>5, <2>6, SoloWritten DEF Writes
<1> QED BY <1>3, <1>4, WantAssumption DEF Put, Stores, WriteRefused

LEMMA VerifySolo ==
  ASSUME NEW t \in Txns, Lonely(t), Verify(t)
  PROVE  Solo(t, tx[t], server, author)'
<1> DEFINE x == tx[t]
           y == tx'[t]
           o == Object(t)
           n == Len(x.journal)
           e == Entry(t)
           found == ById(o, e.id)
           e2 == [e EXCEPT !.post = Want[t][o]]
<1>1. /\ tx \in [Txns -> Local] /\ x \in Local /\ x.journal \in Seq(Items)
      /\ IseInv /\ ServerOK /\ x.pc = "verify" /\ ServerSame
      /\ Solo(t, x, server, author)
  BY Typed DEF Lonely, Verify
<1>2. /\ n \in Nat /\ n > 0 /\ n \in Idx(x) /\ e = x.journal[n]
      /\ e \in Items /\ e.object = o
      /\ \A i \in Idx(x) : i # n => i < n /\ x.journal[i].object # o
  BY <1>1, CurrentEntry
<1>3. Known(t, e, server) /\ author[o] = t
  BY <1>1, <1>2 DEF Solo
<1>4. found # Absent /\ Confirmed(t, found) /\ found.value = Want[t][o]
  BY <1>1, <1>2, <1>3, KnownThere DEF Confirmed
<1>5. tx' = [tx EXCEPT ![t].journal = WithLast(t, e2),
                       ![t].pos = NextPos(t),
                       ![t].pc  = NextPc(t, "apply", "applied")]
  BY <1>4 DEF Verify, WithPost
<1>6. /\ y.journal = WithLast(t, e2) /\ y.failed = x.failed
      /\ y.pc \in {"apply", "applied"}
  BY <1>1, <1>5 DEF Local, NextPc
<1>7. /\ e2.object = o /\ e2.action = e.action /\ e2.post = Want[t][o]
      /\ e2.id = e.id
  BY <1>2 DEF Items
<1>8. Want[t][o] # None
  BY <1>1, PlanTyped, WantAssumption
<1>9. server' = server /\ author' = author
  BY <1>1 DEF ServerSame
<1> HIDE DEF e2
<1>10. /\ Len(y.journal) = n
       /\ \A i \in Idx(x) : y.journal[i] = IF i = n THEN e2 ELSE x.journal[i]
  <2>1. y.journal = [x.journal EXCEPT ![n] = e2]
    BY <1>6 DEF WithLast
  <2>2. DOMAIN y.journal = DOMAIN x.journal
    BY <2>1
  <2> QED BY <1>1, <1>2, <2>1, <2>2, LenProperties DEF Idx
<1>11. Idx(y) = Idx(x)
  BY <1>10 DEF Idx
<1> HIDE DEF x, y, n, e, o
<1>12. ASSUME NEW i \in Idx(x), author[y.journal[i].object] = t
       PROVE  /\ Known(t, y.journal[i], server)
              /\ ~(y.journal[i].action = "update" /\ y.journal[i].post = None)
  <2>1. CASE i = n
    BY <1>2, <1>3, <1>7, <1>8, <1>10, <2>1 DEF Known
  <2>2. CASE i # n
    BY <1>1, <1>10, <1>12, <2>2 DEF Solo, n
  <2> QED BY <2>1, <2>2
<1>13. \A i \in Idx(x) : /\ y.journal[i].object = x.journal[i].object
                         /\ y.journal[i].action = x.journal[i].action
  BY <1>2, <1>7, <1>10
<1>14. Dependents(t, y, author)
  BY <1>1, <1>11, <1>13 DEF Solo, Dependents
<1>15. Solo(t, y, server, author)
  BY <1>1, <1>6, <1>11, <1>12, <1>14 DEF Solo
<1> QED BY <1>9, <1>15 DEF Solo, Known, Dependents, Idx, y

\* What the entry being undone tells about its object.
LEMMA LastEntry ==
  ASSUME NEW t \in Txns, Lonely(t), Len(tx[t].journal) > 0,
         tx[t].pc \in {"unwind", "undo", "undone"}
  PROVE  LET e == Entry(t)
             n == Len(tx[t].journal)
         IN
         /\ e \in Items /\ e = tx[t].journal[n] /\ n \in Idx(tx[t])
         /\ server[e.object] \in Incarnations
         /\ e.action \in Writes
         /\ e.action = "create" => e.pre = None /\ initial[e.object] = Absent
         /\ e.action = "update" =>
              /\ e.pre \in Values /\ e.id \in Nat \ {0}
              /\ initial[e.object] = [id |-> e.id, value |-> e.pre]
         /\ author[e.object] # t => server[e.object] = initial[e.object]
         /\ author[e.object] = t =>
              Known(t, e, server) /\ ~(e.action = "update" /\ e.post = None)
<1> DEFINE e == Entry(t)
           n == Len(tx[t].journal)
<1>1. IseInv /\ e \in Items /\ e = tx[t].journal[n] /\ n \in Idx(tx[t])
  BY EntryOK DEF Idx, Lonely
<1>2. server[e.object] \in Incarnations
  BY <1>1 DEF IseInv, ServerOK, Items
<1>3. e.action \in Writes /\ (author[e.object] # t => server[e.object] = initial[e.object])
  BY <1>1 DEF Lonely, Trace, Items
<1>4. author[e.object] = t =>
        Known(t, e, server) /\ ~(e.action = "update" /\ e.post = None)
  BY <1>1 DEF Lonely, Solo
<1>5. /\ e.action = "create" => e.pre = None /\ initial[e.object] = Absent
      /\ e.action = "update" =>
              /\ e.pre \in Values /\ e.id \in Nat \ {0}
              /\ initial[e.object] = [id |-> e.id, value |-> e.pre]
  BY <1>1, UpdateEntry DEF Lonely, TraceInv
<1> QED BY <1>1, <1>2, <1>3, <1>4, <1>5

LEMMA UnwindSolo ==
  ASSUME NEW t \in Txns, Lonely(t), Unwind(t), ~Fault
  PROVE  Solo(t, tx[t], server, author)'
<1> DEFINE x == tx[t]
           y == tx'[t]
           e == Entry(t)
           n == Len(x.journal)
<1>1. /\ tx \in [Txns -> Local] /\ x \in Local /\ x.journal \in Seq(Items)
      /\ IseInv /\ ServerOK /\ ServerSame /\ x.pc = "unwind" /\ n > 0
      /\ Solo(t, x, server, author)
  BY Typed, EmptySeq DEF Lonely, Unwind
<1>2. /\ e \in Items /\ e = x.journal[n] /\ n \in Idx(x)
      /\ server[e.object] \in Incarnations
      /\ e.action \in Writes
      /\ e.action = "create" => e.pre = None /\ initial[e.object] = Absent
      /\ e.action = "update" =>
           /\ e.pre \in Values /\ e.id \in Nat \ {0}
           /\ initial[e.object] = [id |-> e.id, value |-> e.pre]
      /\ author[e.object] # t => server[e.object] = initial[e.object]
      /\ author[e.object] = t =>
           Known(t, e, server) /\ ~(e.action = "update" /\ e.post = None)
  BY <1>1, LastEntry
<1> HIDE DEF e
<1>3. CASE AlreadyUndone(e) /\ EntryEnds(t, TRUE)
  BY <1>1, <1>3, SoloDrop
<1>4. ASSUME ~AlreadyUndone(e)
      PROVE  /\ author[e.object] = t
             /\ Found(e) = server[e.object] /\ Found(e).id = e.id
             /\ MayUndo(t, e)
  <2>1. author[e.object] = t
    <3>1. SUFFICES ASSUME author[e.object] # t
                   PROVE  FALSE
      OBVIOUS
    <3>2. server[e.object] = initial[e.object]
      BY <1>2, <3>1
    <3>3. CASE e.action = "create"
      BY <1>2, <1>4, <3>2, <3>3 DEF AlreadyUndone, Found, ById
    <3>4. CASE e.action = "update"
      BY <1>2, <1>4, <3>2, <3>4 DEF AlreadyUndone, Found, ById, Absent
    <3> QED BY <1>2, <3>3, <3>4 DEF Writes
  <2>2. /\ server[e.object] # Absent
        /\ e.id \in Nat \ {0}
        /\ ById(e.object, e.id) = server[e.object]
        /\ server[e.object].id = e.id
        /\ server[e.object].value = Want[t][e.object]
    BY <1>1, <1>2, <2>1, KnownThere
  <2>3. Want[t][e.object] \notin Foreign
    BY <1>2, MarkerAssumption DEF Items
  <2>4. e.post \in {None, Want[t][e.object]}
    BY <1>2, <2>1 DEF Known
  <2> QED BY <1>2, <2>1, <2>2, <2>3, <2>4 DEF Found, MayUndo, Owned, Writes
<1>5. CASE /\ ~AlreadyUndone(e)
           /\ tx' = [tx EXCEPT ![t].journal = WithId(t, Found(e).id),
                               ![t].pc = "undo"]
  <2>1. WithId(t, Found(e).id) = x.journal
    <3>1. [e EXCEPT !.id = Found(e).id] = e
      BY <1>2, <1>4, <1>5 DEF Items
    <3>2. WithId(t, Found(e).id) = [x.journal EXCEPT ![n] = e]
      BY <3>1 DEF WithId, WithLast, e
    <3>3. [x.journal EXCEPT ![n] = e] = x.journal
      BY <1>1, <1>2 DEF Idx
    <3> QED BY <3>2, <3>3
  <2>2. y.journal = x.journal /\ y.pc = "undo" /\ y.failed = x.failed
    BY <1>1, <1>5, <2>1 DEF Local
  <2>3. server' = server /\ author' = author
    BY <1>1 DEF ServerSame
  <2>4. x.pc = "unwind" /\ author[x.journal[n].object] = t /\ Len(x.journal) = n
    BY <1>1, <1>2, <1>4, <1>5
  <2> HIDE DEF x, y, n
  <2>5. Idx(y) = Idx(x) /\ Dependents(t, y, author)
    BY <1>1, <2>2 DEF Solo, Dependents, Idx
  <2>6. Solo(t, y, server, author)
    BY <1>1, <2>2, <2>4, <2>5 DEF Solo
  <2> USE DEF y
  <2> QED BY <2>3, <2>6 DEF Solo, Known, Dependents, Idx
<1> QED BY <1>3, <1>4, <1>5 DEF Unwind, e

\* No cell refers to what the last entry made: the adapter's own cells come
\* later in the journal, and the others were not there.
LEMMA NoDependents ==
  ASSUME NEW t \in Txns, Lonely(t), tx[t].pc = "undo", Len(tx[t].journal) > 0,
         Entry(t).action = "create"
  PROVE  ~Referenced(Entry(t).object)
<1> DEFINE e == Entry(t)
           n == Len(tx[t].journal)
<1>1. /\ e \in Items /\ e = tx[t].journal[n] /\ n \in Idx(tx[t])
      /\ initial[e.object] = Absent
  BY LastEntry
<1>2. tx[t].journal \in Seq(Items) /\ n \in Nat
  BY Typed DEF Lonely
<1> HIDE DEF e, n
<1> SUFFICES ASSUME NEW c \in Objects, e.object \in RefsOf[c], server[c] # Absent
             PROVE  FALSE
  BY DEF Referenced, e
<1>3. CASE author[c] = t
  <2>1. Good(t, tx[t], server, author) /\ ~tx[t].failed
    BY Typed DEF Lonely, Solo
  <2>2. PICK j \in Idx(tx[t]) : tx[t].journal[j].object = c
    BY <1>3, <2>1 DEF Good, Covered
  <2>3. n < j
    BY <1>1, <1>3, <2>2 DEF Lonely, Solo, Dependents, e
  <2> QED BY <1>2, <2>2, <2>3 DEF Idx, n
<1>4. CASE author[c] # t
  <2>1. server[c] = initial[c]
    BY <1>4 DEF Lonely, Trace
  <2> QED BY <1>1, <2>1 DEF Lonely, Linked
<1> QED BY <1>3, <1>4

LEMMA UndoSolo ==
  ASSUME NEW t \in Txns, Lonely(t), Undo(t), ~Fault
  PROVE  Solo(t, tx[t], server, author)'
<1> DEFINE x == tx[t]
           y == tx'[t]
           e == Entry(t)
           n == Len(x.journal)
<1>1. /\ tx \in [Txns -> Local] /\ x \in Local /\ x.journal \in Seq(Items)
      /\ IseInv /\ ServerOK /\ x.pc = "undo" /\ n > 0
      /\ Solo(t, x, server, author)
  BY Typed DEF Lonely, Undo, Good, Fresh, Busy
<1>2. /\ e \in Items /\ e = x.journal[n] /\ n \in Idx(x)
      /\ author[e.object] = t /\ Known(t, e, server)
  BY <1>1, LastEntry DEF Solo
<1>3. Undoable(e)
  <2>1. ById(e.object, e.id) # Absent
    BY <1>1, <1>2, KnownThere
  <2> QED BY <1>1, <2>1, NoDependents DEF Undoable
<1>4. /\ Deleted(e.object, None) \/ Replaced(e.object, e.pre, None)
      /\ Goto(t, "undone")
  BY <1>3 DEF Undo
<1> HIDE DEF e
<1>5. /\ author'[e.object] # t
      /\ \A q \in Objects : q # e.object => server'[q] = server[q] /\ author'[q] = author[q]
  BY <1>1, <1>2, <1>4, WantAssumption DEF Deleted, Replaced, ServerOK, Items
<1>6. y.journal = x.journal /\ y.pc = "undone" /\ y.failed = x.failed
  BY <1>1, <1>4 DEF Local, Goto
<1>7. \A i \in Idx(x) : x.journal[i].object \in Objects
  <2>1. \A i \in Idx(x) : x.journal[i] \in Items
    BY <1>1, ElementOfSeq DEF Idx
  <2> QED BY <2>1 DEF Items
<1> HIDE DEF x, y, n
<1>8. \A i \in Idx(x) :
        LET f == x.journal[i] IN
        author'[f.object] = t =>
          /\ author[f.object] = t
          /\ Known(t, f, server')
          /\ ~(f.action = "update" /\ f.post = None)
  <2>1. \A i \in Idx(x) : author'[x.journal[i].object] = t =>
          /\ author[x.journal[i].object] = t
          /\ server'[x.journal[i].object] = server[x.journal[i].object]
    BY <1>5, <1>7
  <2> QED BY <1>1, <2>1 DEF Solo, Known
<1>9. Dependents(t, x, author')
  BY <1>1, <1>8 DEF Solo, Dependents
<1>10. ~y.failed
  BY <1>1, <1>6 DEF Solo
<1>11. /\ author'[y.journal[Len(y.journal)].object] # t
       /\ Idx(y) = Idx(x) /\ Dependents(t, y, author')
  BY <1>2, <1>5, <1>6, <1>9 DEF Dependents, Idx, n
<1>12. \A i \in Idx(y) :
         LET f == y.journal[i] IN
         author'[f.object] = t =>
           Known(t, f, server') /\ ~(f.action = "update" /\ f.post = None)
  BY <1>6, <1>8, <1>11
<1> QED BY <1>6, <1>10, <1>11, <1>12 DEF Solo, Known, Dependents, Idx, y

LEMMA UndoneSolo ==
  ASSUME NEW t \in Txns, Lonely(t), Undone(t), ~Fault
  PROVE  Solo(t, tx[t], server, author)'
<1> DEFINE x == tx[t]
           e == Entry(t)
           n == Len(x.journal)
<1>1. /\ IseInv /\ x.pc = "undone" /\ n > 0 /\ ServerSame
      /\ Solo(t, x, server, author)
  BY Typed DEF Lonely, Undone, Good, Fresh, Busy
<1>2. /\ e = x.journal[n] /\ author[e.object] # t
  BY <1>1, LastEntry DEF Solo
<1>3. ById(e.object, e.id).value = e.pre
  <2>1. server[e.object] = initial[e.object]
    BY <1>1, <1>2, LastEntry
  <2>2. /\ e.action \in Writes
        /\ e.action = "create" => e.pre = None /\ initial[e.object] = Absent
        /\ e.action = "update" =>
             /\ e.pre \in Values /\ e.id \in Nat \ {0}
             /\ initial[e.object] = [id |-> e.id, value |-> e.pre]
    BY <1>1, LastEntry
  <2> HIDE DEF e
  <2>3. CASE e.action = "create"
    BY <2>1, <2>2, <2>3 DEF ById, Absent
  <2>4. CASE e.action = "update"
    BY <2>1, <2>2, <2>4 DEF ById
  <2> QED BY <2>2, <2>3, <2>4 DEF Writes
<1>4. EntryEnds(t, TRUE)
  BY <1>3 DEF Undone
<1> QED BY <1>1, <1>4, SoloDrop

LEMMA SoloStep ==
  ASSUME NEW t \in Txns, Lonely(t), TxnStep(t), ~Fault
  PROVE  Solo(t, tx[t], server, author)'
<1>1. /\ tx \in [Txns -> Local] /\ tx[t] \in Local
      /\ IseInv /\ Solo(t, tx[t], server, author)
  BY Typed DEF Lonely
<1>2. CASE Prepare(t)
  <2>1. ASSUME NEW a,
               tx' = [tx EXCEPT ![t].plan = Planned(t, Object(t), a),
                                ![t].pos  = NextPos(t),
                                ![t].pc   = NextPc(t, "prepare", "prepared")]
        PROVE  /\ tx'[t].journal = tx[t].journal /\ tx'[t].failed = tx[t].failed
               /\ tx'[t].pc \in {"prepare", "prepared"}
    BY <1>1, <2>1 DEF Local, NextPc
  <2> QED BY <1>1, <1>2, <2>1, SoloQuiet, SoloGoto DEF Prepare, PCs, Ended
<1>3. CASE Reclassify(t)
  <2>1. ASSUME NEW p, tx' = [tx EXCEPT ![t].plan = p]
        PROVE  /\ tx'[t].journal = tx[t].journal /\ tx'[t].failed = tx[t].failed
               /\ tx'[t].pc = tx[t].pc
    BY <1>1, <2>1 DEF Local
  <2> QED BY <1>1, <1>3, <2>1, SoloQuiet, SoloGoto DEF Reclassify, At, PCs
<1>4. CASE Proceed(t) \/ Conclude(t)
  BY <1>1, <1>4, SoloGoto DEF Proceed, Conclude, PCs, Ended
<1>5. CASE Leave(t)
  <2>1. tx[t].pc = "failed" /\ ServerSame /\ tx'[t].journal = tx[t].journal
        /\ tx'[t].failed = tx[t].failed /\ tx'[t].pc \in {"clean", "unwind"}
    BY <1>1, <1>5 DEF Leave, Goto, Local, UnwindOrder
  <2> QED BY <1>1, <2>1, SoloQuiet
<1>6. CASE EndRollback(t)
  BY <1>1, <1>6, SoloGoto DEF EndRollback, Outcome, PCs, Ended
<1>7. CASE Recover(t) \/ ReadFails(t)
  BY <1>1, <1>7 DEF Recover, ReadFails, Solo
<1> QED BY <1>1, <1>2, <1>3, <1>4, <1>5, <1>6, <1>7, CheckSolo, PostSolo, PutSolo,
           VerifySolo, UnwindSolo, UndoSolo, UndoneSolo DEF TxnStep

LEMMA SoloInit == IseInit => SoloInv
<1> SUFFICES ASSUME IseInit  PROVE SoloInv
  OBVIOUS
<1>1. faults \in Nat /\ Linked(server) /\ Linked(initial)
  BY LinkAssumption DEF IseInit
<1>2. ASSUME NEW t \in Txns  PROVE Solo(t, tx[t], server, author)
  <2>1. tx[t].pc = "prepare" /\ ~tx[t].failed /\ Idx(tx[t]) = {}
    BY DEF IseInit, Idx
  <2> QED BY <2>1 DEF Solo, Dependents
<1> QED BY <1>1, <1>2 DEF SoloInv

LEMMA SoloNext ==
  IseInv /\ TraceInv /\ SoloInv /\ [IseNext]_iseVars => SoloInv'
<1> SUFFICES ASSUME IseInv, TraceInv, SoloInv, [IseNext]_iseVars  PROVE SoloInv'
  OBVIOUS
<1>1. faults' \in Nat /\ initial' = initial
  BY FaultsTyped DEF SoloInv, IseNext, TxnStep, Edit, iseVars
<1>2. Linked(server') /\ Linked(initial')
  BY <1>1, LinkedStep DEF SoloInv
<1>3. ASSUME NEW t \in Txns, faults' = 0, Alone(t)'
      PROVE  Solo(t, tx[t], server, author)'
  <2>1. Alone(t) /\ (TxnStep(t) \/ UNCHANGED iseVars)
    BY <1>3, AloneBefore DEF TraceInv
  <2>2. faults = 0 /\ ~Fault
    BY <1>3, FaultsTyped DEF SoloInv
  <2>3. Lonely(t)
    BY <2>1, <2>2 DEF SoloInv, TraceInv, Lonely
  <2>4. CASE TxnStep(t)
    BY <2>2, <2>3, <2>4, SoloStep
  <2>5. CASE UNCHANGED iseVars
    BY <2>3, <2>5 DEF iseVars, Lonely, Solo, Known, Dependents, Idx
  <2> QED BY <2>1, <2>4, <2>5
<1> QED BY <1>1, <1>2, <1>3 DEF SoloInv, Linked

LEMMA SoloInvariant == IseSpec => []SoloInv
BY JournalInvariant, TraceInvariant, SoloInit, SoloNext, PTL DEF IseSpec

\* As long as ISE answers, an adapter that is alone takes back all it wrote:
\* every object it undoes is as it left it, and no cell refers to it any more
\* (rollback walks the journal backwards, and a cell is written last).
THEOREM RollbackWorksHolds == IseSpec => []RollbackWorks
<1>1. SoloInv => RollbackWorks
  BY DEF SoloInv, RollbackWorks, Solo
<1> QED BY <1>1, SoloInvariant, PTL
=============================================================================
