----------------------- MODULE AllocationLedgerProofs -----------------------
(***************************************************************************)
(* No resource is held twice, for any policy, any designs and any number   *)
(* of sessions.  The two stores need different reasons: on SQLite nothing  *)
(* changes between what a session reads and what it writes, so what it has *)
(* allocated is still free; on PostgreSQL that is not so (a transition may *)
(* make a released reservation active again), and the constraints of the   *)
(* tables stop whoever comes second.                                       *)
(***************************************************************************)
EXTENDS AllocationLedger, TLAPS

SessionRecord ==
  [pc : PCs, call : Calls, taken : [Pools -> SUBSET Nat], last : Nat,
   allocs : Allocs, stale : BOOLEAN]

\* Nothing twice within one design, and nothing the policy keeps out.
Safe(A) ==
  \A i \in 1..Len(A) :
    /\ A[i].block \cap Excluded[A[i].pool] = {}
    /\ \A j \in 1..Len(A) :
         i # j /\ A[i].domain = A[j].domain /\ A[i].pool = A[j].pool
           => A[i].block \cap A[j].block = {}

\* What a session carries at each program counter.
Shaped ==
  \A s \in Sessions :
    /\ ~InTransaction(s) => sess[s] = Idle
    /\ InTransaction(s) =>
         Call(s).op \in {"reserve", "transition"} /\ Call(s).resv \in Reservations
    /\ Call(s).op = "reserve" =>
         /\ Call(s).req \in Designs /\ Call(s).key \in Keys
         /\ Call(s).to = "reserved" /\ sess[s].pc # "read"
    /\ Call(s).op = "transition" =>
         /\ Call(s).to \in {"committed", "released", "quarantined"}
         /\ sess[s].pc \in {"begun", "read", "written"}

\* Reservations that are being made are nobody else's.
ReservesFresh ==
  \A s \in Sessions : Call(s).op = "reserve" =>
    /\ resv[Call(s).resv] = NoResv
    /\ \A x \in Others(s) :
         Call(x).op = "reserve" => Call(x).resv # Call(s).resv

\* What is allocated so far answers the design and is safe.
Drafts ==
  \A s \in Sessions : Call(s).op = "reserve" =>
    /\ sess[s].pc \notin {"deriving", "written"} => sess[s].allocs = <<>>
    /\ Len(sess[s].allocs) <= Len(ItemsOf[Call(s).req])
    /\ sess[s].pc = "written" =>
         Len(sess[s].allocs) = Len(ItemsOf[Call(s).req])
    /\ \A i \in 1..Len(sess[s].allocs) :
         Answers(sess[s].allocs[i], ItemsOf[Call(s).req][i],
                 DomainOf[Call(s).req])
    /\ Safe(sess[s].allocs)

\* The snapshot holds the policy's part of a pool and, as long as nobody else
\* writes, what the active reservations hold.
Covers(s, p) ==
  /\ Excluded[p] \subseteq sess[s].taken[p]
  /\ backend = "sqlite" =>
       \A r \in Reservations : Holds(r) =>
         \A i \in 1..Len(resv[r].allocs) :
           /\ resv[r].allocs[i].domain = DomainOf[Call(s).req]
           /\ resv[r].allocs[i].pool = p
           => resv[r].allocs[i].block \subseteq sess[s].taken[p]

Snapshots ==
  \A s \in Sessions : Call(s).op = "reserve" =>
    /\ sess[s].pc = "networks" => \A p \in NetworkPools : Covers(s, p)
    /\ sess[s].pc = "deriving" =>
         /\ \A p \in Pools : Covers(s, p)
         /\ \A i \in 1..Len(sess[s].allocs) :
              sess[s].allocs[i].block \subseteq sess[s].taken[sess[s].allocs[i].pool]
         /\ backend = "sqlite" =>
              \A r \in Reservations :
                Holds(r) => ~Overlap(sess[s].allocs, resv[r].allocs)

\* What a transition read holds until its COMMIT, unless it was marked stale.
ReadsHold ==
  \A s \in Sessions :
    Call(s).op = "transition" /\ sess[s].pc \in {"read", "written"} =>
      /\ resv[Call(s).resv].state # "absent"
      /\ ~sess[s].stale => MoveAllowed(Call(s))

Apart(a, b) ==
  a.key # b.key /\ a.allocs # b.allocs /\ ~Overlap(a.allocs, b.allocs)

\* Active rows clash with each other on neither store.
RowsApart ==
  /\ \A r \in Reservations : resv[r].state # "absent" => Safe(resv[r].allocs)
  /\ \A q, r \in Reservations :
       q # r /\ Holds(q) /\ Holds(r) => Apart(resv[q], resv[r])

\* A row that was written clashes with no active row, nor with another row
\* that was written.
WritersApart ==
  \A s \in Sessions : Written(s) =>
    /\ Row(s).state \in Holding =>
         \A r \in Reservations \ {Call(s).resv} :
           Holds(r) => Apart(Row(s), resv[r])
    /\ \A x \in Others(s) : Written(x) =>
         Call(x).resv # Call(s).resv /\ Apart(Row(s), Row(x))

\* BEGIN IMMEDIATE.
OneWriter ==
  backend = "sqlite" =>
    /\ \A s, x \in Sessions : InTransaction(s) /\ InTransaction(x) => s = x
    /\ \A s \in Sessions : ~sess[s].stale

LedgerInv ==
  /\ LedgerTypeOK /\ Shaped /\ ReservesFresh /\ Drafts /\ Snapshots
  /\ ReadsHold /\ RowsApart /\ WritersApart /\ OneWriter

-----------------------------------------------------------------------------
LEMMA StateFacts ==
  /\ Store!ResvStates = {"reserved", "committed", "quarantined", "released"}
  /\ Store!ActiveResv = Holding
  /\ \A s \in Store!ResvStates : \A t \in Store!ResvMoves[s] :
       s \in Holding /\ t \in {"committed", "quarantined", "released"}
  BY DEF Store!ResvStates, Store!ActiveResv, Store!ResvMoves, Holding

LEMMA IdleFacts ==
  /\ Idle.pc = "idle" /\ Idle.call = NoCall /\ Idle.stale = FALSE
  /\ Idle.allocs = <<>> /\ NoCall.op = "none" /\ Idle \in SessionRecord
  BY DEF Idle, NoCall, SessionRecord, PCs, Calls, Allocs

LEMMA LedgerInitInv == LedgerInit => LedgerInv
<1> SUFFICES ASSUME LedgerInit PROVE LedgerInv
  OBVIOUS
<1>1. \A s \in Sessions : sess[s] = Idle
  BY DEF LedgerInit
<1>2. \A r \in Reservations : resv[r] = NoResv /\ resv[r].state = "absent"
  BY DEF LedgerInit, NoResv
<1>3. LedgerTypeOK
  <2>1. NoResv \in [state : Store!ResvStates \cup {"absent"}, key : Keys \cup {None},
                    req : Designs \cup {None}, allocs : Allocs]
    BY DEF NoResv, Allocs
  <2>2. sess \in [Sessions -> SessionRecord]
    BY IdleFacts DEF LedgerInit
  <2> QED
    BY <1>2, <2>1, <2>2 DEF LedgerInit, LedgerTypeOK, SessionRecord
<1>4. Shaped /\ ReservesFresh /\ Drafts /\ Snapshots /\ ReadsHold
  BY <1>1, IdleFacts DEF Shaped, ReservesFresh, Drafts, Snapshots, ReadsHold,
     InTransaction, Call
<1>5. RowsApart /\ WritersApart /\ OneWriter
  BY <1>1, <1>2, IdleFacts DEF RowsApart, WritersApart, OneWriter, Holds,
     Holding, Written, InTransaction
<1> QED
  BY <1>3, <1>4, <1>5 DEF LedgerInv

\* The other sessions do not notice a step that leaves the tables alone.
LEMMA OthersKeep ==
  ASSUME LedgerInv, NEW s \in Sessions, TablesSame,
         NEW x \in Sessions, sess'[x] = sess[x]
  PROVE  /\ Call(x)' = Call(x) /\ Row(x)' = Row(x)
         /\ Written(x)' <=> Written(x)
         /\ InTransaction(x)' <=> InTransaction(x)
         /\ \A p \in Pools : Covers(x, p)' <=> Covers(x, p)
         /\ MoveAllowed(Call(x))' <=> MoveAllowed(Call(x))
  BY DEF TablesSame, Call, Row, Written, InTransaction, Covers, Holds, MoveAllowed

LEMMA TablesKeep ==
  ASSUME TablesSame
  PROVE  /\ backend' = backend /\ resv' = resv
         /\ \A r \in Reservations : Holds(r)' <=> Holds(r)
         /\ RowsApart => RowsApart'
  BY DEF TablesSame, Holds, RowsApart

LEMMA AbortInv ==
  ASSUME LedgerInv, NEW s \in Sessions, Abort(s)
  PROVE  LedgerInv'
<1>1. \A x \in Sessions : sess'[x] = IF x = s THEN Idle ELSE sess[x]
  BY DEF LedgerInv, LedgerTypeOK, Abort
<1>2. TablesSame
  BY DEF Abort
<1>3. sess'[s] = Idle /\ \A x \in Sessions : x # s => sess'[x] = sess[x]
  BY <1>1
<1>4. LedgerTypeOK'
  <2>1. sess' \in [Sessions -> SessionRecord]
    BY IdleFacts DEF LedgerInv, LedgerTypeOK, SessionRecord, Abort
  <2> QED
    BY <1>2, <2>1, TablesKeep DEF LedgerInv, LedgerTypeOK, SessionRecord
<1>5. /\ Call(s)' = NoCall /\ ~Written(s)' /\ ~InTransaction(s)' /\ NoCall.op = "none"
      /\ sess'[s].stale = FALSE /\ sess'[s].pc = "idle"
  BY <1>3, IdleFacts DEF Call, Written, InTransaction
<1>6. \A x \in Sessions : x # s =>
        /\ Call(x)' = Call(x) /\ Row(x)' = Row(x)
        /\ Written(x)' <=> Written(x)
        /\ InTransaction(x)' <=> InTransaction(x)
        /\ \A p \in Pools : Covers(x, p)' <=> Covers(x, p)
        /\ MoveAllowed(Call(x))' <=> MoveAllowed(Call(x))
  BY <1>2, <1>3, OthersKeep
<1>7. Shaped' /\ ReservesFresh' /\ Drafts'
  BY <1>2, <1>3, <1>5, <1>6, TablesKeep DEF LedgerInv, Shaped, ReservesFresh, Drafts, Others
<1>8. Snapshots'
  BY <1>2, <1>3, <1>5, <1>6, TablesKeep DEF LedgerInv, Snapshots, Pools
<1>9. ReadsHold' /\ OneWriter'
  BY <1>2, <1>3, <1>5, <1>6, TablesKeep DEF LedgerInv, ReadsHold, OneWriter
<1>10. WritersApart'
  BY <1>2, <1>3, <1>5, <1>6, TablesKeep DEF LedgerInv, WritersApart, Others
<1> QED
  BY <1>2, <1>4, <1>7, <1>8, <1>9, <1>10, TablesKeep DEF LedgerInv

\* A statement that only moves s on keeps the invariant if s has, at its new
\* program counter, what the invariant wants of it there.
LEMMA AdvanceInv ==
  ASSUME LedgerInv, NEW s \in Sessions, InTransaction(s),
         NEW pc \in PCs, pc \notin {"idle", "networks", "deriving"},
         Goto(s, pc), TablesSame,
         Call(s).op = "reserve" =>
           /\ pc # "read"
           /\ pc = "written" <=> sess[s].pc = "deriving"
           /\ pc = "written" => Derived(s),
         Call(s).op = "transition" =>
           /\ pc \in {"read", "written"}
           /\ resv[Call(s).resv].state # "absent"
           /\ sess[s].stale \/ MoveAllowed(Call(s)),
         pc = "written" =>
           /\ Row(s).state \in Holding =>
                \A r \in Reservations \ {Call(s).resv} :
                  Holds(r) => Apart(Row(s), resv[r])
           /\ \A x \in Others(s) : Written(x) =>
                Call(x).resv # Call(s).resv
                  /\ Apart(Row(s), Row(x)) /\ Apart(Row(x), Row(s)),
         sess[s].pc # "written"
  PROVE  LedgerInv'
<1>1. \A x \in Sessions :
        sess'[x] = IF x = s THEN [sess[s] EXCEPT !.pc = pc] ELSE sess[x]
  BY DEF LedgerInv, LedgerTypeOK, Goto
<1>2. sess[s] \in SessionRecord
  BY DEF LedgerInv, LedgerTypeOK, SessionRecord
<1>3. /\ sess'[s].pc = pc /\ sess'[s].call = sess[s].call
      /\ sess'[s].taken = sess[s].taken /\ sess'[s].allocs = sess[s].allocs
      /\ sess'[s].stale = sess[s].stale /\ sess'[s] \in SessionRecord
      /\ \A x \in Sessions : x # s => sess'[x] = sess[x]
  BY <1>1, <1>2 DEF SessionRecord
<1>4. LedgerTypeOK'
  <2>1. sess' \in [Sessions -> SessionRecord]
    BY <1>2, <1>3 DEF LedgerInv, LedgerTypeOK, SessionRecord, Goto
  <2> QED
    BY <2>1, TablesKeep DEF LedgerInv, LedgerTypeOK, SessionRecord
<1>5. /\ Call(s)' = Call(s) /\ Row(s)' = Row(s) /\ InTransaction(s)'
      /\ Written(s)' <=> pc = "written"
      /\ MoveAllowed(Call(s))' <=> MoveAllowed(Call(s))
  BY <1>3, TablesKeep DEF Call, Row, InTransaction, Written, MoveAllowed
<1>6. \A x \in Sessions : x # s =>
        /\ Call(x)' = Call(x) /\ Row(x)' = Row(x)
        /\ Written(x)' <=> Written(x)
        /\ InTransaction(x)' <=> InTransaction(x)
        /\ \A p \in Pools : Covers(x, p)' <=> Covers(x, p)
        /\ MoveAllowed(Call(x))' <=> MoveAllowed(Call(x))
  BY <1>3, OthersKeep
<1>7. Shaped' /\ ReservesFresh'
  BY <1>3, <1>5, <1>6, TablesKeep DEF LedgerInv, Shaped, ReservesFresh, Others
<1>8. Drafts'
  <2>1. ASSUME Call(s).op = "reserve"
        PROVE  /\ pc # "written" => sess[s].allocs = <<>>
               /\ pc = "written" => Len(sess[s].allocs) = Len(ItemsOf[Call(s).req])
    BY <2>1 DEF LedgerInv, Drafts, Derived
  <2>2. \A x \in Sessions : Call(x)' = Call(x) /\ sess'[x].allocs = sess[x].allocs
    BY <1>3, <1>5, <1>6
  <2>3. \A x \in Sessions : x # s => sess'[x].pc = sess[x].pc
    BY <1>3
  <2>4. ASSUME NEW x \in Sessions, Call(x).op = "reserve"
        PROVE  /\ sess'[x].pc \notin {"deriving", "written"} =>
                    sess[x].allocs = <<>>
               /\ Len(sess[x].allocs) <= Len(ItemsOf[Call(x).req])
               /\ sess'[x].pc = "written" =>
                    Len(sess[x].allocs) = Len(ItemsOf[Call(x).req])
               /\ \A i \in 1..Len(sess[x].allocs) :
                    Answers(sess[x].allocs[i], ItemsOf[Call(x).req][i],
                            DomainOf[Call(x).req])
               /\ Safe(sess[x].allocs)
    <3>1. CASE x = s
      BY <1>3, <2>1, <2>4, <3>1 DEF LedgerInv, Drafts
    <3>2. CASE x # s
      BY <2>3, <2>4, <3>2 DEF LedgerInv, Drafts
    <3> QED BY <3>1, <3>2
  <2> QED BY <2>2, <2>4 DEF Drafts
<1>9. Snapshots'
  BY <1>3, <1>5, <1>6, TablesKeep DEF LedgerInv, Snapshots, Pools
<1>10. ReadsHold' /\ OneWriter'
  BY <1>3, <1>5, <1>6, TablesKeep DEF LedgerInv, ReadsHold, OneWriter
<1>11. WritersApart'
  BY <1>3, <1>5, <1>6, TablesKeep DEF LedgerInv, WritersApart, Others
<1> QED
  BY <1>4, <1>7, <1>8, <1>9, <1>10, <1>11, TablesKeep DEF LedgerInv

\* A statement that adds to the snapshot or to the design of s.
LEMMA DraftInv ==
  ASSUME LedgerInv, NEW s \in Sessions, InTransaction(s), TablesSame,
         LedgerTypeOK',
         \A x \in Sessions : x # s => sess'[x] = sess[x],
         Call(s).op = "reserve", sess[s].pc # "written",
         sess'[s].call = sess[s].call, sess'[s].stale = sess[s].stale,
         sess'[s].pc \in {"networks", "deriving"},
         sess'[s].pc = "networks" => sess'[s].allocs = <<>>,
         Len(sess'[s].allocs) <= Len(ItemsOf[Call(s).req]),
         \A i \in 1..Len(sess'[s].allocs) :
           Answers(sess'[s].allocs[i], ItemsOf[Call(s).req][i], DomainOf[Call(s).req]),
         Safe(sess'[s].allocs),
         \A p \in Pools :
           p \in NetworkPools \/ sess'[s].pc = "deriving" => Covers(s, p)',
         sess'[s].pc = "deriving" =>
           /\ \A i \in 1..Len(sess'[s].allocs) :
                sess'[s].allocs[i].block \subseteq sess'[s].taken[sess'[s].allocs[i].pool]
           /\ backend = "sqlite" =>
                \A r \in Reservations :
                  Holds(r) => ~Overlap(sess'[s].allocs, resv[r].allocs)
  PROVE  LedgerInv'
<1>5. Call(s)' = Call(s) /\ InTransaction(s)' /\ ~Written(s)' /\ sess'[s].pc # "idle"
  BY DEF Call, InTransaction, Written
<1>6. \A x \in Sessions : x # s =>
        /\ Call(x)' = Call(x) /\ Row(x)' = Row(x)
        /\ Written(x)' <=> Written(x)
        /\ InTransaction(x)' <=> InTransaction(x)
        /\ \A p \in Pools : Covers(x, p)' <=> Covers(x, p)
        /\ MoveAllowed(Call(x))' <=> MoveAllowed(Call(x))
  BY OthersKeep
<1>7. Shaped' /\ ReservesFresh'
  BY <1>5, <1>6, TablesKeep DEF LedgerInv, Shaped, ReservesFresh, Others
<1>8. Drafts'
  BY <1>5, <1>6 DEF LedgerInv, Drafts
<1>9. Snapshots'
  BY <1>5, <1>6, TablesKeep DEF LedgerInv, Snapshots, Pools
<1>10. ReadsHold' /\ OneWriter'
  BY <1>5, <1>6, TablesKeep DEF LedgerInv, ReadsHold, OneWriter
<1>11. WritersApart'
  BY <1>5, <1>6, TablesKeep DEF LedgerInv, WritersApart, Others
<1> QED
  BY <1>7, <1>8, <1>9, <1>10, <1>11, TablesKeep DEF LedgerInv

-----------------------------------------------------------------------------
\* BEGIN: the session has read nothing and holds nothing.
LEMMA BeginInv ==
  ASSUME LedgerInv, NEW s \in Sessions,
         NEW call \in ReserveCalls \cup TransitionCalls, Begin(s, call)
  PROVE  LedgerInv'
<1>1. /\ call \in Calls /\ call.op \in {"reserve", "transition"}
      /\ call.resv \in Reservations
      /\ call.op = "reserve" =>
           call.req \in Designs /\ call.key \in Keys /\ call.to = "reserved"
      /\ call.op = "transition" => call.to \in {"committed", "released", "quarantined"}
  <2>1. CASE call \in ReserveCalls
    <3>1. PICK r \in Reservations, d \in Designs, k \in Keys :
            call = [op |-> "reserve", resv |-> r, req |-> d, key |-> k,
                    to |-> "reserved", verified |-> FALSE]
      BY <2>1 DEF ReserveCalls
    <3>2. call \in Calls
      BY <3>1, StateFacts DEF Calls
    <3> QED
      BY <3>1, <3>2
  <2>2. CASE call \in TransitionCalls
    BY <2>2, StateFacts DEF TransitionCalls, Calls
  <2> QED
    BY <2>1, <2>2
<1>2. TablesSame /\ ~InTransaction(s) /\ Fresh(call)
  BY DEF Begin
<1>3. sess[s] = Idle /\ sess[s] \in SessionRecord
  BY <1>2 DEF LedgerInv, LedgerTypeOK, Shaped, SessionRecord
<1>4. \A x \in Sessions : sess'[x] =
        IF x = s THEN [Idle EXCEPT !.pc = "begun", !.call = call] ELSE sess[x]
  BY <1>3 DEF LedgerInv, LedgerTypeOK, Begin
<1>5. /\ sess'[s].pc = "begun" /\ sess'[s].call = call /\ sess'[s].allocs = <<>>
      /\ sess'[s].stale = FALSE
      /\ \A x \in Sessions : x # s => sess'[x] = sess[x]
  BY <1>4, IdleFacts DEF Idle
<1>6. LedgerTypeOK'
  <2>1. [sess[s] EXCEPT !.pc = "begun", !.call = call] \in SessionRecord
    BY <1>1, <1>3 DEF SessionRecord, PCs
  <2>2. sess' \in [Sessions -> SessionRecord]
    BY <2>1 DEF LedgerInv, LedgerTypeOK, SessionRecord, Begin
  <2> QED
    BY <1>2, <2>2, TablesKeep DEF LedgerInv, LedgerTypeOK, SessionRecord
<1>7. Call(s)' = call /\ InTransaction(s)' /\ ~Written(s)'
  BY <1>5 DEF Call, InTransaction, Written
<1>8. \A x \in Sessions : x # s =>
        /\ Call(x)' = Call(x) /\ Row(x)' = Row(x)
        /\ Written(x)' <=> Written(x)
        /\ InTransaction(x)' <=> InTransaction(x)
        /\ \A p \in Pools : Covers(x, p)' <=> Covers(x, p)
        /\ MoveAllowed(Call(x))' <=> MoveAllowed(Call(x))
  BY <1>2, <1>5, OthersKeep
<1>9. Shaped'
  BY <1>1, <1>5, <1>7, <1>8 DEF LedgerInv, Shaped
<1>10. ReservesFresh'
  BY <1>2, <1>7, <1>8, TablesKeep DEF LedgerInv, ReservesFresh, Others, Fresh
<1>11. Drafts'
  <2>1. call.op = "reserve" =>
          0 <= Len(ItemsOf[call.req]) /\ Len(<<>>) = 0
    BY <1>1, LedgerAssumption
  <2>2. Safe(<<>>) /\ \A i \in 1..Len(<<>>) : FALSE
    BY DEF Safe
  <2>3. /\ Safe(sess'[s].allocs) /\ \A i \in 1..Len(sess'[s].allocs) : FALSE
        /\ call.op = "reserve" => Len(sess'[s].allocs) <= Len(ItemsOf[call.req])
    BY <1>5, <2>1, <2>2
  <2>4. \A x \in Sessions : x # s => (Safe(sess[x].allocs) => Safe(sess'[x].allocs))
    BY <1>5
  <2> QED
    BY <1>5, <1>7, <1>8, <2>3, <2>4 DEF LedgerInv, Drafts
<1>12. Snapshots' /\ ReadsHold'
  BY <1>2, <1>5, <1>7, <1>8, TablesKeep DEF LedgerInv, Snapshots, ReadsHold, Pools
<1>13. WritersApart'
  BY <1>2, <1>7, <1>8, TablesKeep DEF LedgerInv, WritersApart, Others
<1>14. OneWriter'
  BY <1>2, <1>5, <1>7, <1>8, TablesKeep DEF LedgerInv, OneWriter, Begin
<1> QED
  BY <1>2, <1>6, <1>9, <1>10, <1>11, <1>12, <1>13, <1>14, TablesKeep DEF LedgerInv

\* Overlap does not depend on the side.
LEMMA ApartSymmetric ==
  ASSUME NEW a, NEW b, Apart(a, b)
  PROVE  Apart(b, a)
  BY DEF Apart, Overlap

\* What the constraints miss on SQLite, the lone session has seen to itself.
LEMMA WriteInv ==
  ASSUME LedgerInv, NEW s \in Sessions, Insert(s) \/ Update(s)
  PROVE  LedgerInv'
<1>0. /\ InTransaction(s) /\ Write(s)
      /\ Call(s).op \in {"reserve", "transition"}
      /\ Call(s).op = "reserve" => sess[s].pc = "deriving" /\ Derived(s)
      /\ Call(s).op = "transition" => sess[s].pc = "read"
      /\ sess[s].pc # "written"
  BY DEF LedgerInv, Shaped, Insert, Update, InTransaction
<1>1. CASE Abort(s)
  BY <1>1, AbortInv
<1>2. CASE ~Abort(s)
  <2>1. /\ Goto(s, "written") /\ TablesSame
        /\ \A x \in Others(s) :
             Written(x) => ~Clash(Row(s), Row(x)) /\ Call(x).resv # Call(s).resv
        /\ Row(s).state \in Holding =>
             \A r \in Reservations \ {Call(s).resv} :
               Holds(r) => ~Clash(Row(s), resv[r])
    BY <1>0, <1>2 DEF Write
  <2>2. backend \in {"sqlite", "postgresql"} /\ "written" \in PCs
    BY LedgerAssumption DEF LedgerInv, LedgerTypeOK, PCs
  <2>3. \A x \in Others(s) : Written(x) =>
          Call(x).resv # Call(s).resv
            /\ Apart(Row(s), Row(x)) /\ Apart(Row(x), Row(s))
    <3> SUFFICES ASSUME NEW x \in Others(s), Written(x)
                 PROVE  Apart(Row(s), Row(x))
      BY <2>1, ApartSymmetric
    <3>1. backend = "postgresql"
      BY <1>0, <2>2 DEF LedgerInv, OneWriter, Others, Written, InTransaction
    <3> QED
      BY <2>1, <3>1 DEF Clash, Apart
  <2>4. Call(s).op = "transition" =>
          resv[Call(s).resv].state # "absent"
            /\ (sess[s].stale \/ MoveAllowed(Call(s)))
    BY <1>0 DEF LedgerInv, ReadsHold
  <2>5. Row(s).state \in Holding =>
          \A r \in Reservations \ {Call(s).resv} :
            Holds(r) => Apart(Row(s), resv[r])
    <3> SUFFICES ASSUME Row(s).state \in Holding,
                        NEW r \in Reservations, r # Call(s).resv, Holds(r)
                 PROVE  ~Overlap(Row(s).allocs, resv[r].allocs)
      BY <2>1 DEF Clash, Apart
    <3>1. CASE backend = "postgresql"
      BY <2>1, <3>1 DEF Clash
    <3>2. CASE backend = "sqlite" /\ Call(s).op = "reserve"
      <4>1. Row(s).allocs = sess[s].allocs
        BY <3>2 DEF Row
      <4> QED
        BY <1>0, <3>2, <4>1 DEF LedgerInv, Snapshots
    <3>3. CASE backend = "sqlite" /\ Call(s).op = "transition"
      <4>1. ~sess[s].stale
        BY <3>3 DEF LedgerInv, OneWriter
      <4>2. MoveAllowed(Call(s)) /\ Call(s).resv \in Reservations
        BY <1>0, <2>4, <3>3, <4>1 DEF LedgerInv, Shaped
      <4>3. Holds(Call(s).resv)
        BY <4>2, StateFacts DEF LedgerInv, LedgerTypeOK, MoveAllowed, Holds
      <4>4. Row(s).allocs = resv[Call(s).resv].allocs
        BY <3>3, <4>2 DEF Row, LedgerInv, LedgerTypeOK
      <4> QED
        BY <4>2, <4>3, <4>4 DEF LedgerInv, RowsApart, Apart
    <3> QED
      BY <1>0, <2>2, <3>1, <3>2, <3>3
  <2> QED
    BY <1>0, <2>1, <2>2, <2>3, <2>4, <2>5, AdvanceInv
<1> QED
  BY <1>1, <1>2

\* The statements that only check.
LEMMA CheckInv ==
  ASSUME LedgerInv, NEW s \in Sessions,
         LockDomain(s) \/ LookupKey(s) \/ Select(s)
  PROVE  LedgerInv'
<1>0. InTransaction(s) /\ sess[s].pc # "written" /\ sess[s].pc # "deriving"
      /\ (Call(s).op = "transition" => sess[s].pc \in {"begun", "read"})
  BY DEF LedgerInv, Shaped, LockDomain, LookupKey, Select, InTransaction
<1>1. CASE Abort(s)
  BY <1>1, AbortInv
<1>2. CASE LockDomain(s)
  <2>1. Goto(s, "locked") /\ TablesSame /\ Call(s).op = "reserve" /\ "locked" \in PCs
    BY <1>2 DEF LockDomain, PCs
  <2> QED
    BY <1>0, <2>1, AdvanceInv
<1>3. CASE LookupKey(s) /\ ~Abort(s)
  <2>1. Goto(s, "new") /\ TablesSame /\ "new" \in PCs /\ Call(s).op # "transition"
    BY <1>0, <1>3 DEF LookupKey, PCs
  <2> QED
    BY <1>0, <2>1, AdvanceInv
<1>4. CASE Select(s) /\ ~Abort(s)
  <2>1. /\ Goto(s, "read") /\ TablesSame /\ "read" \in PCs
        /\ Call(s).op = "transition" /\ MoveAllowed(Call(s))
        /\ resv[Call(s).resv].state # "absent"
    BY <1>4 DEF Select, PCs, MoveAllowed
  <2> QED
    BY <1>0, <2>1, AdvanceInv
<1> QED
  BY <1>1, <1>2, <1>3, <1>4

-----------------------------------------------------------------------------
(* The allocator. *)

LEMMA AllocsFacts ==
  ASSUME NEW A \in Allocs, NEW i \in 1..Len(A)
  PROVE  /\ A[i].domain \in Domains /\ A[i].pool \in Pools
         /\ A[i].block \in SUBSET Nat
<1> DEFINE S == [domain : Domains, pool : Pools, block : SUBSET Nat]
<1>1. A \in Seq(S)
  BY DEF Allocs
<1> HIDE DEF S
<1>2. A[i] \in S
  BY <1>1
<1> QED
  BY <1>2 DEF S

LEMMA InUseFacts ==
  ASSUME LedgerInv, NEW d \in Domains, NEW p \in Pools
  PROVE  /\ InUse(d, p) \in SUBSET Nat
         /\ Excluded[p] \subseteq InUse(d, p)
         /\ \A r \in Reservations : Holds(r) =>
              \A i \in 1..Len(resv[r].allocs) :
                /\ resv[r].allocs[i].domain = d
                /\ resv[r].allocs[i].pool = p
                => resv[r].allocs[i].block \subseteq InUse(d, p)
<1>1. \A r \in Reservations : resv[r].allocs \in Allocs
  BY DEF LedgerInv, LedgerTypeOK
<1>2. \A r \in Reservations : \A i \in 1..Len(resv[r].allocs) :
        resv[r].allocs[i].block \in SUBSET Nat
  BY <1>1, AllocsFacts
<1>3. Excluded[p] \in SUBSET Nat
  BY LedgerAssumption
<1>4. InUse(d, p) \in SUBSET Nat
  BY <1>2, <1>3 DEF InUse
<1>5. Excluded[p] \subseteq InUse(d, p)
  BY DEF InUse
<1>6. ASSUME NEW r \in Reservations, Holds(r), NEW i \in 1..Len(resv[r].allocs),
             resv[r].allocs[i].domain = d, resv[r].allocs[i].pool = p
      PROVE  resv[r].allocs[i].block \subseteq InUse(d, p)
  BY <1>6 DEF InUse
<1> QED
  BY <1>4, <1>5, <1>6

\* The two SELECTs.
LEMMA ReadInv ==
  ASSUME LedgerInv, NEW s \in Sessions, ReadNetworks(s) \/ ReadScalars(s)
  PROVE  LedgerInv'
<1>1. PICK from \in {"new", "networks"}, to \in {"networks", "deriving"},
           pools \in {NetworkPools, ScalarPools} :
        /\ Read(s, from, to, pools)
        /\ from = "new" => to = "networks" /\ pools = NetworkPools
        /\ from = "networks" => to = "deriving" /\ pools = ScalarPools
  BY DEF ReadNetworks, ReadScalars
<1> DEFINE taken == [p \in Pools |->
                       IF p \in pools THEN InUse(DomainOf[Call(s).req], p)
                       ELSE sess[s].taken[p]]
<1>2. /\ sess[s].pc = from /\ TablesSame /\ InTransaction(s)
      /\ sess[s] \in SessionRecord
      /\ sess' = [sess EXCEPT ![s] = [sess[s] EXCEPT !.pc = to, !.taken = taken]]
  BY <1>1 DEF Read, InTransaction, LedgerInv, LedgerTypeOK, SessionRecord
<1>3. Call(s).op = "reserve" /\ Call(s).req \in Designs
      /\ DomainOf[Call(s).req] \in Domains
  BY <1>2, LedgerAssumption DEF LedgerInv, Shaped
<1>4. \A p \in Pools : sess[s].taken[p] \in SUBSET Nat
  BY <1>2 DEF SessionRecord
<1>5. taken \in [Pools -> SUBSET Nat]
  BY <1>3, <1>4, InUseFacts
<1>6. \A p \in pools : taken[p] = InUse(DomainOf[Call(s).req], p) /\ p \in Pools
  BY DEF Pools
<1>7. \A p \in Pools : p \notin pools => taken[p] = sess[s].taken[p]
  OBVIOUS
<1> HIDE DEF taken
<1>8. /\ sess'[s].pc = to /\ sess'[s].taken = taken
      /\ sess'[s].call = sess[s].call /\ sess'[s].stale = sess[s].stale
      /\ sess'[s].allocs = sess[s].allocs /\ sess'[s] \in SessionRecord
      /\ \A x \in Sessions : x # s => sess'[x] = sess[x]
  BY <1>2, <1>5 DEF SessionRecord, PCs, LedgerInv, LedgerTypeOK
<1>9. LedgerTypeOK'
  <2>1. sess' \in [Sessions -> SessionRecord]
    BY <1>2, <1>8 DEF LedgerInv, LedgerTypeOK, SessionRecord
  <2> QED
    BY <1>2, <2>1, TablesKeep DEF LedgerInv, LedgerTypeOK, SessionRecord
<1>10. sess[s].allocs = <<>> /\ 0 <= Len(ItemsOf[Call(s).req])
  BY <1>2, <1>3, LedgerAssumption DEF LedgerInv, Drafts
<1>11. /\ Safe(<<>>) /\ Len(<<>>) = 0 /\ \A i \in 1..Len(<<>>) : FALSE
       /\ \A r \in Reservations : ~Overlap(<<>>, resv[r].allocs)
  BY DEF Safe, Overlap
<1>12. ASSUME NEW p \in Pools, p \in NetworkPools \/ to = "deriving"
       PROVE  Covers(s, p)'
  <2>1. CASE p \in pools
    BY <1>2, <1>3, <1>6, <1>8, <2>1, InUseFacts, TablesKeep DEF Covers, Call
  <2>2. CASE p \notin pools
    <3>1. sess[s].pc = "networks" /\ p \in NetworkPools
      BY <1>1, <1>2, <1>12, <2>2 DEF Pools
    <3>2. Covers(s, p)
      BY <1>3, <3>1 DEF LedgerInv, Snapshots
    <3> QED
      BY <1>2, <1>7, <1>8, <2>2, <3>2, TablesKeep DEF Covers, Call
  <2> QED
    BY <2>1, <2>2
<1>13. sess[s].pc # "written"
  BY <1>2
<1> QED
  BY <1>2, <1>3, <1>8, <1>9, <1>10, <1>11, <1>12, <1>13, DraftInv

\* What a candidate of an item is.
LEMMA WantedFacts ==
  ASSUME NEW d \in Designs, NEW n \in 1..Len(ItemsOf[d]), NEW last \in Nat,
         NEW a \in Wanted(ItemsOf[d][n], last)
  PROVE  LET item == ItemsOf[d][n] IN
         /\ item \in Items /\ item.pool \in Pools
         /\ a \in Nat /\ a \in item.lo..item.hi
         /\ Block(item, a) \in SUBSET Nat
         /\ Block(item, a) \subseteq item.lo..item.hi
<1> DEFINE item == ItemsOf[d][n]
<1>1. item \in Items /\ (item.how # "first" => item.size = 1)
  BY LedgerAssumption
<1>2. /\ item.how \in {"first", "value", "derived"} /\ item.lo \in Nat
      /\ item.hi \in Nat /\ item.size \in Nat /\ item.size # 0 /\ item.pool \in Pools
  BY <1>1 DEF Items
<1>3. a \in item.lo..item.hi
      /\ (item.how = "first" => a + item.size - 1 <= item.hi)
  <2>1. CASE item.how = "first"
    BY <1>2, <2>1 DEF Wanted
  <2>2. CASE item.how = "value"
    BY <1>2, <2>2 DEF Wanted
  <2>3. CASE item.how = "derived"
    BY <1>2, <2>3 DEF Wanted
  <2> QED
    BY <1>2, <2>1, <2>2, <2>3
<1> HIDE DEF item
<1>4. a \in Nat /\ a + item.size - 1 <= item.hi /\ item.lo <= a
  BY <1>1, <1>2, <1>3
<1>5. Block(item, a) \in SUBSET Nat /\ Block(item, a) \subseteq item.lo..item.hi
  BY <1>2, <1>4 DEF Block
<1> QED
  BY <1>1, <1>2, <1>3, <1>4, <1>5 DEF item

\* An item gets a block that is in nobody's way.
LEMMA AllocateInv ==
  ASSUME LedgerInv, NEW s \in Sessions, Allocate(s)
  PROVE  LedgerInv'
<1> DEFINE c == Call(s)
           A == sess[s].allocs
           n == Len(A) + 1
           item == ItemsOf[c.req][n]
<1>a. CASE Abort(s)
  BY <1>a, AbortInv
<1>b. CASE ~Abort(s)
  <2>1. /\ sess[s].pc = "deriving" /\ ~Derived(s) /\ InTransaction(s)
        /\ sess[s] \in SessionRecord /\ A \in Allocs
        /\ sess[s].taken \in [Pools -> SUBSET Nat] /\ sess[s].last \in Nat
    BY DEF Allocate, InTransaction, LedgerInv, LedgerTypeOK, SessionRecord
  <2>2. c.op = "reserve" /\ c.req \in Designs /\ DomainOf[c.req] \in Domains
    BY <2>1, LedgerAssumption DEF LedgerInv, Shaped
  <2>3. /\ Len(A) <= Len(ItemsOf[c.req])
        /\ \A i \in 1..Len(A) : Answers(A[i], ItemsOf[c.req][i], DomainOf[c.req])
        /\ Safe(A)
    BY <2>2 DEF LedgerInv, Drafts
  <2>4. n \in 1..Len(ItemsOf[c.req]) /\ Len(A) \in Nat
    BY <2>1, <2>2, <2>3, LedgerAssumption DEF Derived, Allocs
  <2>5. PICK a \in Free(s) :
          /\ sess' = [sess EXCEPT
                ![s].taken[item.pool] = @ \cup Block(item, a),
                ![s].last = a,
                ![s].allocs = Append(@, [domain |-> DomainOf[c.req],
                                         pool |-> item.pool,
                                         block |-> Block(item, a)])]
          /\ TablesSame
    BY <1>b DEF Allocate, NextItem
  <2>6. /\ a \in Wanted(item, sess[s].last)
        /\ Block(item, a) \cap sess[s].taken[item.pool] = {}
    BY DEF Free, NextItem
  <2>7. /\ item \in Items /\ item.pool \in Pools /\ a \in Nat
        /\ a \in item.lo..item.hi /\ Block(item, a) \in SUBSET Nat
        /\ Block(item, a) \subseteq item.lo..item.hi
    BY <2>1, <2>2, <2>4, <2>6, WantedFacts
  <2> DEFINE new == [domain |-> DomainOf[c.req], pool |-> item.pool,
                     block |-> Block(item, a)]
             B == Append(A, new)
             taken == [p \in Pools |->
                         IF p = item.pool THEN sess[s].taken[p] \cup Block(item, a)
                         ELSE sess[s].taken[p]]
  <2>8. taken = [sess[s].taken EXCEPT ![item.pool] = @ \cup Block(item, a)]
    BY <2>1, <2>7
  <2>9. taken \in [Pools -> SUBSET Nat] /\ B \in Allocs
    <3>1. new \in [domain : Domains, pool : Pools, block : SUBSET Nat]
      BY <2>2, <2>7
    <3> QED
      BY <2>1, <2>7, <3>1 DEF Allocs
  <2>10. /\ new.domain = DomainOf[c.req] /\ new.pool = item.pool
         /\ new.block = Block(item, a)
         /\ Len(B) = n /\ B[n] = new /\ \A i \in 1..Len(A) : B[i] = A[i]
         /\ \A i \in 1..n : i = n \/ i \in 1..Len(A)
    BY <2>1, <2>4 DEF Allocs
  <2>11. /\ \A p \in Pools : sess[s].taken[p] \subseteq taken[p]
         /\ Block(item, a) \subseteq taken[item.pool]
    BY <2>7
  <2>12. /\ sess'[s].pc = "deriving" /\ sess'[s].call = sess[s].call
         /\ sess'[s].stale = sess[s].stale /\ sess'[s].taken = taken
         /\ sess'[s].allocs = B /\ sess'[s] \in SessionRecord
         /\ sess' \in [Sessions -> SessionRecord]
         /\ \A x \in Sessions : x # s => sess'[x] = sess[x]
    <3> HIDE DEF new, B, taken
    <3>1. sess' = [sess EXCEPT ![s] = [sess[s] EXCEPT
                     !.taken = taken, !.last = a, !.allocs = B]]
      BY <2>5, <2>8 DEF new, B, LedgerInv, LedgerTypeOK
    <3>2. [sess[s] EXCEPT !.taken = taken, !.last = a, !.allocs = B]
             \in SessionRecord
      BY <2>1, <2>7, <2>9 DEF SessionRecord
    <3>3. sess \in [Sessions -> SessionRecord]
      BY DEF LedgerInv, LedgerTypeOK, SessionRecord
    <3>4. /\ sess'[s] = [sess[s] EXCEPT !.taken = taken, !.last = a, !.allocs = B]
          /\ sess' \in [Sessions -> SessionRecord]
          /\ \A x \in Sessions : x # s => sess'[x] = sess[x]
      BY <3>1, <3>2, <3>3
    <3> QED
      BY <2>1, <3>2, <3>4 DEF SessionRecord
  <2>t. TablesSame
    BY <2>5
  <2>13. LedgerTypeOK'
    BY <2>t, <2>12, TablesKeep DEF LedgerInv, LedgerTypeOK, SessionRecord
  <2>14. /\ \A p \in Pools : Covers(s, p)
         /\ \A i \in 1..Len(A) : A[i].block \subseteq sess[s].taken[A[i].pool]
    BY <2>1, <2>2 DEF LedgerInv, Snapshots
  <2>i. item = ItemsOf[c.req][n]
    OBVIOUS
  <2> HIDE DEF new, B, taken, item, n
  <2>15. \A i \in 1..Len(A) : A[i].pool \in Pools /\ A[i].domain \in Domains
    BY <2>1, AllocsFacts
  <2>16. \A i \in 1..Len(B) : Answers(B[i], ItemsOf[c.req][i], DomainOf[c.req])
    <3>1. Answers(new, item, DomainOf[c.req])
      BY <2>7, <2>10 DEF Answers
    <3> QED
      BY <2>3, <2>10, <2>i, <3>1
  <2>17. Safe(B)
    <3>0. Excluded[item.pool] \subseteq sess[s].taken[item.pool]
      BY <2>7, <2>14 DEF Covers
    <3>1. new.block \cap Excluded[new.pool] = {}
      BY <2>6, <2>10, <3>0
    <3>2. \A i \in 1..Len(A) : A[i].pool = new.pool => A[i].block \cap new.block = {}
      BY <2>6, <2>10, <2>14
    <3>3. SUFFICES ASSUME NEW i \in 1..Len(B)
                   PROVE  /\ B[i].block \cap Excluded[B[i].pool] = {}
                          /\ \A j \in 1..Len(B) :
                               i # j /\ B[i].domain = B[j].domain
                                 /\ B[i].pool = B[j].pool
                               => B[i].block \cap B[j].block = {}
      BY DEF Safe
    <3>4. CASE i = n
      BY <2>10, <3>1, <3>2, <3>4
    <3>5. CASE i \in 1..Len(A)
      BY <2>3, <2>10, <3>2, <3>5 DEF Safe
    <3> QED
      BY <2>10, <3>4, <3>5
  <2>18. \A p \in Pools : Covers(s, p)'
    <3> SUFFICES ASSUME NEW p \in Pools PROVE Covers(s, p)'
      OBVIOUS
    <3>1. Covers(s, p) /\ sess[s].taken[p] \subseteq sess'[s].taken[p]
      BY <2>11, <2>12, <2>14
    <3>2. DomainOf[Call(s).req]' = DomainOf[Call(s).req]
      BY <2>12 DEF Call
    <3> QED
      BY <2>t, <3>1, <3>2, TablesKeep DEF Covers
  <2>19. \A i \in 1..Len(B) : B[i].block \subseteq taken[B[i].pool]
    <3>1. B[n].block \subseteq taken[B[n].pool]
      BY <2>10, <2>11
    <3>2. \A i \in 1..Len(A) : B[i].block \subseteq taken[B[i].pool]
      BY <2>10, <2>11, <2>14, <2>15
    <3> QED
      BY <2>10, <3>1, <3>2
  <2>20. ASSUME backend = "sqlite", NEW r \in Reservations, Holds(r)
         PROVE  ~Overlap(B, resv[r].allocs)
    <3>1. ~Overlap(A, resv[r].allocs)
      BY <2>1, <2>2, <2>20 DEF LedgerInv, Snapshots
    <3>2. \A j \in 1..Len(resv[r].allocs) :
            resv[r].allocs[j].domain = new.domain /\ resv[r].allocs[j].pool = new.pool
              => resv[r].allocs[j].block \cap new.block = {}
      <4>1. Covers(s, item.pool)
        BY <2>7, <2>14
      <4> QED
        BY <2>6, <2>10, <2>20, <4>1 DEF Covers
    <3> QED
      BY <2>10, <3>1, <3>2 DEF Overlap
  <2>21. Len(B) <= Len(ItemsOf[c.req]) /\ sess[s].pc # "written"
    BY <2>1, <2>4, <2>10
  <2> HIDE DEF c, A, n, item
  <2> QED
    BY <2>1, <2>2, <2>t, <2>12, <2>13, <2>16, <2>17, <2>18, <2>19, <2>20, <2>21,
       DraftInv DEF c
<1> QED
  BY <1>a, <1>b

-----------------------------------------------------------------------------
\* A row that is committed has its type, answers its design and is safe.
LEMMA RowFacts ==
  ASSUME LedgerInv, NEW s \in Sessions, Written(s)
  PROVE  /\ Row(s) \in [state : Store!ResvStates \cup {"absent"},
                       key : Keys \cup {None}, req : Designs \cup {None},
                       allocs : Allocs]
         /\ Row(s).state # "absent" /\ Row(s).key \in Keys /\ Row(s).req \in Designs
         /\ Len(Row(s).allocs) = Len(ItemsOf[Row(s).req])
         /\ \A i \in 1..Len(Row(s).allocs) :
              Answers(Row(s).allocs[i], ItemsOf[Row(s).req][i], DomainOf[Row(s).req])
         /\ Safe(Row(s).allocs)
<1>1. /\ Call(s).op \in {"reserve", "transition"} /\ Call(s).resv \in Reservations
      /\ sess[s].pc = "written" /\ sess[s].allocs \in Allocs
  BY DEF LedgerInv, LedgerTypeOK, Shaped, Written, InTransaction
<1>2. CASE Call(s).op = "reserve"
  <2>1. Row(s) = [state |-> "reserved", key |-> Call(s).key, req |-> Call(s).req,
                  allocs |-> sess[s].allocs]
    BY <1>2 DEF Row
  <2>2. Call(s).key \in Keys /\ Call(s).req \in Designs
    BY <1>2 DEF LedgerInv, Shaped
  <2>3. /\ Len(sess[s].allocs) = Len(ItemsOf[Call(s).req])
        /\ \A i \in 1..Len(sess[s].allocs) :
             Answers(sess[s].allocs[i], ItemsOf[Call(s).req][i], DomainOf[Call(s).req])
        /\ Safe(sess[s].allocs)
    BY <1>1, <1>2 DEF LedgerInv, Drafts
  <2> QED
    BY <1>1, <2>1, <2>2, <2>3, StateFacts
<1>3. CASE Call(s).op = "transition"
  <2> DEFINE old == resv[Call(s).resv]
  <2>1. /\ old \in [state : Store!ResvStates \cup {"absent"}, key : Keys \cup {None},
                    req : Designs \cup {None}, allocs : Allocs]
        /\ old.state # "absent"
        /\ old.key \in Keys /\ old.req \in Designs
        /\ Len(old.allocs) = Len(ItemsOf[old.req])
        /\ \A i \in 1..Len(old.allocs) :
             Answers(old.allocs[i], ItemsOf[old.req][i], DomainOf[old.req])
        /\ Safe(old.allocs)
    BY <1>1, <1>3 DEF LedgerInv, LedgerTypeOK, ReadsHold, RowsApart
  <2>2. Row(s) = [old EXCEPT !.state = Call(s).to]
        /\ Call(s).to \in Store!ResvStates /\ Call(s).to # "absent"
    BY <1>3, StateFacts DEF Row, LedgerInv, Shaped
  <2> HIDE DEF old
  <2>3. /\ Row(s).state = Call(s).to /\ Row(s).key = old.key
        /\ Row(s).req = old.req /\ Row(s).allocs = old.allocs
    BY <2>1, <2>2
  <2> QED
    BY <2>1, <2>2, <2>3
<1> QED
  BY <1>1, <1>2, <1>3

LEMMA CommitInv ==
  ASSUME LedgerInv, NEW s \in Sessions, Commit(s)
  PROVE  LedgerInv'
<1> DEFINE c == Call(s)
<1>0. /\ Written(s) /\ InTransaction(s) /\ c.op \in {"reserve", "transition"}
      /\ c.resv \in Reservations /\ backend' = backend
  BY DEF LedgerInv, Shaped, Commit, Written, InTransaction
<1>1. \A x \in Sessions : sess'[x] =
        IF x = s THEN Idle
        ELSE [sess[x] EXCEPT !.stale = sess[x].stale \/ Stale(s, x)]
  BY DEF Commit
<1>2. sess'[s] = Idle /\ Call(s)' = NoCall /\ ~InTransaction(s)' /\ ~Written(s)'
      /\ sess'[s].stale = FALSE /\ sess'[s].pc = "idle" /\ NoCall.op = "none"
  BY <1>1, IdleFacts DEF Call, InTransaction, Written
<1>3. \A x \in Sessions : x # s =>
        /\ sess'[x].pc = sess[x].pc /\ sess'[x].call = sess[x].call
        /\ sess'[x].taken = sess[x].taken /\ sess'[x].allocs = sess[x].allocs
        /\ sess'[x].stale <=> sess[x].stale \/ Stale(s, x)
        /\ ~InTransaction(x) => sess'[x] = sess[x]
        /\ Call(x)' = Call(x) /\ (Written(x)' <=> Written(x))
        /\ InTransaction(x)' <=> InTransaction(x)
  <2> SUFFICES ASSUME NEW x \in Sessions, x # s
               PROVE  /\ sess'[x].pc = sess[x].pc /\ sess'[x].call = sess[x].call
                      /\ sess'[x].taken = sess[x].taken
                      /\ sess'[x].allocs = sess[x].allocs
                      /\ sess'[x].stale <=> sess[x].stale \/ Stale(s, x)
                      /\ ~InTransaction(x) => sess'[x] = sess[x]
    BY DEF Call, Written, InTransaction
  <2>1. sess[x] \in SessionRecord
    BY DEF LedgerInv, LedgerTypeOK, SessionRecord
  <2>2. sess'[x] = [sess[x] EXCEPT !.stale = sess[x].stale \/ Stale(s, x)]
    BY <1>1
  <2>3. ~InTransaction(x) => (sess[x].stale \/ Stale(s, x)) = sess[x].stale
    BY <2>1 DEF InTransaction, Stale, SessionRecord
  <2> QED
    BY <2>1, <2>2, <2>3 DEF SessionRecord
<1>4. /\ resv'[c.resv] = Row(s)
      /\ \A r \in Reservations : r # c.resv => resv'[r] = resv[r]
  BY <1>0 DEF LedgerInv, LedgerTypeOK, Commit
<1>5. \A r \in Reservations : r # c.resv => (Holds(r)' <=> Holds(r))
  BY <1>4 DEF Holds
<1>6. \A r \in Reservations : r = c.resv => (Holds(r)' <=> Row(s).state \in Holding)
  BY <1>4 DEF Holds
<1>7. LedgerTypeOK'
  <2>1. resv' \in [Reservations ->
          [state : Store!ResvStates \cup {"absent"}, key : Keys \cup {None},
           req : Designs \cup {None}, allocs : Allocs]]
    BY <1>0, RowFacts DEF LedgerInv, LedgerTypeOK, Commit
  <2>2. \A r \in Reservations : resv'[r].state # "absent" =>
          /\ resv'[r].key \in Keys /\ resv'[r].req \in Designs
          /\ Len(resv'[r].allocs) = Len(ItemsOf[resv'[r].req])
          /\ \A i \in 1..Len(resv'[r].allocs) :
               Answers(resv'[r].allocs[i], ItemsOf[resv'[r].req][i],
                       DomainOf[resv'[r].req])
    BY <1>0, <1>4, RowFacts DEF LedgerInv, LedgerTypeOK
  <2>3. sess' \in [Sessions -> SessionRecord]
    <3>1. \A x \in Sessions :
            [sess[x] EXCEPT !.stale = sess[x].stale \/ Stale(s, x)] \in SessionRecord
      BY DEF LedgerInv, LedgerTypeOK, SessionRecord, Stale
    <3> QED
      BY <3>1, IdleFacts DEF Commit
  <2> QED
    BY <1>0, <2>1, <2>2, <2>3 DEF LedgerInv, LedgerTypeOK, SessionRecord
<1>8. Shaped'
  BY <1>2, <1>3 DEF LedgerInv, Shaped
<1>9. c.op = "transition" => resv[c.resv].state # "absent"
  BY <1>0 DEF LedgerInv, ReadsHold, Written
<1>10. \A x \in Sessions : x # s /\ Call(x).op = "reserve" => Call(x).resv # c.resv
  <2>1. NoResv.state = "absent"
    BY DEF NoResv
  <2> QED
    BY <1>0, <1>9, <2>1 DEF LedgerInv, ReservesFresh, Others
<1>11. \A x \in Sessions : Call(x).op = "reserve" => Call(x).resv \in Reservations
  BY IdleFacts DEF LedgerInv, Shaped, Call
<1>12. ReservesFresh'
  BY <1>2, <1>3, <1>4, <1>10, <1>11 DEF LedgerInv, ReservesFresh, Others
<1>13. Drafts'
  BY <1>2, <1>3 DEF LedgerInv, Drafts
<1>14. Snapshots'
  <2> SUFFICES ASSUME NEW x \in Sessions, x # s, Call(x).op = "reserve"
               PROVE  /\ sess[x].pc = "networks" => \A p \in NetworkPools : Covers(x, p)'
                      /\ sess[x].pc = "deriving" =>
                           /\ \A p \in Pools : Covers(x, p)'
                           /\ \A i \in 1..Len(sess[x].allocs) :
                                sess[x].allocs[i].block
                                  \subseteq sess[x].taken[sess[x].allocs[i].pool]
                           /\ backend # "sqlite"
    BY <1>0, <1>2, <1>3 DEF Snapshots
  <2>1. InTransaction(x) /\ backend # "sqlite"
    BY <1>0, IdleFacts DEF LedgerInv, Shaped, OneWriter, Call
  <2>2. \A p \in Pools : Covers(x, p) => Covers(x, p)'
    BY <1>0, <1>3, <2>1 DEF Covers
  <2> QED
    BY <2>1, <2>2 DEF LedgerInv, Snapshots, Pools
<1>15. ReadsHold'
  <2> SUFFICES ASSUME NEW x \in Sessions, x # s, Call(x).op = "transition",
                      sess[x].pc \in {"read", "written"}
               PROVE  /\ resv'[Call(x).resv].state # "absent"
                      /\ ~sess'[x].stale => MoveAllowed(Call(x))'
    BY <1>2, <1>3 DEF ReadsHold
  <2>1. /\ Call(x).resv \in Reservations
        /\ resv[Call(x).resv].state # "absent"
        /\ ~sess[x].stale => MoveAllowed(Call(x))
    BY DEF LedgerInv, Shaped, ReadsHold, InTransaction
  <2>2. resv'[Call(x).resv].state # "absent"
    BY <1>0, <1>4, <2>1, RowFacts
  <2>3. ~sess'[x].stale => Call(x).resv # c.resv
    BY <1>0, <1>3 DEF Stale, LedgerInv, WritersApart, Others, Written
  <2> QED
    BY <1>3, <1>4, <2>1, <2>2, <2>3 DEF MoveAllowed
<1>16. RowsApart'
  <2>1. \A r \in Reservations : resv'[r].state # "absent" => Safe(resv'[r].allocs)
    BY <1>0, <1>4, RowFacts DEF LedgerInv, RowsApart
  <2>2. \A r \in Reservations :
          r # c.resv /\ Row(s).state \in Holding /\ Holds(r) => Apart(Row(s), resv[r])
    BY <1>0 DEF LedgerInv, WritersApart
  <2>3. ASSUME NEW q \in Reservations, NEW r \in Reservations, q # r,
               Holds(q)', Holds(r)'
        PROVE  Apart(resv'[q], resv'[r])
    <3>1. CASE q = c.resv
      BY <1>4, <1>5, <1>6, <2>2, <2>3, <3>1
    <3>2. CASE r = c.resv
      BY <1>4, <1>5, <1>6, <2>2, <2>3, <3>2, ApartSymmetric
    <3>3. CASE q # c.resv /\ r # c.resv
      BY <1>4, <1>5, <2>3, <3>3 DEF LedgerInv, RowsApart
    <3> QED
      BY <3>1, <3>2, <3>3
  <2>4. (\A q, r \in Reservations :
           q # r /\ Holds(q) /\ Holds(r) => Apart(resv[q], resv[r]))'
    BY <2>3
  <2> QED
    BY <2>1, <2>4 DEF RowsApart
<1>17. WritersApart'
  <2>1. ASSUME NEW x \in Sessions, x # s, Written(x)
        PROVE  Call(x).resv # c.resv /\ Row(x)' = Row(x) /\ Apart(Row(x), Row(s))
    <3>1. Call(x).resv # c.resv /\ Apart(Row(x), Row(s))
      BY <1>0, <2>1 DEF LedgerInv, WritersApart, Others
    <3>2. Call(x).resv \in Reservations
      BY <2>1 DEF LedgerInv, Shaped, InTransaction, Written
    <3> QED
      BY <1>3, <1>4, <2>1, <3>1, <3>2 DEF Row
  <2>2. ASSUME NEW x \in Sessions, x # s, Written(x), Row(x).state \in Holding,
               NEW r \in Reservations, r # Call(x).resv, Holds(r)'
        PROVE  Apart(Row(x), resv'[r])
    <3>1. CASE r = c.resv
      BY <1>4, <2>1, <2>2, <3>1
    <3>2. CASE r # c.resv
      BY <1>4, <1>5, <2>2, <3>2 DEF LedgerInv, WritersApart
    <3> QED
      BY <3>1, <3>2
  <2>3. ASSUME NEW x \in Sessions, NEW y \in Sessions, x # s, y # s, x # y,
               Written(x), Written(y)
        PROVE  Call(y).resv # Call(x).resv /\ Apart(Row(x), Row(y))
    BY <2>3 DEF LedgerInv, WritersApart, Others
  <2>4. \A x \in Sessions : Written(x)' =>
          x # s /\ Written(x) /\ Row(x)' = Row(x) /\ Call(x)' = Call(x)
    BY <1>2, <1>3, <2>1
  <2> SUFFICES ASSUME NEW x \in Sessions, Written(x)'
               PROVE  /\ Row(x).state \in Holding =>
                           \A r \in Reservations \ {Call(x).resv} :
                             Holds(r)' => Apart(Row(x), resv'[r])
                      /\ \A y \in Others(x) : Written(y)' =>
                           Call(y)'.resv # Call(x).resv /\ Apart(Row(x), Row(y)')
    BY <2>4 DEF WritersApart, Others
  <2> QED
    BY <2>2, <2>3, <2>4 DEF Others
<1>18. OneWriter'
  BY <1>0, <1>2, <1>3 DEF LedgerInv, OneWriter, Stale, InTransaction
<1> QED
  BY <1>7, <1>8, <1>12, <1>13, <1>14, <1>15, <1>16, <1>17, <1>18 DEF LedgerInv

LEMMA LedgerStepInv ==
  ASSUME LedgerInv, [LedgerNext]_ledgerVars
  PROVE  LedgerInv'
<1>1. CASE LedgerNext
  <2>1. PICK s \in Sessions :
          \/ \E call \in ReserveCalls \cup TransitionCalls : Begin(s, call)
          \/ LockDomain(s) \/ LookupKey(s) \/ ReadNetworks(s) \/ ReadScalars(s)
          \/ Allocate(s) \/ Insert(s)
          \/ Select(s) \/ Update(s)
          \/ Commit(s)
          \/ Abort(s)
    BY <1>1 DEF LedgerNext
  <2> QED
    BY <2>1, BeginInv, CheckInv, ReadInv, AllocateInv, WriteInv, CommitInv, AbortInv
<1>2. CASE UNCHANGED ledgerVars
  <2>1. TablesSame /\ sess' = sess
    BY <1>2 DEF ledgerVars, TablesSame
  <2>2. \A x \in Sessions :
          /\ Call(x)' = Call(x) /\ Row(x)' = Row(x)
          /\ Written(x)' <=> Written(x)
          /\ InTransaction(x)' <=> InTransaction(x)
          /\ \A p \in Pools : Covers(x, p)' <=> Covers(x, p)
          /\ MoveAllowed(Call(x))' <=> MoveAllowed(Call(x))
    BY <2>1, OthersKeep
  <2>3. LedgerTypeOK'
    BY <2>1, TablesKeep DEF LedgerInv, LedgerTypeOK
  <2>4. Shaped'
    BY <2>1, <2>2 DEF LedgerInv, Shaped
  <2>5. ReservesFresh'
    BY <2>1, <2>2, TablesKeep DEF LedgerInv, ReservesFresh, Others
  <2>6. OneWriter'
    BY <2>1, <2>2, TablesKeep DEF LedgerInv, OneWriter
  <2>7. Drafts'
    BY <2>1, <2>2 DEF LedgerInv, Drafts
  <2>8. Snapshots'
    BY <2>1, <2>2, TablesKeep DEF LedgerInv, Snapshots, Pools
  <2>9. ReadsHold'
    BY <2>1, <2>2, TablesKeep DEF LedgerInv, ReadsHold
  <2>10. WritersApart'
    BY <2>1, <2>2, TablesKeep DEF LedgerInv, WritersApart, Others
  <2> QED
    BY <2>1, <2>3, <2>4, <2>5, <2>6, <2>7, <2>8, <2>9, <2>10, TablesKeep DEF LedgerInv
<1> QED
  BY <1>1, <1>2

\* The strengthening that all the theorems below rest on.
THEOREM LedgerInvariant == LedgerSpec => []LedgerInv
<1>1. LedgerInit => LedgerInv
  BY LedgerInitInv
<1>2. LedgerInv /\ [LedgerNext]_ledgerVars => LedgerInv'
  BY LedgerStepInv
<1> QED
  BY <1>1, <1>2, PTL DEF LedgerSpec

\* Every reservation holds what its design asked for, inside the guardrails
\* (allocator.py, derive_fabric_intent; store.py, reserve_design).
THEOREM LedgerTypeCorrect == LedgerSpec => []LedgerTypeOK
<1>1. LedgerInv => LedgerTypeOK
  BY DEF LedgerInv
<1> QED
  BY <1>1, LedgerInvariant, PTL

\* No resource is held twice, on either store, for any policy, designs and
\* sessions (store.py, reserve_design; allocator.py, _first_prefix).
THEOREM NothingHeldTwice == LedgerSpec => []NoOverlap
<1>1. ASSUME LedgerInv PROVE NoOverlap
  <2> SUFFICES ASSUME NEW q \in Reservations, NEW r \in Reservations,
                      Store!ActiveResvn(q), Store!ActiveResvn(r),
                      NEW i \in 1..Len(resv[q].allocs),
                      NEW j \in 1..Len(resv[r].allocs)
               PROVE  LET a == resv[q].allocs[i]
                          b == resv[r].allocs[j] IN
                      /\ a.block \cap Excluded[a.pool] = {}
                      /\ <<q, i>> # <<r, j>> /\ a.domain = b.domain /\ a.pool = b.pool
                           => a.block \cap b.block = {}
    BY DEF NoOverlap
  <2>1. Holds(q) /\ Holds(r)
    BY StateFacts DEF Store!ActiveResvn, StoredResv, Holds
  <2>2. Safe(resv[q].allocs)
    BY <1>1, <2>1 DEF LedgerInv, RowsApart, Holds, Holding
  <2>3. CASE q = r
    BY <2>2, <2>3 DEF Safe
  <2>4. CASE q # r
    <3>1. ~Overlap(resv[q].allocs, resv[r].allocs)
      BY <1>1, <2>1, <2>4 DEF LedgerInv, RowsApart, Apart
    <3> QED
      BY <2>2, <3>1 DEF Safe, Overlap
  <2> QED
    BY <2>3, <2>4
<1> QED
  BY <1>1, LedgerInvariant, PTL

\* A retried request never reserves twice (store.py, reserve_design; the
\* partial unique index on idempotency_key_hash).
THEOREM KeysNameOne == LedgerSpec => []OneActivePerKey
<1>1. ASSUME LedgerInv PROVE OneActivePerKey
  <2>1. \A r \in Reservations : Store!ActiveResvn(r) <=> Holds(r)
    BY StateFacts DEF Store!ActiveResvn, StoredResv, Holds
  <2> QED
    BY <1>1, <2>1 DEF LedgerInv, RowsApart, Apart, OneActivePerKey
<1> QED
  BY <1>1, LedgerInvariant, PTL

-----------------------------------------------------------------------------
\* A COMMIT whose reservation did not change since it was read is one
\* operation of RunStore.
LEMMA CommitImplements ==
  ASSUME LedgerInv, NEW s \in Sessions, Commit(s), ~sess[s].stale
  PROVE  ReservationStep
<1> DEFINE c == Call(s)
<1>1. /\ Written(s) /\ sess[s].pc = "written" /\ c.op \in {"reserve", "transition"}
      /\ c.resv \in Reservations
  BY DEF LedgerInv, Shaped, Commit, Written, InTransaction
<1>2. /\ resv'[c.resv] = Row(s)
      /\ \A r \in Reservations : r # c.resv => resv'[r] = resv[r]
  BY <1>1 DEF LedgerInv, LedgerTypeOK, Commit
<1>3. CASE c.op = "reserve"
  <2>1. Row(s) = [state |-> "reserved", key |-> c.key, req |-> c.req,
                  allocs |-> sess[s].allocs]
    BY <1>3 DEF Row
  <2>2. resv[c.resv].state = "absent"
    BY <1>3 DEF LedgerInv, ReservesFresh, NoResv
  <2>3. ~Store!Reserved(c.resv)
    BY <1>1, <2>2 DEF Store!Reserved, StoredResv
  <2>4. \A q \in Reservations : Holds(q) => resv[q].allocs # sess[s].allocs
    <3>1. \A q \in Reservations : Holds(q) => q # c.resv
      BY <2>2 DEF Holds, Holding
    <3> QED
      BY <1>1, <2>1, <3>1 DEF LedgerInv, WritersApart, Apart, Holding
  <2>5. \A q \in Reservations : Store!ActiveResvn(q) =>
          [r \in Reservations |-> StoredResv(r)][q].intent # sess[s].allocs
    BY <2>4, StateFacts DEF Store!ActiveResvn, StoredResv, Holds, Holding
  <2>6. [r \in Reservations |-> StoredResv(r)]' =
        [[r \in Reservations |-> StoredResv(r)]
           EXCEPT ![c.resv] = [state |-> "reserved", intent |-> sess[s].allocs]]
    <3>1. \A r \in Reservations : StoredResv(r)' =
            IF r = c.resv THEN [state |-> "reserved", intent |-> sess[s].allocs]
            ELSE StoredResv(r)
      BY <1>2, <2>1 DEF StoredResv
    <3> QED
      BY <1>1, <3>1
  <2>7. Store!ReserveDesign(c.resv, sess[s].allocs)
    BY <2>3, <2>5, <2>6 DEF Store!ReserveDesign
  <2> QED
    BY <1>1, <2>7 DEF ReservationStep
<1>4. CASE c.op = "transition"
  <2>1. MoveAllowed(c)
    BY <1>1, <1>4 DEF LedgerInv, ReadsHold
  <2>2. Row(s) = [resv[c.resv] EXCEPT !.state = c.to] /\ c.to # "absent"
    BY <1>1, <1>4 DEF Row, LedgerInv, Shaped
  <2>3. /\ Row(s).state = c.to /\ Row(s).allocs = resv[c.resv].allocs
        /\ resv[c.resv].state # "absent"
    BY <1>1, <2>1, <2>2 DEF LedgerInv, LedgerTypeOK, MoveAllowed
  <2>4. [r \in Reservations |-> StoredResv(r)]' =
        [[r \in Reservations |-> StoredResv(r)] EXCEPT ![c.resv].state = c.to]
    <3>1. \A r \in Reservations : r # c.resv => StoredResv(r)' = StoredResv(r)
      BY <1>2 DEF StoredResv
    <3>2. \A r \in Reservations :
            r = c.resv => StoredResv(r)' = [StoredResv(r) EXCEPT !.state = c.to]
      <4> SUFFICES ASSUME NEW r \in Reservations, r = c.resv
                   PROVE  StoredResv(r)' = [StoredResv(r) EXCEPT !.state = c.to]
        OBVIOUS
      <4>1. StoredResv(r) = [state |-> resv[r].state, intent |-> resv[r].allocs]
        BY <2>3 DEF StoredResv
      <4>2. StoredResv(r)' = [state |-> c.to, intent |-> resv[r].allocs]
        BY <1>2, <2>2, <2>3 DEF StoredResv
      <4> QED
        BY <4>1, <4>2
    <3> QED
      BY <1>1, <3>1, <3>2
  <2>5. Store!TransitionReservation(c.resv, c.to, c.verified)
    <3>1. [r \in Reservations |-> StoredResv(r)][c.resv].state = resv[c.resv].state
      BY <1>1 DEF StoredResv
    <3>2. Store!Reserved(c.resv)
      BY <2>3, <3>1 DEF Store!Reserved
    <3>3. c.to \in Store!ResvMoves[[r \in Reservations |-> StoredResv(r)][c.resv].state]
          /\ (c.to = "released" => c.verified)
      BY <2>1, <3>1 DEF MoveAllowed
    <3> QED
      BY <2>4, <3>2, <3>3 DEF Store!TransitionReservation
  <2> QED
    BY <1>1, <2>5 DEF ReservationStep
<1> QED
  BY <1>1, <1>3, <1>4

\* The reservation transactions of both stores implement the atomic
\* operations of RunStore; on PostgreSQL a transition whose reservation
\* changed between its SELECT and its UPDATE is the exception (store.py,
\* reserve_design and transition_design_reservation).
THEOREM LedgerImplementsStore == LedgerSpec => ImplementsReservations
<1>1. LedgerInv /\ [LedgerNext]_ledgerVars =>
        [ReservationStep \/ \E s \in Sessions : sess[s].stale /\ Commit(s)]_ledgerVars
  <2> SUFFICES ASSUME LedgerInv, LedgerNext
               PROVE  ReservationStep \/ \E s \in Sessions : sess[s].stale /\ Commit(s)
    OBVIOUS
  <2>1. PICK s \in Sessions : TablesSame \/ Commit(s)
    BY DEF LedgerNext, Begin, Abort, LockDomain, LookupKey, ReadNetworks,
       ReadScalars, Read, Allocate, Insert, Update, Write, Select
  <2>2. CASE TablesSame
    <3>1. \A r \in Reservations : StoredResv(r)' = StoredResv(r)
      BY <2>2 DEF StoredResv, TablesSame
    <3> QED
      BY <3>1 DEF ReservationStep, Store!storeVars
  <2>3. CASE Commit(s)
    BY <2>3, CommitImplements
  <2> QED
    BY <2>1, <2>2, <2>3
<1> QED
  BY <1>1, LedgerInvariant, PTL DEF LedgerSpec, ImplementsReservations
=============================================================================
