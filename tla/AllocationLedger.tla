-------------------------- MODULE AllocationLedger --------------------------
(***************************************************************************)
(* reserve_design and transition_design_reservation (store.py), statement  *)
(* by statement, with the first-fit allocator between the SELECTs and the  *)
(* INSERTs (allocator.py): many sessions reserve prefixes, VLANs, instance *)
(* and group numbers out of the pools of a policy, and give them back.     *)
(*                                                                         *)
(* As in StoreSessions, SQLite lets one session in at a time, PostgreSQL   *)
(* runs them side by side at READ COMMITTED behind the advisory lock of    *)
(* the allocation domain.  Only PostgreSQL has a constraint against        *)
(* overlapping rows; both have the unique indexes on active reservations.  *)
(*                                                                         *)
(* Data abstraction.  A pool is a range of integers: the addresses of a    *)
(* supernet, or the values of a scalar.  A design asks for items in the    *)
(* order in which derive_fabric_intent reserves them; what it validates    *)
(* between them is left out (it raises, and that is Abort).  The rows of   *)
(* network_allocations and scalar_allocations always have the state of     *)
(* their reservation, which one transaction writes to all of them.  The    *)
(* audit event that ends every transaction is the subject of StoreSessions.*)
(***************************************************************************)
EXTENDS Naturals, Sequences

CONSTANTS
  None,
  Sessions, Reservations, Keys, Backends,
  Domains,        \* allocation domains
  NetworkPools,   \* resource_pool_id
  ScalarPools,    \* resource_type
  Excluded,       \* what the policy keeps out of each pool
  Designs,        \* requirement documents
  DomainOf,       \* the allocation domain of each
  ItemsOf         \* and the items it needs

Pools == NetworkPools \cup ScalarPools

\* "first": the first free block of `size` in lo..hi (reserve_prefix,
\* reserve_scalar); "value": a requested number (reserve_requested_scalar);
\* "derived": lo plus the number reserved just before (l2_id).
Items == [how : {"first", "value", "derived"}, pool : Pools, lo : Nat,
          hi : Nat, size : Nat \ {0}, value : Nat]

ASSUME LedgerAssumption ==
  /\ Backends \subseteq {"sqlite", "postgresql"}
  /\ Excluded \in [Pools -> SUBSET Nat]
  /\ DomainOf \in [Designs -> Domains]
  /\ ItemsOf \in [Designs -> Seq(Items)]
  /\ \A d \in Designs : \A i \in 1..Len(ItemsOf[d]) :
       ItemsOf[d][i].how # "first" => ItemsOf[d][i].size = 1
  /\ None \notin Keys /\ None \notin Designs

VARIABLES
  backend,
  resv,     \* tables design_reservations and *_allocations, committed
  sess      \* the state of each session

ledgerVars == <<backend, resv, sess>>

NoResv == [state |-> "absent", key |-> None, req |-> None, allocs |-> <<>>]
NoCall == [op |-> "none", resv |-> None, req |-> None, key |-> None,
           to |-> "absent", verified |-> FALSE]
Idle   == [pc |-> "idle", call |-> NoCall, taken |-> [p \in Pools |-> {}],
           last |-> 0, allocs |-> <<>>, stale |-> FALSE]

\* A reservation as RunStore has it: an intent is what was allocated.
StoredResv(r) ==
  [state |-> resv[r].state,
   intent |-> IF resv[r].state = "absent" THEN None ELSE resv[r].allocs]

Store == INSTANCE RunStore WITH
  Intents <- Seq([domain : Domains, pool : Pools, block : SUBSET Nat]),
  Plans <- {}, Fabrics <- {}, Runs <- {}, Actors <- {}, Artifacts <- {},
  Adoptions <- {}, IntentOf <- <<>>, FabricOf <- <<>>,
  MaxTime <- 0, Horizon <- 0, LockTTL <- 0,
  intents <- {}, plans <- <<>>, approvals <- <<>>, runs <- <<>>,
  locks <- <<>>, manifests <- <<>>, now <- 0,
  reservations <- [r \in Reservations |-> StoredResv(r)]

LedgerInit ==
  /\ backend \in Backends
  /\ resv = [r \in Reservations |-> NoResv]
  /\ sess = [s \in Sessions |-> Idle]

-----------------------------------------------------------------------------
Call(s) == sess[s].call
InTransaction(s) == sess[s].pc # "idle"
Others(s) == Sessions \ {s}
Goto(s, pc) == sess' = [sess EXCEPT ![s].pc = pc]
TablesSame  == UNCHANGED <<backend, resv>>

ReserveCalls ==
  {[op |-> "reserve", resv |-> r, req |-> d, key |-> k, to |-> "reserved",
    verified |-> FALSE] : r \in Reservations, d \in Designs, k \in Keys}
TransitionCalls ==
  {[op |-> "transition", resv |-> r, req |-> None, key |-> None, to |-> t,
    verified |-> v] :
     r \in Reservations, t \in {"committed", "released", "quarantined"},
     v \in BOOLEAN}

\* A reservation identifier is a fresh uuid.
Fresh(call) ==
  call.op = "reserve" =>
    /\ resv[call.resv] = NoResv
    /\ \A x \in Sessions :
         Call(x).op = "reserve" => Call(x).resv # call.resv

\* BEGIN IMMEDIATE waits until no other session writes.
Begin(s, call) ==
  /\ ~InTransaction(s)
  /\ backend = "sqlite" => \A x \in Sessions : ~InTransaction(x)
  /\ Fresh(call)
  /\ sess' = [sess EXCEPT ![s].pc = "begun", ![s].call = call]
  /\ TablesSame

\* ROLLBACK, or the COMMIT of a transaction that wrote nothing.
Abort(s) == sess' = [sess EXCEPT ![s] = Idle] /\ TablesSame

-----------------------------------------------------------------------------
(* reserve_design *)

HasDomain(x) ==
  Call(x).op = "reserve" /\ sess[x].pc \notin {"idle", "begun"}

\* pg_advisory_xact_lock on "allocation:<domain>".
DomainFree(s) ==
  \A x \in Others(s) :
    HasDomain(x) => DomainOf[Call(x).req] # DomainOf[Call(s).req]

LockDomain(s) ==
  /\ sess[s].pc = "begun" /\ Call(s).op = "reserve"
  /\ DomainFree(s)
  /\ Goto(s, "locked")
  /\ TablesSame

\* Fault: quarantined resources are given to the next design.
HoldingFresh == {"reserved", "committed"}

\* state IN ('reserved','committed','quarantined')
Holding == {"reserved", "committed", "quarantined"}

Holds(r) == resv[r].state \in Holding

\* A known key returns its reservation, or raises for another design.
LookupKey(s) ==
  /\ sess[s].pc = "locked"
  /\ IF \E r \in Reservations : Holds(r) /\ resv[r].key = Call(s).key
     THEN Abort(s)
     ELSE Goto(s, "new") /\ TablesSame

\* What active reservations of the domain hold in a pool, and the policy.
InUse(domain, pool) ==
  Excluded[pool] \cup
  UNION {UNION {resv[r].allocs[i].block :
                  i \in {j \in 1..Len(resv[r].allocs) :
                           /\ resv[r].allocs[j].domain = domain
                           /\ resv[r].allocs[j].pool = pool}} :
           r \in {q \in Reservations : Holds(q)}}

\* The SELECT from network_allocations, then the one from scalar_allocations.
Read(s, from, to, pools) ==
  /\ sess[s].pc = from
  /\ sess' = [sess EXCEPT ![s].pc = to,
                ![s].taken = [p \in Pools |->
                   IF p \in pools THEN InUse(DomainOf[Call(s).req], p) ELSE @[p]]]
  /\ TablesSame

ReadNetworks(s) == Read(s, "new", "networks", NetworkPools)
ReadScalars(s)  == Read(s, "networks", "deriving", ScalarPools)

NextItem(s) == ItemsOf[Call(s).req][Len(sess[s].allocs) + 1]
Derived(s)  == Len(sess[s].allocs) = Len(ItemsOf[Call(s).req])

Block(item, a) == a..(a + item.size - 1)

\* Fault: subnets are cut at every address and run over the end of the pool.
WantedUnaligned(item, last) ==
  CASE item.how = "first"   -> item.lo..item.hi
    [] item.how = "value"   -> {item.value} \cap item.lo..item.hi
    [] item.how = "derived" -> {item.lo + last} \cap item.lo..item.hi

\* The candidates of an item.
Wanted(item, last) ==
  CASE item.how = "first" ->
         {a \in item.lo..item.hi :
            (a - item.lo) % item.size = 0 /\ a + item.size - 1 <= item.hi}
    [] item.how = "value"   -> {item.value} \cap item.lo..item.hi
    [] item.how = "derived" -> {item.lo + last} \cap item.lo..item.hi

\* The candidates that overlap nothing taken.
Free(s) ==
  {a \in Wanted(NextItem(s), sess[s].last) :
     Block(NextItem(s), a) \cap sess[s].taken[NextItem(s).pool] = {}}

Allocate(s) ==
  LET item == NextItem(s) IN
  /\ sess[s].pc = "deriving" /\ ~Derived(s)
  /\ IF Free(s) = {} THEN Abort(s)
     ELSE \E a \in Free(s) :
            /\ \A b \in Free(s) : a <= b
            /\ sess' = [sess EXCEPT
                  ![s].taken[item.pool] = @ \cup Block(item, a),
                  ![s].last = a,
                  ![s].allocs = Append(@, [domain |-> DomainOf[Call(s).req],
                                           pool |-> item.pool,
                                           block |-> Block(item, a)])]
            /\ TablesSame

\* The row a session writes.
Row(s) ==
  IF Call(s).op = "reserve"
  THEN [state |-> "reserved", key |-> Call(s).key, req |-> Call(s).req,
        allocs |-> sess[s].allocs]
  ELSE [resv[Call(s).resv] EXCEPT !.state = Call(s).to]

Overlap(A, B) ==
  \E i \in 1..Len(A), j \in 1..Len(B) :
    /\ A[i].domain = B[j].domain /\ A[i].pool = B[j].pool
    /\ A[i].block \cap B[j].block # {}

\* Fault: no unique index on the key.
ClashNoKey(a, b) ==
  \/ a.allocs = b.allocs
  \/ backend = "postgresql" /\ Overlap(a.allocs, b.allocs)

\* The constraints on active rows: idempotency_key_hash and reservation_hash
\* are unique, and PostgreSQL excludes overlapping allocations.
Clash(a, b) ==
  \/ a.key = b.key \/ a.allocs = b.allocs
  \/ backend = "postgresql" /\ Overlap(a.allocs, b.allocs)

Written(x) == sess[x].pc = "written"

\* Writing an active row waits for the sessions that wrote a row it clashes
\* with, and fails if one is committed.
Write(s) ==
  /\ \A x \in Others(s) :
       Written(x) => ~Clash(Row(s), Row(x)) /\ Call(x).resv # Call(s).resv
  /\ IF /\ Row(s).state \in Holding
        /\ \E r \in Reservations \ {Call(s).resv} :
             Holds(r) /\ Clash(Row(s), resv[r])
     THEN Abort(s)
     ELSE Goto(s, "written") /\ TablesSame

Insert(s) == sess[s].pc = "deriving" /\ Derived(s) /\ Write(s)

-----------------------------------------------------------------------------
(* transition_design_reservation *)

\* Fault: a release needs no verification.
MoveAllowedUnverified(call) ==
  /\ resv[call.resv].state # "absent"
  /\ call.to \in Store!ResvMoves[resv[call.resv].state]

MoveAllowed(call) ==
  /\ resv[call.resv].state # "absent"
  /\ call.to \in Store!ResvMoves[resv[call.resv].state]
  /\ call.to = "released" => call.verified

Select(s) ==
  /\ sess[s].pc = "begun" /\ Call(s).op = "transition"
  /\ IF MoveAllowed(Call(s)) THEN Goto(s, "read") /\ TablesSame ELSE Abort(s)

\* UPDATE by the reservation's identifier: whatever the row is by now.
Update(s) == sess[s].pc = "read" /\ Write(s)

-----------------------------------------------------------------------------
\* The sessions that read the reservation before s changed it.
Stale(s, x) == sess[x].pc = "read" /\ Call(x).resv = Call(s).resv

Commit(s) ==
  /\ Written(s)
  /\ resv' = [resv EXCEPT ![Call(s).resv] = Row(s)]
  /\ sess' = [x \in Sessions |->
                IF x = s THEN Idle
                ELSE [sess[x] EXCEPT !.stale = @ \/ Stale(s, x)]]
  /\ UNCHANGED backend

LedgerNext ==
  \E s \in Sessions :
    \/ \E call \in ReserveCalls \cup TransitionCalls : Begin(s, call)
    \/ LockDomain(s) \/ LookupKey(s) \/ ReadNetworks(s) \/ ReadScalars(s)
    \/ Allocate(s) \/ Insert(s)
    \/ Select(s) \/ Update(s)
    \/ Commit(s)
    \/ InTransaction(s) /\ Abort(s)

LedgerSpec == LedgerInit /\ [][LedgerNext]_ledgerVars

-----------------------------------------------------------------------------
Allocs == Seq([domain : Domains, pool : Pools, block : SUBSET Nat])
Calls == [op : {"none", "reserve", "transition"},
          resv : Reservations \cup {None}, req : Designs \cup {None},
          key : Keys \cup {None}, to : Store!ResvStates \cup {"absent"},
          verified : BOOLEAN]
PCs == {"idle", "begun", "locked", "new", "networks", "deriving", "read",
        "written"}

\* An allocation answers an item: its pool, its size, its range.
Answers(alloc, item, domain) ==
  /\ alloc.domain = domain /\ alloc.pool = item.pool
  /\ \E a \in item.lo..item.hi :
       alloc.block = Block(item, a) /\ alloc.block \subseteq item.lo..item.hi

\* Types of the tables and of the sessions; what a reservation holds is what
\* its design asked for, item by item, inside the guardrails.
LedgerTypeOK ==
  /\ backend \in Backends
  /\ resv \in [Reservations ->
               [state : Store!ResvStates \cup {"absent"}, key : Keys \cup {None},
                req : Designs \cup {None}, allocs : Allocs]]
  /\ \A r \in Reservations : resv[r].state # "absent" =>
       /\ resv[r].key \in Keys /\ resv[r].req \in Designs
       /\ Len(resv[r].allocs) = Len(ItemsOf[resv[r].req])
       /\ \A i \in 1..Len(resv[r].allocs) :
            Answers(resv[r].allocs[i], ItemsOf[resv[r].req][i],
                    DomainOf[resv[r].req])
  /\ sess \in [Sessions ->
               [pc : PCs, call : Calls, taken : [Pools -> SUBSET Nat],
                last : Nat, allocs : Allocs, stale : BOOLEAN]]

\* No address and no number is held twice, by two reservations or within
\* one, and none that the policy keeps out: not after a quarantine, not after
\* a release that raced a reservation, on either store.
NoOverlap ==
  \A q, r \in Reservations : Store!ActiveResvn(q) /\ Store!ActiveResvn(r) =>
    \A i \in 1..Len(resv[q].allocs), j \in 1..Len(resv[r].allocs) :
      LET a == resv[q].allocs[i]
          b == resv[r].allocs[j] IN
        /\ a.block \cap Excluded[a.pool] = {}
        /\ <<q, i>> # <<r, j>> /\ a.domain = b.domain /\ a.pool = b.pool
             => a.block \cap b.block = {}

\* A retried or doubled request never reserves twice: an idempotency key
\* names one active reservation, also when two domains are asked at once.
OneActivePerKey ==
  \A q, r \in Reservations :
    Store!ActiveResvn(q) /\ Store!ActiveResvn(r) /\ resv[q].key = resv[r].key
      => q = r

ReservationStep ==
  \/ UNCHANGED Store!storeVars
  \/ \E s \in Sessions, r \in Reservations :
       /\ Call(s).resv = r
       /\ \/ Store!ReserveDesign(r, sess[s].allocs)
          \/ Store!TransitionReservation(r, Call(s).to, Call(s).verified)

\* Every COMMIT is one operation of RunStore, unless the reservation changed
\* after the session had read it.
ImplementsReservations ==
  [][ReservationStep
       \/ \E s \in Sessions : sess[s].stale /\ Commit(s)]_ledgerVars
=============================================================================
