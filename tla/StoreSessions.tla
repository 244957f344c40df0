--------------------------- MODULE StoreSessions ---------------------------
(***************************************************************************)
(* The store transactions that move runs, statement by statement: what     *)
(* RunStore takes for one atomic action is here what a database session    *)
(* does between BEGIN and COMMIT while other sessions do the same.         *)
(*                                                                         *)
(* SQLite (store.py) opens every transaction with BEGIN IMMEDIATE, so one  *)
(* session writes at a time.  PostgreSQL (postgres_store.py, and the       *)
(* constraints of 001_production_schema.sql) runs them side by side at     *)
(* READ COMMITTED: a SELECT sees what is committed, an UPDATE or INSERT    *)
(* waits for whoever holds the row or the unique key, and advisory locks   *)
(* guard what the code names.  `backend` is fixed when the store is opened.*)
(*                                                                         *)
(* Data abstraction.  Plans and their approvals are fixed, one plan for    *)
(* each fabric.  An event of the audit chain is known by its position, so  *)
(* previous_hash is the position of the event whose hash it is.            *)
(***************************************************************************)
EXTENDS Naturals, Sequences

CONSTANTS
  None,
  Sessions,     \* database sessions: API threads, workers, operators
  Runs, Keys, Fabrics,
  Modes,        \* the run modes that clients ask for
  Targets,      \* the statuses that clients move runs to
  Backends      \* the stores considered: "sqlite", "postgresql"

VARIABLES
  backend,
  rows,         \* table runs, committed
  held,         \* table fabric_locks, committed
  ledger,       \* table owned_state_manifests, in sequence order
  events,       \* table audit_events: the previous_hash of each event
  sess          \* the state of each session

sessVars == <<backend, rows, held, ledger, events, sess>>

NoRow  == [status |-> "absent", mode |-> "none", key |-> None, fabric |-> None]
NoCall == [op |-> "none", run |-> None, to |-> "absent",
           mode |-> "none", key |-> None, fabric |-> None]
Idle   == [pc |-> "idle", call |-> NoCall, previous |-> 0, stale |-> FALSE]

\* The tables as RunStore has them, with what is fixed here filled in.
StoredRun(r) ==
  [status |-> rows[r].status, mode |-> rows[r].mode, plan |-> rows[r].fabric,
   artifact |-> IF rows[r] = NoRow THEN None ELSE "artifact",
   fabric |-> rows[r].fabric, key |-> rows[r].key,
   window_end |-> IF rows[r].mode = "apply" THEN 1 ELSE 0]
StoredLock(f) == [run |-> held[f], expires_at |-> IF held[f] = None THEN 0 ELSE 1]

Store == INSTANCE RunStore WITH
  Intents <- Fabrics, Plans <- Fabrics, Actors <- {"planner", "approver"},
  Artifacts <- {"artifact"}, Reservations <- {}, Adoptions <- {},
  IntentOf <- [p \in Fabrics |-> p], FabricOf <- [i \in Fabrics |-> i],
  MaxTime <- 1, Horizon <- 1, LockTTL <- 1,
  intents <- Fabrics,
  reservations <- [r \in {} |-> None],
  plans <- [p \in Fabrics |-> [artifact |-> "artifact", reservation |-> None,
                               created_by |-> "planner"]],
  approvals <- [p \in Fabrics |-> [decision |-> "approved",
                                   approver |-> "approver",
                                   artifact |-> "artifact", expires_at |-> 1]],
  runs <- [r \in Runs |-> StoredRun(r)],
  locks <- [f \in Fabrics |-> StoredLock(f)],
  manifests <- ledger,
  now <- 0

ASSUME SessionsAssumption ==
  /\ Modes \subseteq {"dry_run", "apply"}
  /\ Targets \subseteq Store!RunStatus
  /\ Backends \subseteq {"sqlite", "postgresql"}
  /\ None \notin Runs /\ None \notin Keys /\ None \notin Fabrics /\ None # "artifact"

SessInit ==
  /\ backend \in Backends
  /\ rows = [r \in Runs |-> NoRow]
  /\ held = [f \in Fabrics |-> None]
  /\ ledger = <<>>
  /\ events = <<>>
  /\ sess = [s \in Sessions |-> Idle]

-----------------------------------------------------------------------------
Call(s) == sess[s].call
Active(s) == sess[s].pc # "idle"

Goto(s, pc) == sess' = [sess EXCEPT ![s].pc = pc]
TablesSame  == UNCHANGED <<backend, rows, held, ledger, events>>

Others(s) == Sessions \ {s}

\* The calls of transition_run, complete_apply and create_run.
OfRun(op, r, to) == [op |-> op, run |-> r, to |-> to,
                     mode |-> "none", key |-> None, fabric |-> None]
MoveCalls == {OfRun("move", r, t) : r \in Runs, t \in Targets}
CompleteCalls == {OfRun("complete", r, "apply_succeeded") : r \in Runs}
CreateCalls ==
  {[op |-> "create", run |-> r, mode |-> m, key |-> k, fabric |-> f,
    to |-> IF m = "apply" THEN "apply_queued" ELSE "dry_run_queued"] :
     r \in Runs, m \in Modes, k \in Keys, f \in Fabrics}

\* A run identifier is a fresh uuid.
Fresh(call) ==
  call.op = "create" =>
    /\ rows[call.run] = NoRow
    /\ \A x \in Sessions : Call(x).op = "create" => Call(x).run # call.run

\* Fault: a deferred BEGIN lets SQLite sessions read side by side.
BeginDeferred == TRUE

\* BEGIN IMMEDIATE waits until no other session writes.
MayBegin == backend = "sqlite" => \A x \in Sessions : ~Active(x)

Begin(s, call) ==
  /\ ~Active(s)
  /\ MayBegin
  /\ Fresh(call)
  /\ sess' = [sess EXCEPT ![s].pc = "begun", ![s].call = call]
  /\ TablesSame

\* ROLLBACK: a check that raised, or a connection that broke.
Abort(s) == sess' = [sess EXCEPT ![s] = Idle] /\ TablesSame

Committed(r) == \E i \in 1..Len(ledger) : ledger[i].source_reference = r

\* The SELECT that every later check relies on.
MoveAllowed(call) ==
  /\ rows[call.run] # NoRow
  /\ IF call.op = "complete"
     THEN rows[call.run].status = "apply_running" /\ ~Committed(call.run)
     ELSE call.to \in Store!RunMoves[rows[call.run].status]

KeyUnknown(k) == \A r \in Runs : rows[r].key # k

Select(s) ==
  /\ sess[s].pc = "begun"
  /\ IF (IF Call(s).op = "create" THEN KeyUnknown(Call(s).key)
                                  ELSE MoveAllowed(Call(s)))
     THEN Goto(s, "read") /\ TablesSame
     ELSE Abort(s)

\* The other sessions that wrote to the run's row and did not commit.
Writes(x) == sess[x].pc \in {"written", "chained"}

RowFree(s) == \A x \in Others(s) : Call(x).run = Call(s).run => ~Writes(x)

\* INSERT INTO owned_state_manifests, UPDATE runs and DELETE FROM fabric_locks
\* by the run's identifier: whatever the row is by now.
Update(s) ==
  /\ sess[s].pc = "read" /\ Call(s).op # "create"
  /\ RowFree(s)
  /\ IF Call(s).op = "complete" /\ Committed(Call(s).run)
     THEN Abort(s)
     ELSE Goto(s, "written") /\ TablesSame

\* Sessions that inserted a run and did not commit.
Inserted(x) ==
  Call(x).op = "create"
    /\ sess[x].pc \in {"inserted", "fabric", "written", "chained"}

KeyFree(s) == \A x \in Others(s) : Inserted(x) => Call(x).key # Call(s).key

\* INSERT INTO runs: the idempotency key is unique.
InsertRun(s) ==
  /\ sess[s].pc = "read" /\ Call(s).op = "create"
  /\ KeyFree(s)
  /\ IF KeyUnknown(Call(s).key)
     THEN /\ Goto(s, IF Call(s).mode = "apply" THEN "inserted" ELSE "written")
          /\ TablesSame
     ELSE Abort(s)

HasFabric(x) ==
  Call(x).mode = "apply" /\ sess[x].pc \in {"fabric", "written", "chained"}

\* Fault: the lock is shared from the INSERT on and made exclusive here.
FabricFreeShared(s) ==
  \A x \in Others(s) :
    Inserted(x) /\ Call(x).mode = "apply" => Call(x).fabric # Call(s).fabric

\* pg_advisory_xact_lock on "fabric:<id>".
FabricFree(s) ==
  \A x \in Others(s) : HasFabric(x) => Call(x).fabric # Call(s).fabric

LockFabric(s) ==
  /\ sess[s].pc = "inserted"
  /\ FabricFree(s)
  /\ Goto(s, "fabric")
  /\ TablesSame

\* Fault: a fabric that is locked is waited for.
TakeLockWaiting(s) ==
  /\ sess[s].pc = "fabric"
  /\ held[Call(s).fabric] = None
  /\ Goto(s, "written")
  /\ TablesSame

\* SELECT and INSERT of the fabric_locks row; the fabric is its primary key.
TakeLock(s) ==
  /\ sess[s].pc = "fabric"
  /\ IF held[Call(s).fabric] = None THEN Goto(s, "written") /\ TablesSame
                                    ELSE Abort(s)

\* Fault: the audit chain is not locked.
ChainFreeAlways(s) == TRUE

\* pg_advisory_xact_lock on "audit-chain".
ChainFree(s) == \A x \in Others(s) : sess[x].pc # "chained"

LastEvent == Len(events)

\* _append_audit: the last event is read once the chain is locked.
AppendAudit(s) ==
  /\ sess[s].pc = "written"
  /\ ChainFree(s)
  /\ sess' = [sess EXCEPT ![s].pc = "chained", ![s].previous = LastEvent]
  /\ TablesSame

\* complete_apply appends two events, the second after its own first.
NewEvents(s) ==
  IF Call(s).op = "complete"
  THEN <<sess[s].previous, sess[s].previous + 1>> ELSE <<sess[s].previous>>

NewRow(s) ==
  IF Call(s).op = "create"
  THEN [status |-> Call(s).to, mode |-> Call(s).mode, key |-> Call(s).key,
        fabric |-> Call(s).fabric]
  ELSE [rows[Call(s).run] EXCEPT !.status = Call(s).to]

NewLock(s, f) ==
  IF Call(s).op = "create" /\ Call(s).mode = "apply" /\ f = Call(s).fabric
  THEN Call(s).run
  ELSE IF Call(s).op # "create" /\ Call(s).to \in Store!Terminal
            /\ held[f] = Call(s).run
       THEN None ELSE held[f]

Manifest(s) ==
  [fabric |-> rows[Call(s).run].fabric, source_type |-> "successful_apply",
   source_reference |-> Call(s).run]

\* The sessions that read the run before s changed it.
Stale(s, x) == sess[x].pc = "read" /\ Call(x).run = Call(s).run

Commit(s) ==
  /\ sess[s].pc = "chained"
  /\ rows' = [rows EXCEPT ![Call(s).run] = NewRow(s)]
  /\ held' = [f \in Fabrics |-> NewLock(s, f)]
  /\ ledger' = IF Call(s).op = "complete" THEN Append(ledger, Manifest(s))
               ELSE ledger
  /\ events' = events \o NewEvents(s)
  /\ sess' = [x \in Sessions |->
                IF x = s THEN Idle
                ELSE [sess[x] EXCEPT !.stale = @ \/ Stale(s, x)]]
  /\ UNCHANGED backend

Statement(s) ==
  \/ Select(s) \/ Update(s) \/ InsertRun(s) \/ LockFabric(s) \/ TakeLock(s)
  \/ AppendAudit(s) \/ Commit(s)

SessNext ==
  \E s \in Sessions :
    \/ \E call \in MoveCalls \cup CompleteCalls \cup CreateCalls : Begin(s, call)
    \/ Statement(s)
    \/ Active(s) /\ Abort(s)

SessSpec == SessInit /\ [][SessNext]_sessVars

-----------------------------------------------------------------------------
Calls == [op : {"none", "move", "complete", "create"},
          run : Runs \cup {None}, to : Store!RunStatus \cup {"absent"},
          mode : {"none", "dry_run", "apply"}, key : Keys \cup {None},
          fabric : Fabrics \cup {None}]
Rows == [status : Store!RunStatus \cup {"absent"},
         mode : {"none", "dry_run", "apply"}, key : Keys \cup {None},
         fabric : Fabrics \cup {None}]
PCs == {"idle", "begun", "read", "inserted", "fabric", "written", "chained"}

\* Types of the tables and of the sessions.
SessTypeOK ==
  /\ backend \in Backends
  /\ rows \in [Runs -> Rows]
  /\ held \in [Fabrics -> Runs \cup {None}]
  /\ ledger \in Seq(Store!ManifestType)
  /\ events \in Seq(Nat)
  /\ sess \in [Sessions -> [pc : PCs, call : Calls, previous : Nat,
                            stale : BOOLEAN]]

\* verify_audit_chain holds for every reader at every instant, on both
\* stores: each event names the one before it as its predecessor.
ChainVerifies == \A i \in 1..Len(events) : events[i] = i - 1


StoreStep ==
  \/ UNCHANGED Store!storeVars
  \/ \E r \in Runs, f \in Fabrics, m \in Modes, k \in Keys :
       Store!CreateRun(r, f, m, k, 0, 1)
  \/ \E r \in Runs, t \in Store!RunStatus : Store!TransitionRun(r, t)
  \/ \E r \in Runs : Store!CompleteApply(r, "artifact")

\* Every COMMIT is one operation of RunStore.  Only on PostgreSQL may the
\* run's row have changed after the session had read it: BEGIN IMMEDIATE
\* leaves no room for that.
ImplementsStore ==
  [][StoreStep \/ \E s \in Sessions :
       backend = "postgresql" /\ sess[s].stale /\ Commit(s)]_sessVars

\* What PostgreSQL lets a session wait for: others that hold the row, the
\* unique key, the fabric or the chain that its next statement needs.
Waits(s) ==
  \/ sess[s].pc = "read" /\ Call(s).op # "create" /\ ~RowFree(s)
  \/ sess[s].pc = "read" /\ Call(s).op = "create" /\ ~KeyFree(s)
  \/ sess[s].pc = "inserted" /\ ~FabricFree(s)
  \/ sess[s].pc = "written" /\ ~ChainFree(s)

\* The sessions never all wait for each other: unique keys, row locks, the
\* fabric lock and the audit lock are taken in one order by all transactions.
NoDeadlock ==
  (\E s \in Sessions : Active(s)) => \E s \in Sessions : Active(s) /\ ~Waits(s)

\* Nothing else holds a session up: one that does not wait can take its next
\* statement, whatever the tables contain (store.py, create_run: a fabric that
\* another run holds is a ConflictError at once).
OnlyLocksBlock ==
  \A s \in Sessions : ENABLED Statement(s) <=> Active(s) /\ ~Waits(s)

-----------------------------------------------------------------------------
\* "A failed or rolled-back run never advances the ownership ledger"
\* (docs/owned-state-reconciliation.md:49).
LedgerOnlyFromSuccess ==
  \A i \in 1..Len(ledger) :
    rows[ledger[i].source_reference].status = "apply_succeeded"
=============================================================================
