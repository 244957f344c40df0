------------------------------ MODULE RunStore ------------------------------
(***************************************************************************)
(* The state store of the orchestrator (src/orchestrator/store.py): the    *)
(* tables that carry a fabric design from its reservation to a run.        *)
(*                                                                         *)
(* Every write of the SQLite store is one BEGIN IMMEDIATE transaction, so  *)
(* every operation is one atomic action here; an operation that raises     *)
(* rolls back and is the absence of a step.  The clients (the HTTP         *)
(* handlers, the workers, an operator at a Python prompt) are the most     *)
(* general ones: any operation may be called at any time with any          *)
(* arguments.  ApplyWorker replaces the anonymous worker by the real one.  *)
(*                                                                         *)
(* Data abstraction.  A plan identifier is the hash of the plan document,  *)
(* so one value of Plans stands for plan_id, plan_hash, the intent and the *)
(* intent version bound in it.  An artifact hash is a value of Artifacts;  *)
(* nothing ties it to the plan, because another release of the renderer    *)
(* may render the same plan differently.                                   *)
(*                                                                         *)
(* A definition whose comment says Fault is no part of the specification:  *)
(* it is a bug this code could plausibly have, put in place of the         *)
(* definition after it to see that the properties notice.                  *)
(***************************************************************************)
EXTENDS Integers, Sequences

CONSTANTS
  Intents, Plans, Fabrics, Runs, Keys, Actors, Artifacts, Reservations,
  Adoptions,      \* source references of adopted baselines
  None,           \* the SQL NULL, and the key of an absent row
  IntentOf,       \* the intent a plan document is bound to
  FabricOf,       \* the fabric of an intent
  MaxTime,        \* bound on the clock
  Horizon,        \* bound on the times that a request may name
  LockTTL         \* lock_ttl_seconds

ASSUME NoneAssumption ==
  /\ None \notin Runs /\ None \notin Artifacts /\ None \notin Reservations
  /\ None \notin Keys /\ None \notin Plans /\ None \notin Actors
  /\ None \notin Intents /\ None \notin Fabrics

ASSUME BindingAssumption ==
  /\ IntentOf \in [Plans -> Intents]
  /\ FabricOf \in [Intents -> Fabrics]

\* "adoption:<reference>:<hash>" is never the identifier of a run.
ASSUME ReferenceAssumption == Runs \cap Adoptions = {}

ASSUME TimeAssumption ==
  MaxTime \in Nat /\ Horizon \in Nat /\ LockTTL \in Nat

VARIABLES
  intents,        \* table intents: the set of saved intents
  reservations,   \* table design_reservations
  plans,          \* table plans
  approvals,      \* table approvals: the newest row of each plan
  runs,           \* table runs
  locks,          \* table fabric_locks: the row of each fabric
  manifests,      \* table owned_state_manifests, in sequence order
  now             \* the wall clock every client reads

storeVars ==
  <<intents, reservations, plans, approvals, runs, locks, manifests, now>>

-----------------------------------------------------------------------------
ActiveResv == {"reserved", "committed", "quarantined"}
ResvStates == ActiveResv \cup {"released"}

ApplyActive  == {"apply_queued", "apply_running", "rollback_running"}
DryRunActive == {"dry_run_queued", "dry_run_running"}

\* Fault: the lock is given up as soon as the rollback starts.
TerminalEarly == {"dry_run_succeeded", "dry_run_blocked", "dry_run_failed",
                  "apply_succeeded", "apply_failed", "rollback_running",
                  "rolled_back", "rollback_failed"}

\* The set `terminal` of transition_run.
Terminal     == {"dry_run_succeeded", "dry_run_blocked", "dry_run_failed",
                 "apply_succeeded", "apply_failed", "rolled_back",
                 "rollback_failed"}
RunStatus    == ApplyActive \cup DryRunActive \cup Terminal

\* The table `allowed` of transition_run.
RunMovesTable ==
  [s \in RunStatus |->
     CASE s = "dry_run_queued"   -> {"dry_run_running", "dry_run_failed"}
       [] s = "dry_run_running"  -> {"dry_run_succeeded", "dry_run_blocked",
                                     "dry_run_failed"}
       [] s = "apply_queued"     -> {"apply_running", "apply_failed"}
       [] s = "apply_running"    -> {"apply_succeeded", "apply_failed",
                                     "rollback_running"}
       [] s = "rollback_running" -> {"rolled_back", "rollback_failed"}
       [] OTHER                  -> {}]

\* Fault: a successful apply may be rolled back later.
RunMovesUndo == [RunMovesTable EXCEPT !["apply_succeeded"] = {"rollback_running"}]

RunMoves == RunMovesTable

\* The table `allowed` of transition_design_reservation.
ResvMoves ==
  [s \in ResvStates |->
     CASE s = "reserved"    -> {"committed", "released", "quarantined"}
       [] s = "committed"   -> {"released", "quarantined"}
       [] s = "quarantined" -> {"released"}
       [] OTHER             -> {}]

NoReservation == [state |-> "absent", intent |-> None]
NoPlan     == [artifact |-> None, reservation |-> None, created_by |-> None]
NoApproval == [decision |-> "none", approver |-> None, artifact |-> None,
               expires_at |-> 0]
NoRun      == [status |-> "absent", mode |-> "none", plan |-> None,
               artifact |-> None, fabric |-> None, key |-> None,
               window_end |-> 0]
NoLock     == [run |-> None, expires_at |-> 0]

Reserved(r)    == reservations[r].state # "absent"
ActiveResvn(r) == reservations[r].state \in ActiveResv
Saved(p)       == plans[p].artifact # None
Decided(p)     == approvals[p].decision # "none"
Created(r)     == runs[r].status # "absent"
PlanFabric(p)  == FabricOf[IntentOf[p]]

References == {manifests[i].source_reference : i \in 1..Len(manifests)}

\* active_approval: the newest row is an approval and has not expired.
ApprovedNow(p) ==
  approvals[p].decision = "approved" /\ approvals[p].expires_at > now

-----------------------------------------------------------------------------
Init ==
  /\ intents = {}
  /\ reservations = [r \in Reservations |-> NoReservation]
  /\ plans = [p \in Plans |-> NoPlan]
  /\ approvals = [p \in Plans |-> NoApproval]
  /\ runs = [r \in Runs |-> NoRun]
  /\ locks = [f \in Fabrics |-> NoLock]
  /\ manifests = <<>>
  /\ now = 0

SaveIntent(i) ==
  /\ i \notin intents
  /\ intents' = intents \cup {i}
  /\ UNCHANGED <<reservations, plans, approvals, runs, locks, manifests, now>>

\* A new reservation for the design of intent i.  The same design derives the
\* same reservation_hash, which is unique among the active reservations; which
\* resources it holds is the subject of AllocationLedger.
ReserveDesign(r, i) ==
  /\ ~Reserved(r)
  /\ \A q \in Reservations : ActiveResvn(q) => reservations[q].intent # i
  /\ reservations' = [reservations EXCEPT ![r] =
                        [state |-> "reserved", intent |-> i]]
  /\ UNCHANGED <<intents, plans, approvals, runs, locks, manifests, now>>

TransitionReservation(r, new, verified) ==
  /\ Reserved(r)
  /\ new \in ResvMoves[reservations[r].state]
  /\ new = "released" => verified
  /\ reservations' = [reservations EXCEPT ![r].state = new]
  /\ UNCHANGED <<intents, plans, approvals, runs, locks, manifests, now>>

\* The reservation named in the request exists and holds this plan's intent.
\* Fault: only its existence is checked.
BindsAny(p, v) == Reserved(v)

BindsIntent(p, v) == Reserved(v) /\ reservations[v].intent = IntentOf[p]

\* The prior reservation of a saved plan still holds its resources.
\* Fault: a quarantined reservation counts as given up.
PriorUsable(p) ==
  /\ plans[p].reservation # None
  /\ reservations[plans[p].reservation].state \in {"reserved", "committed"}

PriorActive(p) ==
  plans[p].reservation # None /\ ActiveResvn(plans[p].reservation)

\* Saving a plan again changes nothing, or rebinds it when its reservation
\* was released.  Fault: a new rendering replaces the stored artifact hash.
ResaveRerendered(p, artifact, reservation) ==
  plans' = [plans EXCEPT ![p].artifact = artifact,
                         ![p].reservation = reservation]

\* Fault: a plan that is stored is answered without looking at its reservation.
ResaveKeeps(p, artifact, reservation) ==
  plans[p].artifact = artifact /\ UNCHANGED plans

Resave(p, artifact, reservation) ==
  /\ plans[p].artifact = artifact
  /\ plans[p].reservation # reservation
  /\ ~PriorActive(p)
  /\ plans' = [plans EXCEPT ![p].reservation = reservation]

\* reservation is None for a plan made from a stored intent.
SavePlan(p, artifact, reservation, actor) ==
  /\ IntentOf[p] \in intents
  /\ reservation # None => BindsIntent(p, reservation)
  /\ \/ /\ ~Saved(p)
        /\ plans' = [plans EXCEPT ![p] =
                       [artifact |-> artifact, reservation |-> reservation,
                        created_by |-> actor]]
     \/ Saved(p) /\ Resave(p, artifact, reservation)
  /\ UNCHANGED <<intents, reservations, approvals, runs, locks, manifests, now>>

\* The planner cannot decide on their own plan.
\* Fault: it is the previous approver who cannot decide again.
NewApprover(p, approver) == approvals[p].approver # approver

MayDecide(p, approver) == plans[p].created_by # approver

RecordApproval(p, decision, approver, expiry) ==
  /\ expiry > now
  /\ Saved(p)
  /\ MayDecide(p, approver)
  /\ approvals' = [approvals EXCEPT ![p] =
                     [decision |-> decision, approver |-> approver,
                      artifact |-> plans[p].artifact, expires_at |-> expiry]]
  /\ UNCHANGED <<intents, reservations, plans, runs, locks, manifests, now>>

\* A known idempotency key returns the run it is bound to, or raises.
KeyFree(key) == \A q \in Runs : runs[q].key # key

\* The expiry of a lock is never permission to take it over.
\* Fault: an expired lock is free.
LockFreeOrExpired(f) == locks[f].run = None \/ locks[f].expires_at <= now

LockFree(f) == locks[f].run = None

CreateRun(r, p, mode, key, start, end) ==
  /\ ~Created(r)
  /\ mode = "apply" => start < end /\ start <= now /\ now <= end
  /\ Saved(p)
  /\ KeyFree(key)
  /\ ApprovedNow(p)
  /\ approvals[p].artifact = plans[p].artifact
  /\ mode = "apply" => LockFree(PlanFabric(p))
  /\ runs' = [runs EXCEPT ![r] =
                [status |-> IF mode = "apply" THEN "apply_queued"
                                              ELSE "dry_run_queued",
                 mode |-> mode, plan |-> p, artifact |-> plans[p].artifact,
                 fabric |-> PlanFabric(p), key |-> key,
                 window_end |-> IF mode = "apply" THEN end ELSE 0]]
  /\ locks' = IF mode = "apply"
              THEN [locks EXCEPT ![PlanFabric(p)] =
                      [run |-> r, expires_at |-> now + LockTTL]]
              ELSE locks
  /\ UNCHANGED <<intents, reservations, plans, approvals, manifests, now>>

\* DELETE FROM fabric_locks WHERE run_id = r
\* Fault: the row is back-dated, not deleted.
BackdateLocks(r) ==
  [f \in Fabrics |->
     IF locks[f].run = r THEN [run |-> None, expires_at |-> now - 1]
                         ELSE locks[f]]

DropLocks(r) ==
  [f \in Fabrics |-> IF locks[f].run = r THEN NoLock ELSE locks[f]]

TransitionRun(r, new) ==
  /\ Created(r)
  /\ new \in RunMoves[runs[r].status]
  /\ runs' = [runs EXCEPT ![r].status = new]
  /\ locks' = IF new \in Terminal THEN DropLocks(r) ELSE locks
  /\ UNCHANGED <<intents, reservations, plans, approvals, manifests, now>>

\* Fault: the status and the manifest are written by two transactions.
CompleteStatusOnly(r, artifact) == TransitionRun(r, "apply_succeeded")

CompleteApply(r, artifact) ==
  /\ runs[r].status = "apply_running"
  /\ runs[r].artifact = artifact
  /\ r \notin References
  /\ manifests' = Append(manifests,
                    [fabric |-> runs[r].fabric,
                     source_type |-> "successful_apply",
                     source_reference |-> r])
  /\ runs' = [runs EXCEPT ![r].status = "apply_succeeded"]
  /\ locks' = DropLocks(r)
  /\ UNCHANGED <<intents, reservations, plans, approvals, now>>

RecordAdoptedOwnedState(f, reference, discoverer, approver) ==
  /\ discoverer # approver
  /\ reference \notin References
  /\ manifests' = Append(manifests,
                    [fabric |-> f, source_type |-> "adopted_discovery",
                     source_reference |-> reference])
  /\ UNCHANGED <<intents, reservations, plans, approvals, runs, locks, now>>

Tick ==
  /\ now < MaxTime
  /\ now' = now + 1
  /\ UNCHANGED <<intents, reservations, plans, approvals, runs, locks,
                 manifests>>

-----------------------------------------------------------------------------
\* Operations of the HTTP API and of operators (src/orchestrator/api.py).
DesignNext ==
  \/ \E i \in Intents : SaveIntent(i)
  \/ \E r \in Reservations, i \in Intents : ReserveDesign(r, i)
  \/ \E p \in Plans, a \in Artifacts, r \in Reservations \cup {None},
        who \in Actors : SavePlan(p, a, r, who)

GovernNext ==
  \/ \E p \in Plans, d \in {"approved", "rejected"}, who \in Actors,
        e \in 1..Horizon : RecordApproval(p, d, who, e)
  \/ \E r \in Runs, p \in Plans, m \in {"dry_run", "apply"}, k \in Keys,
        s, e \in 0..Horizon : CreateRun(r, p, m, k, s, e)
  \/ \E f \in Fabrics, x \in Adoptions, d, a \in Actors :
        RecordAdoptedOwnedState(f, x, d, a)
  \/ Tick

\* Operations of a worker, of a simulator or of an operator on a run.
ExecuteNext ==
  \/ \E r \in Reservations, s \in ResvStates, v \in BOOLEAN :
        TransitionReservation(r, s, v)
  \/ \E r \in Runs, s \in RunStatus : TransitionRun(r, s)
  \/ \E r \in Runs, a \in Artifacts : CompleteApply(r, a)

Next == DesignNext \/ GovernNext \/ ExecuteNext

Spec == Init /\ [][Next]_storeVars

-----------------------------------------------------------------------------
(* The types of the tables. *)
ReservationType ==
  [state : ResvStates \cup {"absent"}, intent : Intents \cup {None}]
PlanType == [artifact : Artifacts \cup {None},
             reservation : Reservations \cup {None},
             created_by : Actors \cup {None}]
ApprovalType == [decision : {"none", "approved", "rejected"},
                 approver : Actors \cup {None},
                 artifact : Artifacts \cup {None}, expires_at : Nat]
RunType == [status : RunStatus \cup {"absent"},
            mode : {"none", "dry_run", "apply"}, plan : Plans \cup {None},
            artifact : Artifacts \cup {None}, fabric : Fabrics \cup {None},
            key : Keys \cup {None}, window_end : Nat]
LockType == [run : Runs \cup {None}, expires_at : Nat]
ManifestType ==
  [fabric : Fabrics, source_type : {"successful_apply", "adopted_discovery"},
   source_reference : Runs \cup Adoptions]

\* Every table holds rows of its schema (store.py, SCHEMA).
TypeOK ==
  /\ intents \subseteq Intents
  /\ reservations \in [Reservations -> ReservationType]
  /\ plans \in [Plans -> PlanType]
  /\ approvals \in [Plans -> ApprovalType]
  /\ runs \in [Runs -> RunType]
  /\ locks \in [Fabrics -> LockType]
  /\ manifests \in Seq(ManifestType)
  /\ now \in Nat

-----------------------------------------------------------------------------
(* Safety. *)

\* A fabric lock is held exactly by the apply run that still may touch the
\* fabric: create_run takes it, only the move to a terminal status gives it
\* up, and its expiry never does.
HoldsLock(r, f) ==
  runs[r].status \in ApplyActive /\ runs[r].fabric = f

LockHeldIffActive ==
  \A r \in Runs, f \in Fabrics : locks[f].run = r <=> HoldsLock(r, f)

\* Two apply runs are never active on one fabric at a time, whatever retries,
\* expired leases or recoveries happened before.
OneActiveApplyPerFabric ==
  \A q, r \in Runs :
    /\ runs[q].status \in ApplyActive
    /\ runs[r].status \in ApplyActive
    /\ runs[q].fabric = runs[r].fabric
    => q = r

\* "A failed or rolled-back run never advances the ownership ledger"
\* (docs/owned-state-reconciliation.md:49), and no run advances it twice.
LedgerOnlyFromSuccess ==
  \A i \in 1..Len(manifests) :
    LET m == manifests[i] IN
      /\ m.source_reference \in Runs =>
           /\ runs[m.source_reference].status = "apply_succeeded"
           /\ runs[m.source_reference].fabric = m.fabric
      /\ \A j \in 1..Len(manifests) :
           manifests[j].source_reference = m.source_reference => i = j

\* What a run executes is the artifact that its plan was saved with and that
\* somebody other than the planner decided on: no later save of the plan, no
\* later approval changes it under the run.
RunBoundToPlan ==
  \A r \in Runs : Created(r) =>
    /\ Saved(runs[r].plan)
    /\ runs[r].artifact = plans[runs[r].plan].artifact
    /\ runs[r].fabric = PlanFabric(runs[r].plan)
    /\ Decided(runs[r].plan)

\* Separation of duties holds between any two requests: the newest decision
\* on a plan is on the plan's own artifact and not by the plan's creator.
ApprovalIndependent ==
  \A p \in Plans : Decided(p) =>
    /\ Saved(p)
    /\ approvals[p].artifact = plans[p].artifact
    /\ approvals[p].approver # plans[p].created_by

\* "a double-confirm or retry cannot double-apply"
\* (docs/poc-end-to-end-blueprint.md:54): one key names one run for ever.
OneRunPerKey ==
  \A q, r \in Runs :
    Created(q) /\ Created(r) /\ runs[q].key = runs[r].key => q = r

\* A reservation bound to a plan was derived for the intent of that plan,
\* through every rebinding after a release.
PlanReservationMatches ==
  \A p \in Plans : Saved(p) =>
    /\ IntentOf[p] \in intents
    /\ plans[p].reservation # None =>
         reservations[plans[p].reservation].intent = IntentOf[p]

\* A finished run is never touched again, by a late worker or by an operator.
TerminalIsFinal ==
  [][\A r \in Runs : runs[r].status \in Terminal => runs'[r] = runs[r]]_storeVars

\* A plan never abandons a reservation that still holds resources: no other
\* plan would ever release them.
ActiveBindingKept ==
  [][\A p \in Plans : \A r \in Reservations :
       plans[p].reservation = r /\ ActiveResvn(r)
         => plans'[p].reservation = r]_storeVars
=============================================================================
