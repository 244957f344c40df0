------------------------- MODULE ApplyWorkerProofs -------------------------
(***************************************************************************)
(* The store, the workers that use it, and the fabrics they write to.      *)
(*                                                                         *)
(* The first part is what the state store guarantees to every client, for  *)
(* any number of plans, runs, fabrics, keys and reservations.  LockInv is  *)
(* the inductive invariant of the fabric lock: a held lock and an active   *)
(* run name each other only as long as an active run names a fabric        *)
(* (RunComplete).  StoreInv adds what the other tables say of each other;  *)
(* its hidden part is that a bound reservation has a row, without which a  *)
(* new reservation could change the intent of a bound one.                 *)
(*                                                                         *)
(* The second part: the worker respects the store, and the lock of the     *)
(* store makes it the sole writer of its fabric.                           *)
(*                                                                         *)
(* Every step of a worker, of a client or of an operator is an operation   *)
(* of the store or leaves it alone, so WSpec implements RunStore!Spec and  *)
(* inherits its theorems.  WorkerInv adds what ties a process to its run:  *)
(* which status goes with which program counter, and that two processes    *)
(* that got past the start never share a run.                              *)
(*                                                                         *)
(* The third part is about the fabric.  A run that is rolled back leaves   *)
(* its fabric as it found it, for any number of workers, devices, phases   *)
(* and blocks, whichever call failed, although the run is not alone in the *)
(* world: other workers write to other fabrics, operators restore what     *)
(* dead workers left.  What makes the rollback sound is that the           *)
(* checkpoint of every device that may have changed holds what the device  *)
(* had when the run began, that a device which is not marked as changed    *)
(* still has it, and that the journal has whatever was added on ISE and    *)
(* nothing that was there before (UnwindInv).                              *)
(*                                                                         *)
(* A run that succeeds has delivered its whole artifact: what a process    *)
(* has behind it is in place, and nobody takes it away (DeliveryInv).      *)
(***************************************************************************)
EXTENDS ApplyWorker, SequenceTheorems, FlattenLemmas

\* The NOT NULL columns of a row of runs (mode apart, which TypeOK covers).
RunComplete ==
  \A r \in Runs : Created(r) =>
    /\ runs[r].plan \in Plans /\ runs[r].artifact \in Artifacts
    /\ runs[r].fabric \in Fabrics /\ runs[r].key \in Keys

\* The reservation that the row of a plan names has a row.
PlanReservationExists ==
  \A p \in Plans :
    plans[p].reservation # None => Saved(p) /\ Reserved(plans[p].reservation)

LockInv == TypeOK /\ RunComplete /\ LockHeldIffActive

-----------------------------------------------------------------------------
(* The status tables. *)

\* transition_run never leaves a terminal status, and only a run that holds
\* its lock can go on to a status that holds it.
LEMMA RunMovesFacts ==
  ASSUME NEW s \in RunStatus \cup {"absent"}, s # "absent", NEW t \in RunMoves[s]
  PROVE  /\ t \in RunStatus
         /\ s \notin Terminal
         /\ t \in ApplyActive => s \in ApplyActive
         /\ s \in ApplyActive /\ t \notin Terminal => t \in ApplyActive
  BY DEF RunMoves, RunMovesTable, RunStatus, ApplyActive, DryRunActive, Terminal

\* A reservation never changes to a state outside the table, and a released
\* one never changes.
LEMMA ResvMovesFacts ==
  ASSUME NEW s \in ResvStates, NEW t \in ResvMoves[s]
  PROVE  t \in ResvStates /\ s \in ActiveResv
  BY DEF ResvMoves, ResvStates, ActiveResv

\* The three groups of statuses are disjoint.
LEMMA StatusDisjoint ==
  /\ ApplyActive \cap Terminal = {}
  /\ "absent" \notin RunStatus
  /\ ApplyActive \subseteq RunStatus /\ Terminal \subseteq RunStatus
  BY DEF RunStatus, ApplyActive, DryRunActive, Terminal

-----------------------------------------------------------------------------
(* Type correctness. *)

LEMMA InitType == Init => TypeOK
  BY DEF Init, TypeOK, ReservationType, PlanType, ApprovalType, RunType,
     LockType, ManifestType, NoReservation, NoPlan, NoApproval, NoRun, NoLock

LEMMA DesignType ==
  ASSUME TypeOK, DesignNext
  PROVE  TypeOK'
<1>1. ASSUME NEW i \in Intents, SaveIntent(i)
      PROVE  TypeOK'
  BY <1>1 DEF TypeOK, SaveIntent
<1>2. ASSUME NEW r \in Reservations, NEW i \in Intents, ReserveDesign(r, i)
      PROVE  TypeOK'
  <2>1. [state |-> "reserved", intent |-> i] \in ReservationType
    BY DEF ReservationType, ResvStates, ActiveResv
  <2>2. reservations' \in [Reservations -> ReservationType]
    BY <1>2, <2>1 DEF TypeOK, ReserveDesign
  <2> QED
    BY <1>2, <2>2 DEF TypeOK, ReserveDesign
<1>3. ASSUME NEW p \in Plans, NEW a \in Artifacts,
             NEW r \in Reservations \cup {None}, NEW who \in Actors,
             SavePlan(p, a, r, who)
      PROVE  TypeOK'
  <2>1. /\ [artifact |-> a, reservation |-> r, created_by |-> who] \in PlanType
        /\ [plans[p] EXCEPT !.reservation = r] \in PlanType
    BY DEF TypeOK, PlanType
  <2>2. plans' \in [Plans -> PlanType]
    BY <1>3, <2>1 DEF TypeOK, SavePlan, Resave
  <2> QED
    BY <1>3, <2>2 DEF TypeOK, SavePlan
<1> QED
  BY <1>1, <1>2, <1>3 DEF DesignNext

LEMMA GovernType ==
  ASSUME TypeOK, GovernNext
  PROVE  TypeOK'
<1>1. ASSUME NEW p \in Plans, NEW d \in {"approved", "rejected"},
             NEW who \in Actors, NEW e \in 1..Horizon,
             RecordApproval(p, d, who, e)
      PROVE  TypeOK'
  <2>1. [decision |-> d, approver |-> who, artifact |-> plans[p].artifact,
         expires_at |-> e] \in ApprovalType
    BY TimeAssumption DEF TypeOK, PlanType, ApprovalType
  <2>2. approvals' \in [Plans -> ApprovalType]
    BY <1>1, <2>1 DEF TypeOK, RecordApproval
  <2> QED
    BY <1>1, <2>2 DEF TypeOK, RecordApproval
<1>2. ASSUME NEW r \in Runs, NEW p \in Plans, NEW m \in {"dry_run", "apply"},
             NEW k \in Keys, NEW s \in 0..Horizon, NEW e \in 0..Horizon,
             CreateRun(r, p, m, k, s, e)
      PROVE  TypeOK'
  <2> DEFINE row == [status |-> IF m = "apply" THEN "apply_queued"
                                               ELSE "dry_run_queued",
                     mode |-> m, plan |-> p, artifact |-> plans[p].artifact,
                     fabric |-> PlanFabric(p), key |-> k,
                     window_end |-> IF m = "apply" THEN e ELSE 0]
  <2>1. PlanFabric(p) \in Fabrics
    BY BindingAssumption DEF PlanFabric
  <2>2. row \in RunType
    BY <2>1, TimeAssumption
    DEF TypeOK, PlanType, RunType, RunStatus, ApplyActive, DryRunActive
  <2>3. runs' \in [Runs -> RunType]
    BY <1>2, <2>2 DEF TypeOK, CreateRun
  <2>4. [run |-> r, expires_at |-> now + LockTTL] \in LockType
    BY TimeAssumption DEF TypeOK, LockType
  <2>5. locks' \in [Fabrics -> LockType]
    BY <1>2, <2>4 DEF TypeOK, CreateRun
  <2> QED
    BY <1>2, <2>3, <2>5 DEF TypeOK, CreateRun
<1>3. ASSUME NEW f \in Fabrics, NEW x \in Adoptions, NEW d \in Actors,
             NEW a \in Actors, RecordAdoptedOwnedState(f, x, d, a)
      PROVE  TypeOK'
  <2>1. [fabric |-> f, source_type |-> "adopted_discovery",
         source_reference |-> x] \in ManifestType
    BY DEF ManifestType
  <2> QED
    BY <1>3, <2>1 DEF TypeOK, RecordAdoptedOwnedState
<1>4. ASSUME Tick
      PROVE  TypeOK'
  BY <1>4 DEF TypeOK, Tick
<1> QED
  BY <1>1, <1>2, <1>3, <1>4 DEF GovernNext

LEMMA DropLocksType ==
  ASSUME TypeOK, NEW r \in Runs
  PROVE  DropLocks(r) \in [Fabrics -> LockType]
  BY DEF TypeOK, DropLocks, LockType, NoLock

LEMMA ExecuteType ==
  ASSUME TypeOK, RunComplete, ExecuteNext
  PROVE  TypeOK'
<1>1. ASSUME NEW r \in Reservations, NEW s \in ResvStates, NEW v \in BOOLEAN,
             TransitionReservation(r, s, v)
      PROVE  TypeOK'
  <2>1. [reservations[r] EXCEPT !.state = s] \in ReservationType
    BY DEF TypeOK, ReservationType
  <2>2. reservations' \in [Reservations -> ReservationType]
    BY <1>1, <2>1 DEF TypeOK, TransitionReservation
  <2> QED
    BY <1>1, <2>2 DEF TypeOK, TransitionReservation
<1>2. ASSUME NEW r \in Runs, NEW s \in RunStatus, TransitionRun(r, s)
      PROVE  TypeOK'
  <2>1. [runs[r] EXCEPT !.status = s] \in RunType
    BY DEF TypeOK, RunType
  <2>2. runs' \in [Runs -> RunType]
    BY <1>2, <2>1 DEF TypeOK, TransitionRun
  <2>3. locks' \in [Fabrics -> LockType]
    BY <1>2, DropLocksType DEF TypeOK, TransitionRun
  <2> QED
    BY <1>2, <2>2, <2>3 DEF TypeOK, TransitionRun
<1>3. ASSUME NEW r \in Runs, NEW a \in Artifacts, CompleteApply(r, a)
      PROVE  TypeOK'
  <2>1. [runs[r] EXCEPT !.status = "apply_succeeded"] \in RunType
    BY DEF TypeOK, RunType, RunStatus, Terminal
  <2>2. runs' \in [Runs -> RunType]
    BY <1>3, <2>1 DEF TypeOK, CompleteApply
  <2>3. runs[r].fabric \in Fabrics
    BY <1>3 DEF CompleteApply, RunComplete, Created
  <2>4. manifests' \in Seq(ManifestType)
    BY <1>3, <2>3 DEF TypeOK, CompleteApply, ManifestType
  <2> QED
    BY <1>3, <2>2, <2>4, DropLocksType DEF TypeOK, CompleteApply
<1> QED
  BY <1>1, <1>2, <1>3 DEF ExecuteNext

LEMMA StutterType ==
  ASSUME TypeOK, UNCHANGED storeVars
  PROVE  TypeOK'
  BY DEF TypeOK, storeVars

-----------------------------------------------------------------------------
(* The fabric lock. *)

LEMMA InitLock == Init => LockInv
<1> SUFFICES ASSUME Init
             PROVE  LockInv
  OBVIOUS
<1>1. TypeOK
  BY InitType
<1>2. RunComplete
  BY DEF Init, RunComplete, Created, NoRun
<1>3. LockHeldIffActive
  BY NoneAssumption
  DEF Init, LockHeldIffActive, HoldsLock, NoRun, NoLock, ApplyActive
<1> QED
  BY <1>1, <1>2, <1>3 DEF LockInv

\* The operations that write neither runs nor fabric_locks.
LEMMA OtherTablesLock ==
  ASSUME LockInv, TypeOK', UNCHANGED <<runs, locks>>
  PROVE  LockInv'
  BY DEF LockInv, RunComplete, Created, LockHeldIffActive, HoldsLock

LEMMA CreateRunLock ==
  ASSUME LockInv, TypeOK',
         NEW r \in Runs, NEW p \in Plans, NEW m \in {"dry_run", "apply"},
         NEW k \in Keys, NEW s \in 0..Horizon, NEW e \in 0..Horizon,
         CreateRun(r, p, m, k, s, e)
  PROVE  LockInv'
<1> USE DEF LockInv
<1>1. PlanFabric(p) \in Fabrics
  BY BindingAssumption DEF PlanFabric
<1>2. /\ runs'[r].status = IF m = "apply" THEN "apply_queued"
                                         ELSE "dry_run_queued"
      /\ runs'[r].fabric = PlanFabric(p)
      /\ runs'[r].plan = p /\ runs'[r].key = k
      /\ runs'[r].artifact = plans[p].artifact
      /\ \A q \in Runs \ {r} : runs'[q] = runs[q]
  BY DEF CreateRun, TypeOK
<1>3. \A f \in Fabrics : ~HoldsLock(r, f) /\ locks[f].run # r
  BY DEF CreateRun, Created, HoldsLock, ApplyActive, LockHeldIffActive
<1>4. RunComplete'
  <2>1. plans[p].artifact \in Artifacts
    BY DEF CreateRun, Saved, TypeOK, PlanType
  <2> QED
    BY <1>1, <1>2, <2>1 DEF RunComplete, Created
<1>5. CASE m = "apply"
  <2>1. /\ locks[PlanFabric(p)].run = None
        /\ locks'[PlanFabric(p)].run = r
        /\ \A f \in Fabrics \ {PlanFabric(p)} : locks'[f] = locks[f]
    BY <1>1, <1>5 DEF CreateRun, LockFree, TypeOK
  <2>2. \A f \in Fabrics : locks'[f].run = r <=> f = PlanFabric(p)
    BY <1>3, <2>1
  <2>3. \A f \in Fabrics : HoldsLock(r, f)' <=> f = PlanFabric(p)
    BY <1>2, <1>5 DEF HoldsLock, ApplyActive
  <2>4. ASSUME NEW q \in Runs \ {r}, NEW f \in Fabrics
        PROVE  locks'[f].run = q <=> HoldsLock(q, f)'
    <3>1. HoldsLock(q, f)' <=> HoldsLock(q, f)
      BY <1>2 DEF HoldsLock
    <3>2. CASE f = PlanFabric(p)
      BY <2>1, <2>4, <3>1, <3>2, NoneAssumption DEF LockHeldIffActive
    <3>3. CASE f # PlanFabric(p)
      BY <2>1, <2>4, <3>1, <3>3 DEF LockHeldIffActive
    <3> QED
      BY <3>2, <3>3
  <2>5. LockHeldIffActive'
    BY <2>2, <2>3, <2>4 DEF LockHeldIffActive
  <2> QED
    BY <1>4, <2>5
<1>6. CASE m = "dry_run"
  <2>1. locks' = locks
    BY <1>6 DEF CreateRun
  <2>2. \A f \in Fabrics : ~HoldsLock(r, f)'
    BY <1>2, <1>6 DEF HoldsLock, ApplyActive
  <2>3. \A q \in Runs \ {r}, f \in Fabrics :
          HoldsLock(q, f)' <=> HoldsLock(q, f)
    BY <1>2 DEF HoldsLock
  <2>4. LockHeldIffActive'
    BY <1>3, <2>1, <2>2, <2>3 DEF LockHeldIffActive
  <2> QED
    BY <1>4, <2>4
<1> QED
  BY <1>5, <1>6

\* What transition_run and complete_apply share: the row of r changes its
\* status only, and its lock goes exactly when that status is terminal.
LEMMA StatusChangeLock ==
  ASSUME LockInv, TypeOK', NEW r \in Runs, Created(r), NEW new \in RunStatus,
         runs' = [runs EXCEPT ![r].status = new],
         locks' = IF new \in Terminal THEN DropLocks(r) ELSE locks,
         new \in ApplyActive => runs[r].status \in ApplyActive,
         runs[r].status \in ApplyActive /\ new \notin Terminal
           => new \in ApplyActive
  PROVE  LockInv'
<1> USE DEF LockInv
<1>1. /\ runs'[r].status = new /\ runs'[r].fabric = runs[r].fabric
      /\ runs'[r].plan = runs[r].plan /\ runs'[r].key = runs[r].key
      /\ runs'[r].artifact = runs[r].artifact
      /\ \A q \in Runs \ {r} : runs'[q] = runs[q]
  BY DEF TypeOK, RunType
<1>2. RunComplete'
  BY <1>1 DEF RunComplete, Created
<1>3. \A q \in Runs \ {r}, f \in Fabrics : HoldsLock(q, f)' <=> HoldsLock(q, f)
  BY <1>1 DEF HoldsLock
<1>4. CASE new \in Terminal
  <2>1. \A f \in Fabrics : ~HoldsLock(r, f)'
    BY <1>1, <1>4, StatusDisjoint DEF HoldsLock
  <2>2. \A f \in Fabrics :
          locks'[f] = IF locks[f].run = r THEN NoLock ELSE locks[f]
    BY <1>4 DEF DropLocks
  <2>3. LockHeldIffActive'
    BY <1>3, <2>1, <2>2, NoneAssumption DEF LockHeldIffActive, NoLock
  <2> QED
    BY <1>2, <2>3
<1>5. CASE new \notin Terminal
  <2>1. \A f \in Fabrics : HoldsLock(r, f)' <=> HoldsLock(r, f)
    BY <1>1, <1>5 DEF HoldsLock
  <2>2. LockHeldIffActive'
    BY <1>3, <1>5, <2>1 DEF LockHeldIffActive
  <2> QED
    BY <1>2, <2>2
<1> QED
  BY <1>4, <1>5

LEMMA NextLock ==
  ASSUME LockInv, [Next]_storeVars
  PROVE  LockInv'
<1> USE DEF LockInv
<1>1. CASE DesignNext
  <2>1. UNCHANGED <<runs, locks>>
    BY <1>1 DEF DesignNext, SaveIntent, ReserveDesign, SavePlan
  <2> QED
    BY <1>1, <2>1, DesignType, OtherTablesLock
<1>2. CASE GovernNext
  <2>1. TypeOK'
    BY <1>2, GovernType
  <2>2. ASSUME NEW r \in Runs, NEW p \in Plans,
               NEW m \in {"dry_run", "apply"}, NEW k \in Keys,
               NEW s \in 0..Horizon, NEW e \in 0..Horizon,
               CreateRun(r, p, m, k, s, e)
        PROVE  LockInv'
    BY <2>1, <2>2, CreateRunLock
  <2>3. CASE UNCHANGED <<runs, locks>>
    BY <2>1, <2>3, OtherTablesLock
  <2> QED
    BY <1>2, <2>2, <2>3
    DEF GovernNext, RecordApproval, RecordAdoptedOwnedState, Tick
<1>3. CASE ExecuteNext
  <2>1. TypeOK'
    BY <1>3, ExecuteType
  <2>2. ASSUME NEW r \in Runs, NEW s \in RunStatus, TransitionRun(r, s)
        PROVE  LockInv'
    <3>1. /\ s \in ApplyActive => runs[r].status \in ApplyActive
          /\ runs[r].status \in ApplyActive /\ s \notin Terminal
               => s \in ApplyActive
      BY <2>2, RunMovesFacts DEF TransitionRun, Created, TypeOK, RunType
    <3> QED
      BY <2>1, <2>2, <3>1, StatusChangeLock DEF TransitionRun
  <2>3. ASSUME NEW r \in Runs, NEW a \in Artifacts, CompleteApply(r, a)
        PROVE  LockInv'
    <3> DEFINE done == "apply_succeeded"
    <3>1. /\ done \in RunStatus /\ done \in Terminal
          /\ done \notin ApplyActive /\ Created(r)
      BY <2>3 DEF RunStatus, Terminal, ApplyActive, CompleteApply, Created
    <3>2. /\ runs' = [runs EXCEPT ![r].status = done]
          /\ locks' = IF done \in Terminal THEN DropLocks(r) ELSE locks
      BY <2>3, <3>1 DEF CompleteApply
    <3> HIDE DEF done
    <3> QED
      BY <2>1, <3>1, <3>2, StatusChangeLock
  <2>4. CASE UNCHANGED <<runs, locks>>
    BY <2>1, <2>4, OtherTablesLock
  <2> QED
    BY <1>3, <2>2, <2>3, <2>4 DEF ExecuteNext, TransitionReservation
<1>4. CASE UNCHANGED storeVars
  BY <1>4, StutterType, OtherTablesLock DEF storeVars
<1> QED
  BY <1>1, <1>2, <1>3, <1>4 DEF Next

LEMMA LockExclusion == LockInv => OneActiveApplyPerFabric
<1> SUFFICES ASSUME LockInv, NEW q \in Runs, NEW r \in Runs,
                    runs[q].status \in ApplyActive,
                    runs[r].status \in ApplyActive,
                    runs[q].fabric = runs[r].fabric
             PROVE  q = r
  BY DEF OneActiveApplyPerFabric
<1>1. runs[q].fabric \in Fabrics
  BY DEF LockInv, RunComplete, Created, ApplyActive
<1>2. HoldsLock(q, runs[q].fabric) /\ HoldsLock(r, runs[q].fabric)
  BY DEF HoldsLock
<1> QED
  BY <1>1, <1>2 DEF LockInv, LockHeldIffActive

\* The tables keep their schema and the lock table names exactly the apply
\* runs that are not finished (create_run, transition_run, complete_apply).
THEOREM LockInvariant == Spec => []LockInv
<1>1. Init => LockInv
  BY InitLock
<1>2. LockInv /\ [Next]_storeVars => LockInv'
  BY NextLock
<1> QED
  BY <1>1, <1>2, PTL DEF Spec

\* Every operation of the store keeps every table within its schema.
THEOREM TypeCorrect == Spec => []TypeOK
<1>1. LockInv => TypeOK
  BY DEF LockInv
<1> QED
  BY <1>1, LockInvariant, PTL

\* A fabric lock is held exactly while its run may still write to the fabric.
THEOREM LockCorrect == Spec => []LockHeldIffActive
<1>1. LockInv => LockHeldIffActive
  BY DEF LockInv
<1> QED
  BY <1>1, LockInvariant, PTL

\* Apply runs exclude one another on a fabric.
THEOREM MutualExclusion == Spec => []OneActiveApplyPerFabric
  BY LockExclusion, LockInvariant, PTL

-----------------------------------------------------------------------------
(* What the other tables say of each other. *)

StoreInv ==
  /\ LockInv
  /\ PlanReservationExists
  /\ PlanReservationMatches
  /\ ApprovalIndependent
  /\ RunBoundToPlan
  /\ OneRunPerKey
  /\ LedgerOnlyFromSuccess

\* The governance operations bind no plan and move no reservation.
LEMMA GovernFrame ==
  ASSUME GovernNext
  PROVE  UNCHANGED <<intents, reservations, plans>>
<1>1. ASSUME NEW r \in Runs, NEW p \in Plans, NEW m \in {"dry_run", "apply"},
             NEW k \in Keys, NEW s \in 0..Horizon, NEW e \in 0..Horizon,
             CreateRun(r, p, m, k, s, e)
      PROVE  UNCHANGED <<intents, reservations, plans>>
  BY <1>1 DEF CreateRun
<1>2. ASSUME NEW p \in Plans, NEW d \in {"approved", "rejected"},
             NEW who \in Actors, NEW e \in 1..Horizon,
             RecordApproval(p, d, who, e)
      PROVE  UNCHANGED <<intents, reservations, plans>>
  BY <1>2 DEF RecordApproval
<1> QED
  BY <1>1, <1>2 DEF GovernNext, RecordAdoptedOwnedState, Tick

\* What one operation may do to the row of a plan (save_plan).
LEMMA PlanStep ==
  ASSUME TypeOK, [Next]_storeVars, NEW p \in Plans
  PROVE  \/ plans'[p] = plans[p]
         \/ /\ UNCHANGED <<reservations, runs, approvals>>
            /\ IntentOf[p] \in intents'
            /\ plans'[p].reservation # None
                 => BindsIntent(p, plans'[p].reservation)
            /\ Saved(p)'
            /\ Saved(p) => /\ ~PriorActive(p)
                           /\ plans'[p].artifact = plans[p].artifact
                           /\ plans'[p].created_by = plans[p].created_by
<1>1. ASSUME NEW q \in Plans, NEW a \in Artifacts,
             NEW v \in Reservations \cup {None}, NEW who \in Actors,
             SavePlan(q, a, v, who), q = p
      PROVE  /\ UNCHANGED <<reservations, runs, approvals>>
             /\ IntentOf[p] \in intents'
             /\ plans'[p].reservation # None
                  => BindsIntent(p, plans'[p].reservation)
             /\ Saved(p)'
             /\ Saved(p) => /\ ~PriorActive(p)
                            /\ plans'[p].artifact = plans[p].artifact
                            /\ plans'[p].created_by = plans[p].created_by
  <2>1. /\ plans'[p].reservation = v
        /\ Saved(p)'
        /\ Saved(p) => /\ ~PriorActive(p)
                       /\ plans'[p].artifact = plans[p].artifact
                       /\ plans'[p].created_by = plans[p].created_by
    BY <1>1, NoneAssumption DEF SavePlan, Resave, TypeOK, PlanType, Saved
  <2> QED
    BY <1>1, <2>1 DEF SavePlan
<1>2. ASSUME NEW q \in Plans, NEW a \in Artifacts,
             NEW v \in Reservations \cup {None}, NEW who \in Actors,
             SavePlan(q, a, v, who), q # p
      PROVE  plans'[p] = plans[p]
  BY <1>2 DEF SavePlan, Resave, TypeOK
<1>3. CASE UNCHANGED plans
  BY <1>3
<1>4. CASE DesignNext
  BY <1>1, <1>2, <1>3, <1>4 DEF DesignNext, SaveIntent, ReserveDesign
<1>5. CASE GovernNext
  BY <1>3, <1>5, GovernFrame
<1>6. CASE ExecuteNext
  BY <1>3, <1>6
  DEF ExecuteNext, TransitionReservation, TransitionRun, CompleteApply
<1> QED
  BY <1>3, <1>4, <1>5, <1>6 DEF Next, storeVars

\* A saved plan stays saved, with its artifact and its creator.
LEMMA SavedStays ==
  ASSUME TypeOK, [Next]_storeVars, NEW p \in Plans, Saved(p)
  PROVE  /\ Saved(p)' /\ plans'[p].artifact = plans[p].artifact
         /\ plans'[p].created_by = plans[p].created_by
  BY PlanStep DEF Saved

\* What one operation may do to the row of a run.
LEMMA RunStep ==
  ASSUME TypeOK, [Next]_storeVars
  PROVE  \/ UNCHANGED runs
         \/ /\ UNCHANGED <<plans, approvals>>
            /\ \E r \in Runs :
                 /\ \A q \in Runs \ {r} : runs'[q] = runs[q]
                 /\ Created(r) /\ Created(r)' /\ runs[r].status \notin Terminal
                 /\ runs'[r].plan = runs[r].plan
                 /\ runs'[r].artifact = runs[r].artifact
                 /\ runs'[r].fabric = runs[r].fabric
                 /\ runs'[r].key = runs[r].key
         \/ /\ UNCHANGED <<plans, approvals, manifests>>
            /\ \E r \in Runs, p \in Plans, k \in Keys :
                 /\ \A q \in Runs \ {r} : runs'[q] = runs[q]
                 /\ ~Created(r) /\ Saved(p) /\ KeyFree(k) /\ ApprovedNow(p)
                 /\ runs'[r].plan = p
                 /\ runs'[r].artifact = plans[p].artifact
                 /\ runs'[r].fabric = PlanFabric(p)
                 /\ runs'[r].key = k
<1>1. ASSUME NEW r \in Runs, NEW s \in RunStatus,
             Created(r), runs[r].status \notin Terminal,
             runs' = [runs EXCEPT ![r].status = s],
             UNCHANGED <<plans, approvals>>
      PROVE  /\ \A q \in Runs \ {r} : runs'[q] = runs[q]
             /\ Created(r)'
             /\ runs'[r].plan = runs[r].plan
             /\ runs'[r].artifact = runs[r].artifact
             /\ runs'[r].fabric = runs[r].fabric
             /\ runs'[r].key = runs[r].key
  BY <1>1, StatusDisjoint DEF TypeOK, RunType, Created
<1>2. ASSUME NEW r \in Runs, NEW s \in RunStatus, TransitionRun(r, s)
      PROVE  Created(r) /\ runs[r].status \notin Terminal
  BY <1>2, RunMovesFacts DEF TransitionRun, Created, TypeOK, RunType
<1>3. ASSUME NEW r \in Runs, NEW a \in Artifacts, CompleteApply(r, a)
      PROVE  /\ Created(r) /\ runs[r].status \notin Terminal
             /\ "apply_succeeded" \in RunStatus
  BY <1>3 DEF CompleteApply, Created, Terminal, RunStatus
<1>4. ASSUME NEW r \in Runs, NEW p \in Plans, NEW m \in {"dry_run", "apply"},
             NEW k \in Keys, NEW s \in 0..Horizon, NEW e \in 0..Horizon,
             CreateRun(r, p, m, k, s, e)
      PROVE  /\ UNCHANGED <<plans, approvals, manifests>>
             /\ \A q \in Runs \ {r} : runs'[q] = runs[q]
             /\ ~Created(r) /\ Saved(p) /\ KeyFree(k) /\ ApprovedNow(p)
             /\ runs'[r].plan = p
             /\ runs'[r].artifact = plans[p].artifact
             /\ runs'[r].fabric = PlanFabric(p)
             /\ runs'[r].key = k
  BY <1>4 DEF CreateRun, TypeOK
<1>5. CASE DesignNext
  BY <1>5 DEF DesignNext, SaveIntent, ReserveDesign, SavePlan
<1>6. CASE GovernNext
  <2>1. CASE UNCHANGED runs
    BY <2>1
  <2>2. ASSUME NEW r \in Runs, NEW p \in Plans,
               NEW m \in {"dry_run", "apply"}, NEW k \in Keys,
               NEW s \in 0..Horizon, NEW e \in 0..Horizon,
               CreateRun(r, p, m, k, s, e)
        PROVE  /\ UNCHANGED <<plans, approvals, manifests>>
               /\ \E x \in Runs, y \in Plans, z \in Keys :
                    /\ \A q \in Runs \ {x} : runs'[q] = runs[q]
                    /\ ~Created(x) /\ Saved(y) /\ KeyFree(z) /\ ApprovedNow(y)
                    /\ runs'[x].plan = y
                    /\ runs'[x].artifact = plans[y].artifact
                    /\ runs'[x].fabric = PlanFabric(y)
                    /\ runs'[x].key = z
    BY <1>4, <2>2
  <2> QED
    BY <1>6, <2>1, <2>2
    DEF GovernNext, RecordApproval, RecordAdoptedOwnedState, Tick
<1>7. CASE ExecuteNext
  <2>1. ASSUME NEW r \in Runs, NEW s \in RunStatus, TransitionRun(r, s)
        PROVE  runs' = [runs EXCEPT ![r].status = s]
               /\ UNCHANGED <<plans, approvals>>
    BY <2>1 DEF TransitionRun
  <2>2. ASSUME NEW r \in Runs, NEW a \in Artifacts, CompleteApply(r, a)
        PROVE  runs' = [runs EXCEPT ![r].status = "apply_succeeded"]
               /\ UNCHANGED <<plans, approvals>>
    BY <2>2 DEF CompleteApply
  <2> QED
    BY <1>1, <1>2, <1>3, <1>7, <2>1, <2>2
    DEF ExecuteNext, TransitionReservation
<1>8. CASE UNCHANGED storeVars
  BY <1>8 DEF storeVars
<1> QED
  BY <1>5, <1>6, <1>7, <1>8 DEF Next

LEMMA ReservationStep ==
  ASSUME TypeOK, [Next]_storeVars, NEW v \in Reservations, Reserved(v)
  PROVE  Reserved(v)' /\ reservations'[v].intent = reservations[v].intent
<1>1. ASSUME NEW r \in Reservations, NEW i \in Intents, ReserveDesign(r, i)
      PROVE  reservations'[v] = reservations[v]
  BY <1>1 DEF ReserveDesign, TypeOK
<1>2. ASSUME NEW r \in Reservations, NEW s \in ResvStates, NEW b \in BOOLEAN,
             TransitionReservation(r, s, b)
      PROVE  Reserved(v)' /\ reservations'[v].intent = reservations[v].intent
  BY <1>2
  DEF TransitionReservation, TypeOK, ReservationType, Reserved, ResvStates,
      ActiveResv
<1>3. CASE UNCHANGED reservations
  BY <1>3 DEF Reserved
<1>4. CASE DesignNext
  BY <1>1, <1>3, <1>4 DEF DesignNext, SaveIntent, SavePlan, Reserved
<1>5. CASE GovernNext
  BY <1>3, <1>5, GovernFrame
<1>6. CASE ExecuteNext
  BY <1>2, <1>3, <1>6 DEF ExecuteNext, TransitionRun, CompleteApply
<1> QED
  BY <1>3, <1>4, <1>5, <1>6 DEF Next, storeVars

\* save_plan binds reservations of the plan's intent, and nothing changes the
\* intent of a reservation that has a row.
LEMMA NextBinding ==
  ASSUME StoreInv, [Next]_storeVars
  PROVE  PlanReservationExists' /\ PlanReservationMatches'
<1> USE DEF StoreInv, LockInv
<1>1. intents \subseteq intents'
  BY GovernFrame
  DEF Next, DesignNext, ExecuteNext, SaveIntent, ReserveDesign, SavePlan,
      TransitionReservation, TransitionRun, CompleteApply, storeVars
<1>2. \A p \in Plans : plans'[p].reservation \in Reservations \cup {None}
  BY NextLock DEF TypeOK, PlanType
<1>3. ASSUME NEW p \in Plans, plans'[p] = plans[p]
      PROVE  /\ plans'[p].reservation # None
                  => Saved(p)' /\ Reserved(plans[p].reservation)'
             /\ Saved(p)' =>
                  /\ IntentOf[p] \in intents'
                  /\ plans'[p].reservation # None =>
                       reservations'[plans'[p].reservation].intent = IntentOf[p]
  <2>1. plans'[p].reservation # None =>
          /\ Saved(p)' /\ Reserved(plans[p].reservation)'
          /\ reservations'[plans'[p].reservation].intent
               = reservations[plans[p].reservation].intent
    BY <1>2, <1>3, ReservationStep DEF PlanReservationExists, Saved
  <2> QED
    BY <1>1, <1>3, <2>1 DEF PlanReservationMatches, Saved
<1>4. ASSUME NEW p \in Plans, UNCHANGED reservations, IntentOf[p] \in intents',
             plans'[p].reservation # None
               => BindsIntent(p, plans'[p].reservation)
      PROVE  /\ plans'[p].reservation # None => Reserved(plans[p].reservation)'
             /\ plans'[p].reservation # None =>
                  reservations'[plans'[p].reservation].intent = IntentOf[p]
  BY <1>4 DEF BindsIntent, Reserved
<1> QED
  BY <1>3, <1>4, PlanStep
  DEF PlanReservationExists, PlanReservationMatches

\* record_approval checks the creator and takes the artifact from the row that
\* save_plan never rewrites.
LEMMA NextApproval ==
  ASSUME StoreInv, [Next]_storeVars
  PROVE  ApprovalIndependent'
<1> USE DEF StoreInv, LockInv
<1>1. ASSUME NEW p \in Plans, approvals'[p] = approvals[p]
      PROVE  Decided(p)' => /\ Saved(p)'
                            /\ approvals'[p].artifact = plans'[p].artifact
                            /\ approvals'[p].approver # plans'[p].created_by
  BY <1>1, SavedStays DEF ApprovalIndependent, Decided
<1>2. ASSUME NEW p \in Plans, NEW q \in Plans,
             NEW d \in {"approved", "rejected"}, NEW who \in Actors,
             NEW e \in 1..Horizon, RecordApproval(q, d, who, e)
      PROVE  Decided(p)' => /\ Saved(p)'
                            /\ approvals'[p].artifact = plans'[p].artifact
                            /\ approvals'[p].approver # plans'[p].created_by
  <2>1. CASE p = q
    BY <1>2, <2>1 DEF RecordApproval, MayDecide, TypeOK, Saved
  <2>2. CASE p # q
    <3>1. approvals'[p] = approvals[p]
      BY <1>2, <2>2 DEF RecordApproval, TypeOK
    <3> QED
      BY <1>1, <3>1
  <2> QED
    BY <2>1, <2>2
<1>3. CASE UNCHANGED approvals
  BY <1>1, <1>3 DEF ApprovalIndependent
<1>4. CASE DesignNext
  BY <1>3, <1>4 DEF DesignNext, SaveIntent, ReserveDesign, SavePlan
<1>5. CASE GovernNext
  <2>1. ASSUME NEW r \in Runs, NEW p \in Plans,
               NEW m \in {"dry_run", "apply"}, NEW k \in Keys,
               NEW s \in 0..Horizon, NEW e \in 0..Horizon,
               CreateRun(r, p, m, k, s, e)
        PROVE  UNCHANGED approvals
    BY <2>1 DEF CreateRun
  <2>2. ASSUME NEW q \in Plans, NEW d \in {"approved", "rejected"},
               NEW who \in Actors, NEW e \in 1..Horizon,
               RecordApproval(q, d, who, e)
        PROVE  ApprovalIndependent'
    BY <1>2, <2>2 DEF ApprovalIndependent
  <2> QED
    BY <1>3, <1>5, <2>1, <2>2
    DEF GovernNext, RecordAdoptedOwnedState, Tick
<1>6. CASE ExecuteNext
  BY <1>3, <1>6
  DEF ExecuteNext, TransitionReservation, TransitionRun, CompleteApply
<1> QED
  BY <1>3, <1>4, <1>5, <1>6 DEF Next, storeVars

LEMMA DecidedStays ==
  ASSUME TypeOK, [Next]_storeVars, NEW p \in Plans, Decided(p)
  PROVE  Decided(p)'
<1>1. ASSUME NEW q \in Plans, NEW d \in {"approved", "rejected"},
             NEW who \in Actors, NEW e \in 1..Horizon,
             RecordApproval(q, d, who, e)
      PROVE  Decided(p)'
  BY <1>1 DEF RecordApproval, Decided, TypeOK
<1>2. ASSUME NEW r \in Runs, NEW q \in Plans, NEW m \in {"dry_run", "apply"},
             NEW k \in Keys, NEW s \in 0..Horizon, NEW e \in 0..Horizon,
             CreateRun(r, q, m, k, s, e)
      PROVE  UNCHANGED approvals
  BY <1>2 DEF CreateRun
<1>3. CASE UNCHANGED approvals
  BY <1>3 DEF Decided
<1>4. CASE DesignNext
  BY <1>3, <1>4 DEF DesignNext, SaveIntent, ReserveDesign, SavePlan
<1>5. CASE GovernNext
  BY <1>1, <1>2, <1>3, <1>5 DEF GovernNext, RecordAdoptedOwnedState, Tick
<1>6. CASE ExecuteNext
  BY <1>3, <1>6
  DEF ExecuteNext, TransitionReservation, TransitionRun, CompleteApply
<1> QED
  BY <1>3, <1>4, <1>5, <1>6 DEF Next, storeVars

\* create_run takes the artifact of the approved plan, and neither the run
\* nor the plan changes it later.
LEMMA NextBound ==
  ASSUME StoreInv, [Next]_storeVars
  PROVE  RunBoundToPlan'
<1> USE DEF StoreInv, LockInv
<1> DEFINE Bound(r) == /\ Saved(runs[r].plan)
                       /\ runs[r].artifact = plans[runs[r].plan].artifact
                       /\ runs[r].fabric = PlanFabric(runs[r].plan)
                       /\ Decided(runs[r].plan)
<1>1. ASSUME NEW r \in Runs, Created(r),
             runs'[r].plan = runs[r].plan,
             runs'[r].artifact = runs[r].artifact,
             runs'[r].fabric = runs[r].fabric
      PROVE  Bound(r)'
  <2>1. Bound(r) /\ runs[r].plan \in Plans
    BY <1>1 DEF RunBoundToPlan, RunComplete
  <2> QED
    BY <1>1, <2>1, SavedStays, DecidedStays DEF Saved, Decided, PlanFabric
<1>2. ASSUME NEW r \in Runs, NEW p \in Plans, Saved(p), ApprovedNow(p),
             UNCHANGED <<plans, approvals>>,
             runs'[r].plan = p, runs'[r].artifact = plans[p].artifact,
             runs'[r].fabric = PlanFabric(p)
      PROVE  Bound(r)'
  BY <1>2 DEF Saved, Decided, ApprovedNow, PlanFabric
<1>3. \A r \in Runs : Created(r)' => Bound(r)'
  <2> TAKE r \in Runs
  <2> HIDE DEF Bound
  <2>1. CASE runs'[r] = runs[r]
    BY <1>1, <2>1 DEF Created
  <2> QED
    BY <1>1, <1>2, <2>1, RunStep
<1> QED
  BY <1>3 DEF RunBoundToPlan

LEMMA NextKey ==
  ASSUME StoreInv, [Next]_storeVars
  PROVE  OneRunPerKey'
<1> USE DEF StoreInv, LockInv
<1>1. CASE UNCHANGED runs
  BY <1>1 DEF OneRunPerKey, Created
<1>2. ASSUME NEW r \in Runs, \A q \in Runs \ {r} : runs'[q] = runs[q],
             Created(r), Created(r)', runs'[r].key = runs[r].key
      PROVE  OneRunPerKey'
  BY <1>2 DEF OneRunPerKey, Created
<1>3. ASSUME NEW r \in Runs, NEW k \in Keys, KeyFree(k),
             \A q \in Runs \ {r} : runs'[q] = runs[q], runs'[r].key = k
      PROVE  OneRunPerKey'
  BY <1>3 DEF OneRunPerKey, Created, KeyFree
<1> QED
  BY <1>1, <1>2, <1>3, RunStep

\* A run whose manifest is in the ledger has succeeded, which is terminal.
LEMMA NextLedger ==
  ASSUME StoreInv, [Next]_storeVars
  PROVE  LedgerOnlyFromSuccess'
<1> USE DEF StoreInv, LockInv
<1> DEFINE Backed(m, rows) ==
      m.source_reference \in Runs =>
        /\ rows[m.source_reference].status = "apply_succeeded"
        /\ rows[m.source_reference].fabric = m.fabric
<1>1. ASSUME NEW m, Backed(m, runs)
      PROVE  Backed(m, runs')
  <2>1. \A q \in Runs : runs[q].status = "apply_succeeded" => runs'[q] = runs[q]
    BY RunStep DEF Terminal, Created
  <2> QED
    BY <1>1, <2>1
<1>2. \A i \in 1..Len(manifests) : Backed(manifests[i], runs')
  <2>1. \A i \in 1..Len(manifests) : Backed(manifests[i], runs)
    BY DEF LedgerOnlyFromSuccess
  <2> HIDE DEF Backed
  <2> QED
    BY <1>1, <2>1
<1>3. ASSUME NEW m \in ManifestType, manifests' = Append(manifests, m),
             m.source_reference \notin References, Backed(m, runs')
      PROVE  LedgerOnlyFromSuccess'
  <2>1. /\ Len(manifests') = Len(manifests) + 1
        /\ manifests'[Len(manifests) + 1] = m
        /\ \A i \in 1..Len(manifests) : manifests'[i] = manifests[i]
        /\ Len(manifests) \in Nat
    BY <1>3 DEF TypeOK
  <2>2. \A i \in 1..Len(manifests') : Backed(manifests'[i], runs')
    <3> HIDE DEF Backed
    <3> QED
      BY <1>2, <1>3, <2>1
  <2>3. \A i, j \in 1..Len(manifests') :
          manifests'[j].source_reference = manifests'[i].source_reference
            => i = j
    BY <1>3, <2>1 DEF LedgerOnlyFromSuccess, References
  <2> QED
    BY <2>2, <2>3 DEF LedgerOnlyFromSuccess
<1>4. CASE UNCHANGED manifests
  BY <1>2, <1>4 DEF LedgerOnlyFromSuccess
<1>5. ASSUME NEW r \in Runs, NEW a \in Artifacts, CompleteApply(r, a)
      PROVE  LedgerOnlyFromSuccess'
  <2> DEFINE m == [fabric |-> runs[r].fabric, source_type |-> "successful_apply",
                   source_reference |-> r]
  <2>1. m \in ManifestType
    BY <1>5 DEF CompleteApply, RunComplete, Created, ManifestType
  <2>2. /\ runs'[r].status = "apply_succeeded"
        /\ runs'[r].fabric = runs[r].fabric
    BY <1>5 DEF CompleteApply, TypeOK, RunType
  <2> QED
    BY <1>3, <1>5, <2>1, <2>2 DEF CompleteApply
<1>6. ASSUME NEW f \in Fabrics, NEW x \in Adoptions, NEW d \in Actors,
             NEW a \in Actors, RecordAdoptedOwnedState(f, x, d, a)
      PROVE  LedgerOnlyFromSuccess'
  <2> DEFINE m == [fabric |-> f, source_type |-> "adopted_discovery",
                   source_reference |-> x]
  <2>1. m \in ManifestType /\ m.source_reference \notin Runs
    BY ReferenceAssumption DEF ManifestType
  <2> QED
    BY <1>3, <1>6, <2>1 DEF RecordAdoptedOwnedState
<1>7. CASE DesignNext
  BY <1>4, <1>7 DEF DesignNext, SaveIntent, ReserveDesign, SavePlan
<1>8. CASE GovernNext
  <2>1. ASSUME NEW r \in Runs, NEW p \in Plans,
               NEW k \in Keys, NEW n \in {"dry_run", "apply"},
               NEW s \in 0..Horizon, NEW e \in 0..Horizon,
               CreateRun(r, p, n, k, s, e)
        PROVE  UNCHANGED manifests
    BY <2>1 DEF CreateRun
  <2> QED
    BY <1>4, <1>6, <1>8, <2>1 DEF GovernNext, RecordApproval, Tick
<1>9. CASE ExecuteNext
  BY <1>4, <1>5, <1>9 DEF ExecuteNext, TransitionReservation, TransitionRun
<1> QED
  BY <1>4, <1>7, <1>8, <1>9 DEF Next, storeVars

LEMMA InitStore == Init => StoreInv
<1> SUFFICES ASSUME Init
             PROVE  StoreInv
  OBVIOUS
<1>1. /\ \A p \in Plans : ~Saved(p) /\ ~Decided(p) /\ plans[p].reservation = None
      /\ \A r \in Runs : ~Created(r)
      /\ manifests = <<>>
  BY DEF Init, Saved, Decided, Created, NoPlan, NoApproval, NoRun
<1> QED
  BY <1>1, InitLock
  DEF StoreInv, PlanReservationExists, PlanReservationMatches,
      ApprovalIndependent, RunBoundToPlan, OneRunPerKey, LedgerOnlyFromSuccess

\* What the tables say of each other in every state: the schema and the lock,
\* the bindings of plans, approvals and runs, the keys and the ledger.
THEOREM StoreInvariant == Spec => []StoreInv
<1>1. StoreInv /\ [Next]_storeVars => StoreInv'
  BY NextLock, NextBinding, NextApproval, NextBound, NextKey, NextLedger
  DEF StoreInv
<1> QED
  BY <1>1, InitStore, PTL DEF Spec

\* Only successful runs are in the ledger of owned states, once each.
THEOREM LedgerSound == Spec => []LedgerOnlyFromSuccess
<1>1. StoreInv => LedgerOnlyFromSuccess
  BY DEF StoreInv
<1> QED
  BY <1>1, StoreInvariant, PTL

\* A run executes the artifact its plan was saved with and decided on.
THEOREM RunsBound == Spec => []RunBoundToPlan
<1>1. StoreInv => RunBoundToPlan
  BY DEF StoreInv
<1> QED
  BY <1>1, StoreInvariant, PTL

\* The newest decision on a plan is not by the plan's creator.
THEOREM DutiesSeparate == Spec => []ApprovalIndependent
<1>1. StoreInv => ApprovalIndependent
  BY DEF StoreInv
<1> QED
  BY <1>1, StoreInvariant, PTL

\* An idempotency key names one run.
THEOREM KeysUnique == Spec => []OneRunPerKey
<1>1. StoreInv => OneRunPerKey
  BY DEF StoreInv
<1> QED
  BY <1>1, StoreInvariant, PTL

\* A bound reservation was derived for the intent of its plan.
THEOREM BindingsMatch == Spec => []PlanReservationMatches
<1>1. StoreInv => PlanReservationMatches
  BY DEF StoreInv
<1> QED
  BY <1>1, StoreInvariant, PTL

\* A finished run is never touched again.
THEOREM FinishedStays == Spec => TerminalIsFinal
<1>1. TypeOK /\ [Next]_storeVars
        => \A r \in Runs : runs[r].status \in Terminal => runs'[r] = runs[r]
  BY RunStep, StatusDisjoint DEF Created
<1> QED
  BY <1>1, TypeCorrect, PTL DEF Spec, TerminalIsFinal

\* A plan never abandons a reservation that still holds resources.
THEOREM BindingKept == Spec => ActiveBindingKept
<1>1. StoreInv /\ [Next]_storeVars
        => [\A p \in Plans : \A r \in Reservations :
              plans[p].reservation = r /\ ActiveResvn(r)
                => plans'[p].reservation = r]_storeVars
  <2> SUFFICES ASSUME StoreInv, [Next]_storeVars,
                      NEW p \in Plans, NEW r \in Reservations,
                      plans[p].reservation = r, ActiveResvn(r)
               PROVE  plans'[p].reservation = r
    OBVIOUS
  <2>1. Saved(p) /\ PriorActive(p)
    BY NoneAssumption DEF StoreInv, PlanReservationExists, PriorActive
  <2> QED
    BY <2>1, PlanStep DEF StoreInv, LockInv
<1> QED
  BY <1>1, StoreInvariant, PTL DEF Spec, ActiveBindingKept

-----------------------------------------------------------------------------
(* The workers.                                                             *)

\* A local state has the fields of Idle.
IsLocal(l) ==
  l = [pc |-> l.pc, run |-> l.run, pos |-> l.pos, ckpt |-> l.ckpt,
       changed |-> l.changed, journal |-> l.journal, failed |-> l.failed]

WorkerShape ==
  /\ worker = [w \in Workers |-> worker[w]]
  /\ \A w \in Workers :
       /\ IsLocal(worker[w])
       /\ worker[w].pc \in PCs
       /\ worker[w].pc # "idle" =>
            RunOf(w) \in Runs /\ Created(RunOf(w))

\* Past the start: the process has, or had, the run to itself.
Engaged(w) == worker[w].pc \notin {"idle", "checked"}

\* The status of the run at each program counter.
StatusAt(w) ==
  /\ worker[w].pc \in {"running", "checkpoint", "apply"} =>
       runs[RunOf(w)].status = "apply_running"
  /\ worker[w].pc = "rollback" => runs[RunOf(w)].status = "rollback_running"
  /\ worker[w].pc = "commit" => runs[RunOf(w)].status = "apply_succeeded"
  /\ Engaged(w) => /\ runs[RunOf(w)].status # "apply_queued"
                   /\ ArtifactOf(w) \notin Blocked

EngagedAlone ==
  \A w, x \in Workers : Engaged(w) /\ Engaged(x) /\ RunOf(w) = RunOf(x) => w = x

WorkerInv ==
  LockInv /\ WorkerShape /\ (\A w \in Workers : StatusAt(w)) /\ EngagedAlone

-----------------------------------------------------------------------------
(* The worker implements the store. *)

\* The store operations a process uses on its own run are steps of the store.
LEMMA RunOperation ==
  ASSUME NEW r \in Runs
  PROVE  /\ \A s \in RunStatus : TransitionRun(r, s) => Next
         /\ \A a \in Artifacts : CompleteApply(r, a) => Next
  BY DEF Next, ExecuteNext

LEMMA ReservationOperation ==
  ASSUME NEW v \in Reservations, NEW s \in ResvStates, NEW b \in BOOLEAN,
         TransitionReservation(v, s, b)
  PROVE  Next
  BY DEF Next, ExecuteNext

LEMMA WorkerStatuses ==
  {"apply_running", "apply_failed", "rollback_running", "rolled_back",
   "rollback_failed", "apply_succeeded"} \subseteq RunStatus
  BY DEF RunStatus, ApplyActive, Terminal

\* What a step of a process does to the tables: nothing, or one operation.
LEMMA WorkerStepStore ==
  ASSUME WorkerInv, NEW w \in Workers, WorkerStep(w)
  PROVE  Next \/ UNCHANGED storeVars
<1> DEFINE r == RunOf(w)
           v == ReservationOf(w)
<1>1. worker[w].pc # "idle" => r \in Runs /\ runs[r].artifact \in Artifacts
        /\ v \in Reservations \cup {None}
  BY DEF WorkerInv, LockInv, WorkerShape, RunComplete, TypeOK, PlanType,
         ReservationOf
<1>2. worker[w].pc \in PCs
  BY DEF WorkerInv, WorkerShape
<1>3. CASE RefuseBlocked(w)
  BY <1>1, <1>3, RunOperation, WorkerStatuses DEF RefuseBlocked, Refused
<1>4. CASE PreflightFails(w)
  BY <1>4 DEF PreflightFails
<1>5. CASE Begin(w)
  BY <1>1, <1>5, RunOperation, WorkerStatuses DEF Begin, Refused
<1>6. CASE Precheck(w)
  BY <1>1, <1>6, RunOperation, WorkerStatuses DEF Precheck, Refused
<1>7. CASE Checkpoint(w)
  BY <1>7 DEF Checkpoint
<1>8. CASE ApplyBlock(w) \/ ApplyIse(w) \/ CheckGate(w)
  BY <1>8 DEF ApplyBlock, ApplyIse, CheckGate
<1>9. CASE Complete(w)
  BY <1>1, <1>9, RunOperation DEF Complete, ArtifactOf
<1>10. CASE CommitReservation(w)
  <2>1. "committed" \in ResvStates
    BY DEF ResvStates, ActiveResv
  <2> QED
    BY <1>1, <1>10, <2>1, ReservationOperation
    DEF CommitReservation, ReservationRefused
<1>11. CASE Handle(w)
  BY <1>1, <1>11, RunOperation, WorkerStatuses
  DEF Handle, HandleFailure, Refused
<1>12. CASE RollBackDevice(w) \/ RollBackIse(w)
  BY <1>12 DEF RollBackDevice, RollBackIse
<1>13. CASE Finish(w)
  BY <1>1, <1>13, RunOperation, WorkerStatuses DEF Finish, Outcome, Refused
<1>14. CASE Settle(w)
  <2>1. SettledState(w) \in ResvStates
    BY DEF ResvStates, ActiveResv, SettledState
  <2>2. (~worker[w].failed) \in BOOLEAN
    OBVIOUS
  <2> QED
    BY <1>1, <1>14, <2>1, <2>2, ReservationOperation
    DEF Settle, ReservationRefused
<1> QED
  BY <1>3, <1>4, <1>5, <1>6, <1>7, <1>8, <1>9, <1>10, <1>11, <1>12, <1>13,
     <1>14
  DEF WorkerStep

LEMMA StepStore ==
  ASSUME WorkerInv, [WNext]_vars
  PROVE  [Next]_storeVars
<1>1. CASE ClientStep
  <2>1. Simulated \subseteq RunStatus
    BY DEF Simulated, RunStatus, DryRunActive, Terminal
  <2> QED
    BY <1>1, <2>1, RunOperation DEF ClientStep, SimulateNext, Next
<1>2. ASSUME NEW w \in Workers, NEW r \in Runs, Start(w, r)
      PROVE  UNCHANGED storeVars
  BY <1>2 DEF Start
<1>3. ASSUME NEW w \in Workers, WorkerStep(w) \/ Crash(w)
      PROVE  Next \/ UNCHANGED storeVars
  BY <1>3, WorkerStepStore DEF Crash
<1>4. CASE OperatorStep
  <2>1. "released" \in ResvStates /\ TRUE \in BOOLEAN
    BY DEF ResvStates
  <2>2. ASSUME NEW r \in Runs,
               OperatorRecover(r) \/ \E d \in Devices : OperatorRestore(r, d)
        PROVE  Next \/ UNCHANGED storeVars
    BY <2>2, RunOperation, WorkerStatuses DEF OperatorRecover, OperatorRestore
  <2>3. ASSUME NEW v \in Reservations, OperatorRelease(v)
        PROVE  Next
    BY <2>1, <2>3, ReservationOperation DEF OperatorRelease
  <2> QED
    BY <1>4, <2>2, <2>3 DEF OperatorStep
<1>5. CASE UNCHANGED vars
  BY <1>5 DEF vars
<1> QED
  BY <1>1, <1>2, <1>3, <1>4, <1>5 DEF WNext

-----------------------------------------------------------------------------
(* A process and its run. *)

LEMMA InitWorker == WInit => WorkerInv
<1> SUFFICES ASSUME WInit
             PROVE  WorkerInv
  OBVIOUS
<1>1. LockInv
  BY InitLock DEF WInit
<1>2. \A w \in Workers : worker[w] = Idle
  BY DEF WInit
<1>3. WorkerShape
  BY <1>2 DEF WInit, WorkerShape, IsLocal, Idle, At, PCs
<1>4. \A w \in Workers : StatusAt(w) /\ ~Engaged(w)
  BY <1>2 DEF StatusAt, Engaged, Idle, At
<1> QED
  BY <1>1, <1>3, <1>4 DEF WorkerInv, EngagedAlone

\* No other process that got past the start executes run r.
Alone(w, r) == \A x \in Workers \ {w} : Engaged(x) => RunOf(x) # r

\* A step of process w replaces its local state by l, and may move the status
\* of its run to s when no other engaged process shares that run.
LEMMA ProcessStep ==
  ASSUME WorkerInv, LockInv', NEW w \in Workers, NEW l, IsLocal(l),
         l.pc \in PCs, worker' = [worker EXCEPT ![w] = l],
         NEW r \in Runs, Created(r), l.pc # "idle" => l.run = r,
         \/ runs' = runs
         \/ /\ Alone(w, r)
            /\ \E s \in RunStatus : runs' = [runs EXCEPT ![r].status = s],
         l.pc \notin {"idle", "checked"} => Alone(w, r),
         StatusAt(w)'
  PROVE  WorkerInv'
<1> USE DEF WorkerInv
<1>1. /\ \A x \in Workers \ {w} : worker'[x] = worker[x]
      /\ worker'[w] = l
  BY DEF WorkerShape
<1>2. \A q \in Runs : /\ runs'[q].artifact = runs[q].artifact
                      /\ Created(q) => Created(q)'
  BY StatusDisjoint DEF LockInv, TypeOK, RunType, Created
<1>3. \A q \in Runs \ {r} : runs'[q] = runs[q]
  BY DEF LockInv, TypeOK
<1>4. WorkerShape'
  BY <1>1, <1>2 DEF WorkerShape, RunOf
<1>5. ASSUME NEW x \in Workers \ {w}
      PROVE  StatusAt(x)'
  <2>1. CASE ~Engaged(x)
    BY <1>1, <2>1 DEF StatusAt, Engaged, PCs
  <2>2. CASE Engaged(x)
    <3>1. RunOf(x) \in Runs
      BY <2>2 DEF Engaged, WorkerShape
    <3>2. runs'[RunOf(x)] = runs[RunOf(x)]
      BY <1>3, <2>2, <3>1 DEF Alone
    <3> QED
      BY <1>1, <3>2 DEF StatusAt, Engaged, RunOf, ArtifactOf
  <2> QED
    BY <2>1, <2>2
<1>6. EngagedAlone'
  BY <1>1 DEF EngagedAlone, Engaged, RunOf, Alone
<1> QED
  BY <1>4, <1>5, <1>6

\* Leaving is always possible.
LEMMA ExitStep ==
  ASSUME WorkerInv, LockInv', NEW w \in Workers, worker[w].pc # "idle", Exit(w),
         \/ runs' = runs
         \/ /\ Alone(w, RunOf(w))
            /\ \E s \in RunStatus : runs' = [runs EXCEPT ![RunOf(w)].status = s]
  PROVE  WorkerInv'
<1>1. IsLocal(Idle) /\ Idle.pc = "idle" /\ Idle.pc \in PCs
  BY DEF IsLocal, Idle, At, PCs
<1>2. RunOf(w) \in Runs /\ Created(RunOf(w))
  BY DEF WorkerInv, WorkerShape
<1>3. worker'[w] = Idle
  BY DEF Exit, WorkerInv, WorkerShape
<1>4. StatusAt(w)'
  BY <1>1, <1>3 DEF StatusAt, Engaged
<1> QED
  BY <1>1, <1>2, <1>4, ProcessStep DEF Exit

\* An engaged process is alone on its run; a process that merely checked is
\* alone while the run is still queued.
LEMMA AloneFacts ==
  ASSUME WorkerInv, NEW w \in Workers
  PROVE  /\ Engaged(w) => Alone(w, RunOf(w))
         /\ runs[RunOf(w)].status = "apply_queued" => Alone(w, RunOf(w))
  BY DEF WorkerInv, EngagedAlone, Alone, StatusAt

\* An engaged process that goes on to program counter pc with its run in
\* status s (the present one if the step does not move it).
LEMMA EngagedStep ==
  ASSUME WorkerInv, LockInv', NEW w \in Workers, Engaged(w), NEW l, IsLocal(l),
         l.pc \in PCs \ {"idle", "checked"}, l.run = RunOf(w),
         worker' = [worker EXCEPT ![w] = l], NEW s \in RunStatus,
         \/ runs' = runs /\ runs[RunOf(w)].status = s
         \/ runs' = [runs EXCEPT ![RunOf(w)].status = s],
         s # "apply_queued",
         l.pc \in {"running", "checkpoint", "apply"} => s = "apply_running",
         l.pc = "rollback" => s = "rollback_running",
         l.pc = "commit" => s = "apply_succeeded"
  PROVE  WorkerInv'
<1> DEFINE r == RunOf(w)
<1>1. r \in Runs /\ Created(r) /\ Alone(w, r)
  BY AloneFacts DEF WorkerInv, WorkerShape, Engaged
<1>2. worker'[w] = l
  BY DEF WorkerInv, WorkerShape
<1>3. runs'[r].status = s /\ runs'[r].artifact = runs[r].artifact
  BY <1>1 DEF WorkerInv, LockInv, TypeOK, RunType
<1>4. runs[r].artifact \notin Blocked
  BY DEF WorkerInv, StatusAt, ArtifactOf
<1>5. StatusAt(w)'
  BY <1>2, <1>3, <1>4 DEF StatusAt, RunOf, ArtifactOf
<1>6. /\ l.pc \in PCs /\ l.run = r
      /\ \/ runs' = runs
         \/ \E t \in RunStatus : runs' = [runs EXCEPT ![r].status = t]
  OBVIOUS
<1> HIDE DEF r
<1> QED
  BY <1>1, <1>5, <1>6, ProcessStep

\* What the store operations do to the rows of runs.
LEMMA MoveFacts ==
  ASSUME WorkerInv, NEW r \in Runs, NEW s \in RunStatus, TransitionRun(r, s)
  PROVE  runs' = [runs EXCEPT ![r].status = s]
  BY DEF TransitionRun

\* Every process has a local state with all fields, and its run has a status.
LEMMA LocalFacts ==
  ASSUME WorkerInv, NEW w \in Workers
  PROVE  /\ IsLocal(worker[w]) /\ worker[w].pc \in PCs
         /\ worker[w].pc # "idle" =>
              RunOf(w) \in Runs /\ runs[RunOf(w)].status \in RunStatus
  BY DEF WorkerInv, WorkerShape, LockInv, TypeOK, RunType, Created

LEMMA StartInv ==
  ASSUME WorkerInv, LockInv', NEW w \in Workers, NEW r \in Runs, Start(w, r)
  PROVE  WorkerInv'
<1> DEFINE l == At("checked", r)
<1>1. IsLocal(l) /\ l.pc = "checked" /\ l.run = r /\ l.pc \in PCs
  BY DEF IsLocal, At, PCs
<1>2. worker' = [worker EXCEPT ![w] = l] /\ runs' = runs /\ Created(r)
  BY DEF Start, Startable, storeVars, Created
<1>3. worker'[w] = l
  BY <1>2 DEF WorkerInv, WorkerShape
<1>4. StatusAt(w)'
  BY <1>1, <1>3 DEF StatusAt, Engaged
<1> HIDE DEF l
<1> QED
  BY <1>1, <1>2, <1>4, ProcessStep

LEMMA BeforeTouching ==
  ASSUME WorkerInv, LockInv', NEW w \in Workers,
         RefuseBlocked(w) \/ PreflightFails(w) \/ Begin(w)
  PROVE  WorkerInv'
<1> DEFINE r == RunOf(w)
<1>1. /\ worker[w].pc = "checked" /\ IsLocal(worker[w])
      /\ r \in Runs /\ Created(r) /\ r = worker[w].run
  BY DEF RefuseBlocked, PreflightFails, Begin, WorkerInv, WorkerShape, RunOf
<1>2. CASE RefuseBlocked(w)
  <2>1. ASSUME NEW x \in Workers, Engaged(x)
        PROVE  RunOf(x) # r
    BY <1>2, <2>1 DEF RefuseBlocked, WorkerInv, StatusAt, ArtifactOf
  <2>2. \/ runs' = runs
        \/ \E s \in RunStatus : runs' = [runs EXCEPT ![r].status = s]
    BY <1>2, WorkerStatuses DEF RefuseBlocked, TransitionRun, Refused, storeVars
  <2> QED
    BY <1>1, <1>2, <2>1, <2>2, ExitStep DEF RefuseBlocked, Alone
<1>3. CASE PreflightFails(w)
  BY <1>1, <1>3, ExitStep DEF PreflightFails, storeVars
<1>4. CASE Begin(w)
  <2>1. CASE Refused(w, "apply_running") /\ Exit(w)
    BY <1>1, <2>1, ExitStep DEF Refused, storeVars
  <2>2. CASE TransitionRun(r, "apply_running") /\ Goto(w, "running")
    <3> DEFINE l == [worker[w] EXCEPT !.pc = "running"]
    <3>1. IsLocal(l) /\ l.pc = "running" /\ l.run = r /\ l.pc \in PCs
      BY <1>1 DEF IsLocal, PCs
    <3>2. runs[r].status = "apply_queued"
      BY <1>1, <2>2, LocalFacts
      DEF TransitionRun, RunMoves, RunMovesTable, RunStatus, ApplyActive,
          DryRunActive, Terminal
    <3>3. Alone(w, r)
      BY <3>2, AloneFacts
    <3>4. worker' = [worker EXCEPT ![w] = l] /\ worker'[w] = l
      BY <2>2 DEF Goto, WorkerInv, WorkerShape
    <3>5. /\ runs' = [runs EXCEPT ![r].status = "apply_running"]
          /\ "apply_running" \in RunStatus
      BY <2>2, WorkerStatuses DEF TransitionRun
    <3>6. /\ runs'[r].status = "apply_running"
          /\ runs'[r].artifact = runs[r].artifact
      BY <1>1, <3>5 DEF WorkerInv, LockInv, TypeOK, RunType
    <3>7. StatusAt(w)'
      BY <1>4, <3>1, <3>4, <3>6 DEF StatusAt, RunOf, ArtifactOf, Begin
    <3> HIDE DEF l
    <3> QED
      BY <1>1, <3>1, <3>3, <3>4, <3>5, <3>7, ProcessStep
  <2> QED
    BY <1>4, <2>1, <2>2 DEF Begin
<1> QED
  BY <1>2, <1>3, <1>4

\* An engaged process that leaves the tables alone and goes on with local
\* state l, to a program counter that its run's status allows.
LEMMA QuietStep ==
  ASSUME WorkerInv, LockInv', NEW w \in Workers, Engaged(w), NEW l, IsLocal(l),
         l.run = worker[w].run, worker' = [worker EXCEPT ![w] = l], runs' = runs,
         l.pc \in {worker[w].pc, "failed"}
           \/ (l.pc \in {"checkpoint", "apply"}
                 /\ worker[w].pc \in {"running", "checkpoint"})
  PROVE  WorkerInv'
<1> DEFINE s == runs[RunOf(w)].status
<1>1. s \in RunStatus /\ s # "apply_queued"
  BY LocalFacts DEF Engaged, WorkerInv, StatusAt
<1>2. l.pc \in PCs \ {"idle", "checked"} /\ l.run = RunOf(w)
  BY LocalFacts DEF Engaged, PCs, RunOf
<1>3. l.pc \in {"running", "checkpoint", "apply"} => s = "apply_running"
  BY DEF WorkerInv, StatusAt
<1>4. /\ l.pc = "rollback" => s = "rollback_running"
      /\ l.pc = "commit" => s = "apply_succeeded"
  BY DEF WorkerInv, StatusAt
<1>5. runs' = runs /\ runs[RunOf(w)].status = s
  OBVIOUS
<1> HIDE DEF s
<1> QED
  BY <1>1, <1>2, <1>3, <1>4, <1>5, EngagedStep

\* An engaged process that moves its run to s and then to program counter pc.
LEMMA MovingStep ==
  ASSUME WorkerInv, LockInv', NEW w \in Workers, Engaged(w), NEW l, IsLocal(l),
         l.run = worker[w].run, worker' = [worker EXCEPT ![w] = l],
         NEW s \in RunStatus, runs' = [runs EXCEPT ![RunOf(w)].status = s],
         s # "apply_queued", l.pc \in {"commit", "failed", "rollback", "settle"},
         l.pc = "rollback" => s = "rollback_running",
         l.pc = "commit" => s = "apply_succeeded"
  PROVE  WorkerInv'
<1>1. /\ l.pc \in PCs \ {"idle", "checked"} /\ l.run = RunOf(w)
      /\ l.pc \notin {"running", "checkpoint", "apply"}
  BY DEF PCs, RunOf
<1> QED
  BY <1>1, EngagedStep

\* An engaged process that leaves, whatever it did to its run before.
LEMMA LeavingStep ==
  ASSUME WorkerInv, LockInv', NEW w \in Workers, Engaged(w), Exit(w),
         \/ runs' = runs
         \/ \E s \in RunStatus : TransitionRun(RunOf(w), s)
  PROVE  WorkerInv'
<1>1. worker[w].pc # "idle" /\ Alone(w, RunOf(w))
  BY AloneFacts DEF Engaged
<1>2. \/ runs' = runs
      \/ \E s \in RunStatus : runs' = [runs EXCEPT ![RunOf(w)].status = s]
  BY DEF TransitionRun
<1> QED
  BY <1>1, <1>2, ExitStep

LEMMA GotoFacts ==
  ASSUME WorkerInv, NEW w \in Workers, NEW pc
  PROVE  LET l == [worker[w] EXCEPT !.pc = pc]
         IN  /\ IsLocal(l) /\ l.pc = pc /\ l.run = worker[w].run
             /\ Goto(w, pc) => worker' = [worker EXCEPT ![w] = l]
<1>1. IsLocal(worker[w])
  BY LocalFacts
<1> QED
  BY <1>1 DEF IsLocal, Goto

LEMMA RaiseStep ==
  ASSUME WorkerInv, LockInv', NEW w \in Workers, Engaged(w), Raise(w),
         runs' = runs
  PROVE  WorkerInv'
<1> DEFINE l == [worker[w] EXCEPT !.pc = "failed"]
<1>1. /\ IsLocal(l) /\ l.pc = "failed" /\ l.run = worker[w].run
      /\ worker' = [worker EXCEPT ![w] = l]
  BY GotoFacts DEF Raise
<1> HIDE DEF l
<1> QED
  BY <1>1, QuietStep

LEMMA WhileConnecting ==
  ASSUME WorkerInv, LockInv', NEW w \in Workers, Precheck(w)
  PROVE  WorkerInv'
<1>1. Engaged(w) /\ worker[w].pc = "running"
  BY DEF Precheck, Engaged
<1>2. CASE Goto(w, "checkpoint") /\ UNCHANGED storeVars
  <2> DEFINE l == [worker[w] EXCEPT !.pc = "checkpoint"]
  <2>1. /\ IsLocal(l) /\ l.pc = "checkpoint" /\ l.run = worker[w].run
        /\ worker' = [worker EXCEPT ![w] = l]
    BY <1>2, GotoFacts
  <2> HIDE DEF l
  <2> QED
    BY <1>1, <1>2, <2>1, QuietStep DEF storeVars
<1>3. CASE Raise(w) /\ runs' = runs
  BY <1>1, <1>3, RaiseStep
<1>4. CASE TransitionRun(RunOf(w), "apply_failed") /\ Exit(w)
  BY <1>1, <1>4, LeavingStep, WorkerStatuses
<1> QED
  BY <1>2, <1>3, <1>4 DEF Precheck, Refused, storeVars

LEMMA WhileCheckpointing ==
  ASSUME WorkerInv, LockInv', NEW w \in Workers, Checkpoint(w)
  PROVE  WorkerInv'
<1>1. Engaged(w) /\ worker[w].pc = "checkpoint" /\ IsLocal(worker[w])
  BY LocalFacts DEF Checkpoint, Engaged
<1>2. runs' = runs
  BY DEF Checkpoint, storeVars
<1>3. CASE Raise(w)
  BY <1>1, <1>2, <1>3, RaiseStep
<1>4. CASE ~Raise(w)
  <2>1. PICK l : /\ worker' = [worker EXCEPT ![w] = l] /\ IsLocal(l)
                 /\ l.run = worker[w].run /\ l.pc \in {"checkpoint", "apply"}
    BY <1>1, <1>4 DEF Checkpoint, IsLocal
  <2> QED
    BY <1>1, <1>2, <2>1, QuietStep
<1> QED
  BY <1>3, <1>4

\* Local state k is l with other data: the same run at the same place, or the
\* same run at the exception handler.
Same(l, k)  == IsLocal(k) /\ k.run = l.run /\ k.pc = l.pc
Fails(l, k) == IsLocal(k) /\ k.run = l.run /\ k.pc = "failed"

LEMMA OneField ==
  ASSUME NEW l, IsLocal(l), NEW m
  PROVE  /\ Same(l, [l EXCEPT !.pos = m])
         /\ Same(l, [l EXCEPT !.changed = m])
         /\ Same(l, [l EXCEPT !.journal = m])
         /\ Same(l, [l EXCEPT !.failed = m])
         /\ Fails(l, [l EXCEPT !.pc = "failed"])
  BY DEF IsLocal, Same, Fails

LEMMA SameTrans ==
  ASSUME NEW l, NEW k, NEW j, Same(l, k)
  PROVE  /\ Same(k, j) => Same(l, j)
         /\ Fails(k, j) => Fails(l, j)
         /\ IsLocal(k)
  BY DEF Same, Fails

LEMMA TwoFields ==
  ASSUME NEW l, IsLocal(l), NEW m, NEW n
  PROVE  /\ Same(l, [l EXCEPT !.changed = m, !.pos = n])
         /\ Same(l, [l EXCEPT !.journal = m, !.pos = n])
         /\ Same(l, [l EXCEPT !.changed = m, !.failed = n])
         /\ Same(l, [l EXCEPT !.journal = m, !.failed = n])
         /\ Fails(l, [l EXCEPT !.changed = m, !.pc = "failed"])
         /\ Fails(l, [l EXCEPT !.journal = m, !.pc = "failed"])
<1>1. ASSUME NEW k, Same(l, k)
      PROVE  /\ Same(l, [k EXCEPT !.pos = n])
             /\ Same(l, [k EXCEPT !.failed = n])
             /\ Fails(l, [k EXCEPT !.pc = "failed"])
  BY <1>1, OneField, SameTrans
<1> DEFINE a == [l EXCEPT !.changed = m]
           b == [l EXCEPT !.journal = m]
<1>2. Same(l, a) /\ Same(l, b)
  BY OneField
<1>3. /\ Same(l, [a EXCEPT !.pos = n]) /\ Same(l, [b EXCEPT !.pos = n])
      /\ Same(l, [a EXCEPT !.failed = n]) /\ Same(l, [b EXCEPT !.failed = n])
      /\ Fails(l, [a EXCEPT !.pc = "failed"])
      /\ Fails(l, [b EXCEPT !.pc = "failed"])
  <2> HIDE DEF a, b
  <2> QED
    BY <1>1, <1>2
<1> QED
  BY <1>3

\* Process w ends its step in local state l.
Becomes(w, l) == worker' = [worker EXCEPT ![w] = l]

\* The ways the steps that touch devices or ISE change a local state.
LEMMA SameFacts ==
  ASSUME WorkerInv, NEW w \in Workers, NEW m, NEW n,
         \/ worker' = [worker EXCEPT ![w].pos = n]
         \/ worker' = [worker EXCEPT ![w].changed = m]
         \/ worker' = [worker EXCEPT ![w].journal = m]
         \/ worker' = [worker EXCEPT ![w].changed = m, ![w].pos = n]
         \/ worker' = [worker EXCEPT ![w].journal = m, ![w].pos = n]
         \/ worker' = [worker EXCEPT ![w].changed = m, ![w].failed = n]
         \/ worker' = [worker EXCEPT ![w].journal = m, ![w].failed = n]
  PROVE  \E l : Becomes(w, l) /\ Same(worker[w], l)
<1> DEFINE here == worker[w]
<1>1. IsLocal(here) /\ worker = [x \in Workers |-> worker[x]]
  BY LocalFacts DEF WorkerInv, WorkerShape
<1>2. \/ Becomes(w, [here EXCEPT !.pos = n])
      \/ Becomes(w, [here EXCEPT !.changed = m])
      \/ Becomes(w, [here EXCEPT !.journal = m])
      \/ Becomes(w, [here EXCEPT !.changed = m, !.pos = n])
      \/ Becomes(w, [here EXCEPT !.journal = m, !.pos = n])
      \/ Becomes(w, [here EXCEPT !.changed = m, !.failed = n])
      \/ Becomes(w, [here EXCEPT !.journal = m, !.failed = n])
  BY <1>1 DEF Becomes
<1> HIDE DEF here
<1>3. /\ Same(here, [here EXCEPT !.pos = n])
      /\ Same(here, [here EXCEPT !.changed = m])
      /\ Same(here, [here EXCEPT !.journal = m])
  BY <1>1, OneField
<1>4. /\ Same(here, [here EXCEPT !.changed = m, !.pos = n])
      /\ Same(here, [here EXCEPT !.journal = m, !.pos = n])
      /\ Same(here, [here EXCEPT !.changed = m, !.failed = n])
      /\ Same(here, [here EXCEPT !.journal = m, !.failed = n])
  BY <1>1, TwoFields
<1>5. \E l : Becomes(w, l) /\ Same(here, l)
  BY <1>2, <1>3, <1>4
<1> QED
  BY <1>5 DEF here

LEMMA FailsFacts ==
  ASSUME WorkerInv, NEW w \in Workers, NEW m,
         \/ worker' = [worker EXCEPT ![w].changed = m, ![w].pc = "failed"]
         \/ worker' = [worker EXCEPT ![w].journal = m, ![w].pc = "failed"]
         \/ Raise(w)
  PROVE  \E l : Becomes(w, l) /\ Fails(worker[w], l)
<1> DEFINE here == worker[w]
<1>1. IsLocal(here) /\ worker = [x \in Workers |-> worker[x]]
  BY LocalFacts DEF WorkerInv, WorkerShape
<1>2. \/ Becomes(w, [here EXCEPT !.changed = m, !.pc = "failed"])
      \/ Becomes(w, [here EXCEPT !.journal = m, !.pc = "failed"])
      \/ Becomes(w, [here EXCEPT !.pc = "failed"])
  BY <1>1 DEF Raise, Goto, Becomes
<1> HIDE DEF here
<1>3. /\ Fails(here, [here EXCEPT !.changed = m, !.pc = "failed"])
      /\ Fails(here, [here EXCEPT !.journal = m, !.pc = "failed"])
  BY <1>1, TwoFields
<1>4. Fails(here, [here EXCEPT !.pc = "failed"])
  BY <1>1, OneField
<1>5. \E l : Becomes(w, l) /\ Fails(here, l)
  BY <1>2, <1>3, <1>4
<1> QED
  BY <1>5 DEF here

LEMMA ApplyingState ==
  ASSUME WorkerInv, NEW w \in Workers,
         ApplyBlock(w) \/ ApplyIse(w) \/ CheckGate(w)
  PROVE  \E l : Becomes(w, l) /\ (Same(worker[w], l) \/ Fails(worker[w], l))
<1>1. CASE ApplyBlock(w)
  BY <1>1, SameFacts, FailsFacts DEF ApplyBlock
<1>2. CASE ApplyIse(w)
  BY <1>2, SameFacts, FailsFacts DEF ApplyIse
<1>3. CASE CheckGate(w)
  BY <1>3, SameFacts, FailsFacts DEF CheckGate
<1> QED
  BY <1>1, <1>2, <1>3

LEMMA WhileApplying ==
  ASSUME WorkerInv, LockInv', NEW w \in Workers,
         ApplyBlock(w) \/ ApplyIse(w) \/ CheckGate(w)
  PROVE  WorkerInv'
<1>1. Engaged(w) /\ worker[w].pc = "apply" /\ runs' = runs
  BY DEF ApplyBlock, ApplyIse, CheckGate, AtStep, Engaged, storeVars
<1>2. PICK l : Becomes(w, l) /\ (Same(worker[w], l) \/ Fails(worker[w], l))
  BY ApplyingState
<1> QED
  BY <1>1, <1>2, QuietStep DEF Becomes, Same, Fails

LEMMA WhileCompleting ==
  ASSUME WorkerInv, LockInv', NEW w \in Workers,
         Complete(w) \/ CommitReservation(w)
  PROVE  WorkerInv'
<1>1. Engaged(w)
  BY DEF Complete, CommitReservation, Engaged
<1>2. CASE Complete(w)
  <2>1. CASE CompleteApply(RunOf(w), ArtifactOf(w)) /\ Goto(w, "commit")
    <3> DEFINE l == [worker[w] EXCEPT !.pc = "commit"]
    <3>1. /\ IsLocal(l) /\ l.pc = "commit" /\ l.run = worker[w].run
          /\ worker' = [worker EXCEPT ![w] = l]
      BY <2>1, GotoFacts
    <3>2. /\ runs' = [runs EXCEPT ![RunOf(w)].status = "apply_succeeded"]
          /\ "apply_succeeded" \in RunStatus
      BY <2>1, WorkerStatuses DEF CompleteApply
    <3> HIDE DEF l
    <3> QED
      BY <1>1, <3>1, <3>2, MovingStep
  <2>2. CASE Raise(w) /\ UNCHANGED storeVars
    BY <1>1, <2>2, RaiseStep DEF storeVars
  <2> QED
    BY <1>2, <2>1, <2>2 DEF Complete
<1>3. CASE CommitReservation(w)
  <2>1. runs' = runs /\ (Exit(w) \/ Raise(w))
    BY <1>3 DEF CommitReservation, TransitionReservation, ReservationRefused,
                storeVars
  <2> QED
    BY <1>1, <2>1, LeavingStep, RaiseStep
<1> QED
  BY <1>2, <1>3

LEMMA WhileHandling ==
  ASSUME WorkerInv, LockInv', NEW w \in Workers, Handle(w)
  PROVE  WorkerInv'
<1>1. Engaged(w)
  BY DEF Handle, Engaged
<1>2. CASE /\ TransitionRun(RunOf(w), "rollback_running")
           /\ worker' = [worker EXCEPT ![w].changed = ToRollBack(w),
                                       ![w].pc = "rollback"]
  <2> DEFINE k == [worker[w] EXCEPT !.changed = ToRollBack(w)]
             l == [k EXCEPT !.pc = "rollback"]
  <2>1. IsLocal(worker[w]) /\ worker = [x \in Workers |-> worker[x]]
    BY LocalFacts DEF WorkerInv, WorkerShape
  <2>2. worker' = [worker EXCEPT ![w] = l]
    BY <1>2, <2>1
  <2>3. IsLocal(k) /\ k.run = worker[w].run
    BY <2>1, OneField DEF Same
  <2>4. IsLocal(l) /\ l.run = worker[w].run /\ l.pc = "rollback"
    <3> HIDE DEF k
    <3> QED
      BY <2>3 DEF IsLocal
  <2>5. /\ runs' = [runs EXCEPT ![RunOf(w)].status = "rollback_running"]
        /\ "rollback_running" \in RunStatus
    BY <1>2, WorkerStatuses DEF TransitionRun
  <2> HIDE DEF k, l
  <2> QED
    BY <1>1, <2>2, <2>4, <2>5, MovingStep
<1>3. CASE /\ Exit(w)
           /\ \/ runs' = runs
              \/ TransitionRun(RunOf(w), "apply_failed")
  BY <1>1, <1>3, LeavingStep, WorkerStatuses
<1> QED
  BY <1>2, <1>3 DEF Handle, HandleFailure, Refused, storeVars

LEMMA WhileRollingBack ==
  ASSUME WorkerInv, LockInv', NEW w \in Workers,
         RollBackDevice(w) \/ RollBackIse(w)
  PROVE  WorkerInv'
<1>1. Engaged(w) /\ runs' = runs
  BY DEF RollBackDevice, RollBackIse, Engaged, storeVars
<1>2. PICK l : Becomes(w, l) /\ Same(worker[w], l)
  <2>1. CASE RollBackDevice(w)
    BY <2>1, SameFacts DEF RollBackDevice
  <2>2. CASE RollBackIse(w)
    BY <2>2, SameFacts DEF RollBackIse
  <2> QED
    BY <2>1, <2>2
<1> QED
  BY <1>1, <1>2, QuietStep DEF Becomes, Same

LEMMA WhileFinishing ==
  ASSUME WorkerInv, LockInv', NEW w \in Workers, Finish(w) \/ Settle(w)
  PROVE  WorkerInv'
<1>1. Engaged(w)
  BY DEF Finish, Settle, Engaged
<1>2. CASE Finish(w)
  <2>1. CASE TransitionRun(RunOf(w), Outcome(w)) /\ Goto(w, "settle")
    <3> DEFINE l == [worker[w] EXCEPT !.pc = "settle"]
    <3>1. /\ IsLocal(l) /\ l.pc = "settle" /\ l.run = worker[w].run
          /\ worker' = [worker EXCEPT ![w] = l]
      BY <2>1, GotoFacts
    <3>2. /\ runs' = [runs EXCEPT ![RunOf(w)].status = Outcome(w)]
          /\ Outcome(w) \in RunStatus /\ Outcome(w) # "apply_queued"
      BY <2>1, WorkerStatuses DEF TransitionRun, Outcome
    <3> HIDE DEF l
    <3> QED
      BY <1>1, <3>1, <3>2, MovingStep
  <2>2. CASE runs' = runs /\ Exit(w)
    BY <1>1, <2>2, LeavingStep
  <2> QED
    BY <1>2, <2>1, <2>2 DEF Finish, Refused, storeVars
<1>3. CASE Settle(w)
  <2>1. runs' = runs /\ Exit(w)
    BY <1>3 DEF Settle, TransitionReservation, ReservationRefused, storeVars
  <2> QED
    BY <1>1, <2>1, LeavingStep
<1> QED
  BY <1>2, <1>3

-----------------------------------------------------------------------------
(* The other actors. *)

\* A step that leaves the processes alone, and the rows of their runs.
LEMMA Bystanders ==
  ASSUME WorkerInv, LockInv', worker' = worker,
         \A w \in Workers : worker[w].pc # "idle" =>
           runs'[RunOf(w)] = runs[RunOf(w)]
  PROVE  WorkerInv'
<1>1. WorkerShape'
  BY DEF WorkerInv, WorkerShape, RunOf, Created
<1>2. ASSUME NEW w \in Workers
      PROVE  StatusAt(w)'
  <2>1. CASE worker[w].pc = "idle"
    BY <2>1 DEF StatusAt, Engaged
  <2>2. CASE worker[w].pc # "idle"
    BY <2>2 DEF WorkerInv, StatusAt, Engaged, RunOf, ArtifactOf
  <2> QED
    BY <2>1, <2>2
<1>3. EngagedAlone'
  BY DEF WorkerInv, EngagedAlone, Engaged, RunOf
<1> QED
  BY <1>1, <1>2, <1>3 DEF WorkerInv

\* The simulator moves a dry run, and no run that a process may execute.
LEMMA SimulatorMoves ==
  ASSUME TypeOK, NEW r \in Runs, NEW s \in Simulated, TransitionRun(r, s)
  PROVE  /\ s \in RunStatus /\ runs[r].status \in DryRunActive
         /\ \A q \in Runs : q # r => runs'[q] = runs[q]
         /\ runs'[r].status = s /\ runs'[r].artifact = runs[r].artifact
<1>1. runs \in [Runs -> RunType] /\ runs' = [runs EXCEPT ![r].status = s]
  BY DEF TransitionRun, TypeOK
<1>2. runs'[r] = [runs[r] EXCEPT !.status = s]
  BY <1>1
<1>3. runs'[r].status = s /\ runs'[r].artifact = runs[r].artifact
  BY <1>1, <1>2 DEF RunType
<1>4. runs[r].status \in RunStatus
  BY <1>1 DEF TransitionRun, Created, RunType
<1>5. runs[r].status \in DryRunActive
  BY <1>4
  DEF TransitionRun, Simulated, RunMoves, RunMovesTable, RunStatus, ApplyActive,
      DryRunActive, Terminal
<1> QED
  BY <1>1, <1>3, <1>5 DEF Simulated, RunStatus, DryRunActive, Terminal

LEMMA SimulateInv ==
  ASSUME WorkerInv, LockInv', SimulateNext, worker' = worker
  PROVE  WorkerInv'
<1>1. PICK r \in Runs, s \in Simulated : TransitionRun(r, s)
  BY DEF SimulateNext
<1>2. /\ runs[r].status \in DryRunActive /\ runs'[r].status = s
      /\ runs'[r].artifact = runs[r].artifact
      /\ \A q \in Runs : q # r => runs'[q] = runs[q]
  BY <1>1, SimulatorMoves DEF WorkerInv, LockInv
<1>3. WorkerShape'
  BY <1>2 DEF WorkerInv, WorkerShape, RunOf, Created, Simulated
<1>4. ASSUME NEW w \in Workers
      PROVE  StatusAt(w)'
  <2>1. CASE worker[w].pc = "idle"
    BY <2>1 DEF StatusAt, Engaged
  <2>2. CASE worker[w].pc # "idle" /\ RunOf(w) # r
    BY <1>2, <2>2 DEF WorkerInv, WorkerShape, StatusAt, Engaged, RunOf, ArtifactOf
  <2>3. CASE RunOf(w) = r
    BY <1>2, <2>3
    DEF WorkerInv, StatusAt, Engaged, RunOf, ArtifactOf, DryRunActive, Simulated
  <2> QED
    BY <2>1, <2>2, <2>3
<1>5. EngagedAlone'
  BY DEF WorkerInv, EngagedAlone, Engaged, RunOf
<1> QED
  BY <1>3, <1>4, <1>5 DEF WorkerInv

\* A client creates runs, and never moves one that is applied.
LEMMA ClientInv ==
  ASSUME WorkerInv, LockInv', ClientStep
  PROVE  WorkerInv'
<1>1. worker' = worker
  BY DEF ClientStep
<1>2. CASE SimulateNext
  BY <1>1, <1>2, SimulateInv
<1>3. CASE DesignNext \/ GovernNext
  <2>1. ASSUME NEW q \in Runs, Created(q)
        PROVE  runs'[q] = runs[q]
    <3>1. CASE DesignNext
      BY <3>1 DEF DesignNext, SaveIntent, ReserveDesign, SavePlan
    <3>2. CASE GovernNext
      <4>1. ASSUME NEW r \in Runs, NEW p \in Plans,
                   NEW m \in {"dry_run", "apply"}, NEW k \in Keys,
                   NEW s \in 0..Horizon, NEW e \in 0..Horizon,
                   CreateRun(r, p, m, k, s, e)
            PROVE  runs'[q] = runs[q]
        BY <2>1, <4>1 DEF CreateRun
      <4>2. CASE runs' = runs
        BY <4>2
      <4> QED
        BY <3>2, <4>1, <4>2
        DEF GovernNext, RecordApproval, RecordAdoptedOwnedState, Tick
    <3> QED
      BY <1>3, <3>1, <3>2
  <2> QED
    BY <1>1, <2>1, Bystanders DEF WorkerInv, WorkerShape
<1> QED
  BY <1>2, <1>3 DEF ClientStep

\* The operator of the runbook recovers runs that no process executes.
LEMMA OperatorInv ==
  ASSUME Recovery \in {"none", "dead"}, WorkerInv, LockInv', OperatorStep
  PROVE  WorkerInv'
<1>1. ASSUME NEW v \in Reservations, OperatorRelease(v)
      PROVE  WorkerInv'
  BY <1>1, Bystanders DEF OperatorRelease, TransitionReservation
<1>2. ASSUME NEW r \in Runs,
             OperatorRecover(r) \/ \E d \in Devices : OperatorRestore(r, d)
      PROVE  WorkerInv'
  <2>1. worker' = worker /\ Abandoned(r)
    BY <1>2 DEF OperatorRecover, OperatorRestore, MayRecover
  <2>2. ASSUME NEW s, TransitionRun(r, s)
        PROVE  \A q \in Runs \ {r} : runs'[q] = runs[q]
    BY <2>2 DEF TransitionRun, WorkerInv, LockInv, TypeOK
  <2>3. CASE OperatorRecover(r)
    BY <2>1, <2>2, <2>3, Bystanders
    DEF OperatorRecover, Abandoned, WorkerInv, WorkerShape
  <2>4. CASE \E d \in Devices : OperatorRestore(r, d)
    BY <2>1, <2>4, Bystanders DEF OperatorRestore, storeVars
  <2> QED
    BY <1>2, <2>3, <2>4
<1> QED
  BY <1>1, <1>2 DEF OperatorStep

LEMMA ProcessInv ==
  ASSUME WorkerInv, LockInv', NEW w \in Workers, WorkerStep(w)
  PROVE  WorkerInv'
  BY BeforeTouching, WhileConnecting, WhileCheckpointing, WhileApplying,
     WhileCompleting, WhileHandling, WhileRollingBack, WhileFinishing
  DEF WorkerStep

LEMMA NextWorker ==
  ASSUME Recovery \in {"none", "dead"}, WorkerInv, [WNext]_vars
  PROVE  WorkerInv'
<1>1. LockInv'
  BY StepStore, NextLock DEF WorkerInv
<1>2. ASSUME NEW w \in Workers, NEW r \in Runs, Start(w, r)
      PROVE  WorkerInv'
  BY <1>1, <1>2, StartInv
<1>3. ASSUME NEW w \in Workers, Crash(w)
      PROVE  WorkerInv'
  <2>1. Exit(w) /\ runs' = runs
    BY <1>3 DEF Crash, storeVars
  <2>2. CASE worker[w].pc # "idle"
    BY <1>1, <2>1, <2>2, ExitStep
  <2>3. CASE worker[w].pc = "idle"
    BY <1>3, <2>3 DEF Crash
  <2> QED
    BY <2>2, <2>3
<1>4. CASE UNCHANGED vars
  BY <1>1, <1>4, Bystanders DEF vars, storeVars
<1> QED
  BY <1>1, <1>2, <1>3, <1>4, ClientInv, OperatorInv, ProcessInv DEF WNext

-----------------------------------------------------------------------------
(* The ledger, and the resources of a design that was applied. *)

\* Every move of transition_run that a process or the operator makes, none of
\* which is the success that complete_apply records.
LEMMA MoveKeepsLedger ==
  ASSUME WorkerInv, LedgerMatchesOutcome, NEW r \in Runs, NEW s \in RunStatus,
         TransitionRun(r, s), s # "apply_succeeded"
  PROVE  LedgerMatchesOutcome'
<1>1. \A q \in Runs :
        runs'[q].status = IF q = r THEN s ELSE runs[q].status
  BY DEF TransitionRun, WorkerInv, LockInv, TypeOK, RunType
<1>2. runs[r].status # "apply_succeeded"
  BY DEF TransitionRun, RunMoves, RunMovesTable, RunStatus, ApplyActive,
         DryRunActive, Terminal
<1>3. References' = References
  BY DEF TransitionRun, References
<1> QED
  BY <1>1, <1>2, <1>3 DEF LedgerMatchesOutcome

\* The ledger after one more manifest.
LEMMA AppendReference ==
  ASSUME WorkerInv, NEW m, m \in ManifestType, manifests' = Append(manifests, m)
  PROVE  References' = References \cup {m.source_reference}
<1>1. /\ Len(manifests') = Len(manifests) + 1
      /\ manifests'[Len(manifests) + 1] = m
      /\ \A i \in 1..Len(manifests) : manifests'[i] = manifests[i]
      /\ Len(manifests) \in Nat
  BY DEF WorkerInv, LockInv, TypeOK
<1>2. 1..Len(manifests') = 1..Len(manifests) \cup {Len(manifests) + 1}
  BY <1>1
<1> QED
  BY <1>1, <1>2 DEF References

LEMMA CompleteKeepsLedger ==
  ASSUME WorkerInv, LedgerMatchesOutcome, NEW r \in Runs, NEW a,
         CompleteApply(r, a)
  PROVE  LedgerMatchesOutcome'
<1>1. \A q \in Runs :
        runs'[q].status = IF q = r THEN "apply_succeeded" ELSE runs[q].status
  BY DEF CompleteApply, WorkerInv, LockInv, TypeOK, RunType
<1> DEFINE m == [fabric |-> runs[r].fabric, source_type |-> "successful_apply",
                 source_reference |-> r]
<1>2. m \in ManifestType /\ manifests' = Append(manifests, m)
  BY DEF CompleteApply, WorkerInv, LockInv, RunComplete, Created, ManifestType
<1>3. References' = References \cup {r}
  BY <1>2, AppendReference
<1> QED
  BY <1>1, <1>3 DEF LedgerMatchesOutcome

LEMMA GovernKeepsLedger ==
  ASSUME WorkerInv, LedgerMatchesOutcome, GovernNext
  PROVE  LedgerMatchesOutcome'
<1>1. ASSUME NEW r \in Runs, NEW p \in Plans, NEW m \in {"dry_run", "apply"},
             NEW k \in Keys, NEW s \in 0..Horizon, NEW e \in 0..Horizon,
             CreateRun(r, p, m, k, s, e)
      PROVE  LedgerMatchesOutcome'
  <2>1. \A q \in Runs \ {r} : runs'[q] = runs[q]
    BY <1>1 DEF CreateRun, WorkerInv, LockInv, TypeOK
  <2>2. /\ runs[r].status # "apply_succeeded"
        /\ runs'[r].status # "apply_succeeded"
    BY <1>1 DEF CreateRun, Created, WorkerInv, LockInv, TypeOK
  <2>3. References' = References
    BY <1>1 DEF CreateRun, References
  <2> QED
    BY <2>1, <2>2, <2>3 DEF LedgerMatchesOutcome
<1>2. ASSUME NEW f \in Fabrics, NEW x \in Adoptions, NEW d \in Actors,
             NEW a \in Actors, RecordAdoptedOwnedState(f, x, d, a)
      PROVE  LedgerMatchesOutcome'
  <2> DEFINE m == [fabric |-> f, source_type |-> "adopted_discovery",
                   source_reference |-> x]
  <2>1. m \in ManifestType /\ manifests' = Append(manifests, m) /\ runs' = runs
    BY <1>2 DEF RecordAdoptedOwnedState, ManifestType
  <2>2. References' = References \cup {x} /\ x \notin Runs
    BY <2>1, AppendReference, ReferenceAssumption
  <2> QED
    BY <2>1, <2>2 DEF LedgerMatchesOutcome
<1>3. CASE UNCHANGED <<runs, manifests>>
  BY <1>3 DEF LedgerMatchesOutcome, References
<1> QED
  BY <1>1, <1>2, <1>3 DEF GovernNext, RecordApproval, Tick

LEMMA NextOutcome ==
  ASSUME WorkerInv, LedgerMatchesOutcome, [WNext]_vars
  PROVE  LedgerMatchesOutcome'
<1>1. CASE UNCHANGED <<runs, manifests>>
  BY <1>1 DEF LedgerMatchesOutcome, References
<1>2. CASE UNCHANGED storeVars
  BY <1>1, <1>2 DEF storeVars
<1>3. CASE ClientStep
  <2>1. CASE SimulateNext
    BY <2>1, SimulatorMoves, MoveKeepsLedger
    DEF SimulateNext, WorkerInv, LockInv, Simulated
  <2> QED
    BY <1>1, <1>3, <2>1, GovernKeepsLedger
    DEF ClientStep, DesignNext, SaveIntent, ReserveDesign, SavePlan
<1>4. ASSUME NEW w \in Workers, WorkerStep(w)
      PROVE  LedgerMatchesOutcome'
  <2>1. worker[w].pc # "idle" => RunOf(w) \in Runs
    BY DEF WorkerInv, WorkerShape
  <2>2. CASE RefuseBlocked(w) \/ Begin(w) \/ Precheck(w) \/ Handle(w)
    BY <1>2, <2>1, <2>2, MoveKeepsLedger, WorkerStatuses
    DEF RefuseBlocked, Begin, Precheck, Handle, HandleFailure, Refused
  <2>3. CASE \/ PreflightFails(w) \/ Checkpoint(w) \/ ApplyBlock(w)
             \/ ApplyIse(w) \/ CheckGate(w)
             \/ RollBackDevice(w) \/ RollBackIse(w)
    BY <1>2, <2>3
    DEF PreflightFails, Checkpoint, ApplyBlock, ApplyIse, CheckGate,
        RollBackDevice, RollBackIse
  <2>4. CASE Complete(w)
    BY <1>2, <2>1, <2>4, CompleteKeepsLedger DEF Complete
  <2>5. CASE CommitReservation(w) \/ Settle(w)
    BY <1>1, <1>2, <2>5
    DEF CommitReservation, Settle, TransitionReservation, ReservationRefused
  <2>6. CASE Finish(w)
    BY <1>2, <2>1, <2>6, MoveKeepsLedger, WorkerStatuses
    DEF Finish, Outcome, Refused
  <2> QED
    BY <1>4, <2>2, <2>3, <2>4, <2>5, <2>6 DEF WorkerStep
<1>5. CASE OperatorStep
  BY <1>1, <1>2, <1>5, MoveKeepsLedger, WorkerStatuses
  DEF OperatorStep, OperatorRecover, OperatorRestore, OperatorRelease,
      TransitionReservation
<1>6. CASE \E w \in Workers : Crash(w) \/ \E r \in Runs : Start(w, r)
  BY <1>2, <1>6 DEF Crash, Start
<1> QED
  BY <1>2, <1>3, <1>4, <1>5, <1>6 DEF WNext, vars

\* A reservation becomes committed only by the process whose run succeeded.
LEMMA CommitStep ==
  ASSUME WorkerInv, [WNext]_vars, NEW v \in Reservations,
         reservations[v].state # "committed",
         reservations'[v].state = "committed"
  PROVE  /\ UNCHANGED <<runs, plans>>
         /\ \E r \in Runs : /\ runs[r].status = "apply_succeeded"
                            /\ plans[runs[r].plan].reservation = v
<1>1. reservations' # reservations /\ ~UNCHANGED storeVars
  BY DEF storeVars
<1>2. ASSUME NEW u, NEW s, NEW b, TransitionReservation(u, s, b)
      PROVE  u = v /\ s = "committed" /\ UNCHANGED <<runs, plans>>
  BY <1>2 DEF TransitionReservation, WorkerInv, LockInv, TypeOK,
              ReservationType
<1>3. ASSUME NEW w \in Workers, WorkerStep(w)
      PROVE  CommitReservation(w)
  <2>1. ASSUME NEW r, NEW s, TransitionRun(r, s) \/ CompleteApply(r, s)
        PROVE  FALSE
    BY <1>1, <2>1 DEF TransitionRun, CompleteApply
  <2>2. ~Settle(w)
    BY <1>1, <1>2 DEF Settle, SettledState, ReservationRefused
  <2> QED
    BY <1>1, <1>3, <2>1, <2>2
    DEF WorkerStep, RefuseBlocked, PreflightFails, Begin, Precheck, Checkpoint,
        ApplyBlock, ApplyIse, CheckGate, Complete, Handle, HandleFailure,
        RollBackDevice, RollBackIse, Finish, Refused
<1>4. ASSUME NEW w \in Workers, CommitReservation(w)
      PROVE  /\ UNCHANGED <<runs, plans>>
             /\ \E r \in Runs : /\ runs[r].status = "apply_succeeded"
                                /\ plans[runs[r].plan].reservation = v
  <2>1. ReservationOf(w) = v /\ UNCHANGED <<runs, plans>>
    BY <1>1, <1>2, <1>4 DEF CommitReservation, ReservationRefused
  <2>2. RunOf(w) \in Runs /\ runs[RunOf(w)].status = "apply_succeeded"
    BY <1>4 DEF CommitReservation, WorkerInv, WorkerShape, StatusAt
  <2> QED
    BY <2>1, <2>2 DEF ReservationOf
<1>5. ~ClientStep
  <2>1. ~DesignNext
    <3>1. ASSUME NEW u \in Reservations, NEW i \in Intents, ReserveDesign(u, i)
          PROVE  FALSE
      BY <3>1 DEF ReserveDesign, WorkerInv, LockInv, TypeOK
    <3> QED
      BY <1>1, <3>1 DEF DesignNext, SaveIntent, SavePlan
  <2>2. ~GovernNext /\ ~SimulateNext
    BY <1>1, GovernFrame DEF SimulateNext, TransitionRun
  <2> QED
    BY <2>1, <2>2 DEF ClientStep
<1>6. ~OperatorStep
  <2>1. ASSUME NEW u, OperatorRelease(u)
        PROVE  FALSE
    BY <2>1
    DEF OperatorRelease, TransitionReservation, WorkerInv, LockInv, TypeOK,
        ReservationType
  <2>2. ASSUME NEW r, OperatorRecover(r) \/ \E d : OperatorRestore(r, d)
        PROVE  FALSE
    BY <1>1, <2>2 DEF OperatorRecover, OperatorRestore, TransitionRun
  <2> QED
    BY <2>1, <2>2 DEF OperatorStep
<1>7. ~\E w \in Workers : Crash(w) \/ \E r \in Runs : Start(w, r)
  BY <1>1 DEF Crash, Start
<1> QED
  BY <1>1, <1>3, <1>4, <1>5, <1>6, <1>7 DEF WNext, vars

\* The run that deployed a design stays succeeded, and its plan cannot be
\* bound to another reservation while this one is committed.
LEMMA NextDeployed ==
  ASSUME WorkerInv, StoreInv, CommittedIsDeployed, [WNext]_vars
  PROVE  CommittedIsDeployed'
<1> SUFFICES ASSUME NEW v \in Reservations,
                    reservations'[v].state = "committed"
             PROVE  \E r \in Runs : /\ runs'[r].status = "apply_succeeded"
                                    /\ plans'[runs'[r].plan].reservation = v
  BY DEF CommittedIsDeployed
<1>1. CASE reservations[v].state # "committed"
  BY <1>1, CommitStep
<1>2. CASE reservations[v].state = "committed"
  <2>1. PICK r \in Runs : /\ runs[r].status = "apply_succeeded"
                          /\ plans[runs[r].plan].reservation = v
    BY <1>2 DEF CommittedIsDeployed
  <2> DEFINE p == runs[r].plan
  <2>2. [Next]_storeVars /\ TypeOK
    BY StepStore DEF WorkerInv, LockInv
  <2>3. runs'[r] = runs[r]
    BY <2>1, <2>2, RunStep DEF Terminal, Created
  <2>4. p \in Plans
    BY <2>1 DEF WorkerInv, LockInv, RunComplete, Created
  <2>5. Saved(p) /\ PriorActive(p)
    BY <1>2, <2>1, <2>4, NoneAssumption
    DEF StoreInv, PlanReservationExists, PriorActive, ActiveResvn, ActiveResv
  <2>6. plans'[p] = plans[p]
    BY <2>2, <2>4, <2>5, PlanStep
  <2> QED
    BY <2>1, <2>3, <2>6
<1> QED
  BY <1>1, <1>2

-----------------------------------------------------------------------------
(* The theorems. *)

\* Which status a run has while a process executes it, and that no two
\* processes that got past the start share a run (worker.process_apply, the
\* runbook's operator), whenever only abandoned runs are recovered.
THEOREM WorkerInvariant ==
  ASSUME Recovery \in {"none", "dead"}
  PROVE  WSpec => []WorkerInv
<1>1. WInit => WorkerInv
  BY InitWorker
<1>2. WorkerInv /\ [WNext]_vars => WorkerInv'
  BY NextWorker
<1> QED
  BY <1>1, <1>2, PTL DEF WSpec

\* The worker, its clients and the operator do nothing to the tables that is
\* not an operation of the store: ApplyWorker implements RunStore.
THEOREM WorkerImplementsStore ==
  ASSUME Recovery \in {"none", "dead"}
  PROVE  WSpec => Spec
<1>1. WInit => Init
  BY DEF WInit
<1>2. WorkerInv /\ [WNext]_vars => [Next]_storeVars
  BY StepStore
<1> QED
  BY <1>1, <1>2, WorkerInvariant, PTL DEF WSpec, Spec

\* A process that may write to a fabric owns its lock and is alone there, as
\* long as an operator recovers only runs whose worker is gone.
THEOREM SoleWriterHolds ==
  ASSUME Recovery \in {"none", "dead"}
  PROVE  WSpec => []SoleWriter
<1>1. WorkerInv => SoleWriter
  <2> SUFFICES ASSUME WorkerInv
               PROVE  SoleWriter
    OBVIOUS
  <2>1. ASSUME NEW w \in Workers, Writing(w)
        PROVE  /\ RunOf(w) \in Runs /\ Engaged(w)
               /\ runs[RunOf(w)].status \in ApplyActive
               /\ FabricOfW(w) \in Fabrics
    BY <2>1 DEF Writing, Engaged, WorkerInv, WorkerShape, StatusAt, ApplyActive,
                LockInv, RunComplete, FabricOfW
  <2>2. \A w \in Workers : Writing(w) => locks[FabricOfW(w)].run = RunOf(w)
    BY <2>1
    DEF WorkerInv, LockInv, LockHeldIffActive, HoldsLock, FabricOfW
  <2>3. WritersExclude
    BY <2>1, LockExclusion
    DEF WritersExclude, WorkerInv, OneActiveApplyPerFabric, EngagedAlone,
        FabricOfW
  <2> QED
    BY <2>2, <2>3 DEF SoleWriter
<1> QED
  BY <1>1, WorkerInvariant, PTL

\* The ledger says at every instant what the runs say (store.complete_apply,
\* worker.process_apply), whichever process dies and whatever an operator does
\* to abandoned runs.
THEOREM LedgerMatches ==
  ASSUME Recovery \in {"none", "dead"}
  PROVE  WSpec => []LedgerMatchesOutcome
<1>1. WInit => LedgerMatchesOutcome
  BY DEF WInit, Init, LedgerMatchesOutcome, References, NoRun
<1>2. /\ WorkerInv /\ LedgerMatchesOutcome /\ [WNext]_vars
      => LedgerMatchesOutcome'
  BY NextOutcome
<1> QED
  BY <1>1, <1>2, WorkerInvariant, PTL DEF WSpec

\* Resources count as deployed only when a run of the plan they are bound to
\* succeeded (worker.process_apply, store.save_plan).
THEOREM CommittedDeployed ==
  ASSUME Recovery \in {"none", "dead"}
  PROVE  WSpec => []CommittedIsDeployed
<1>1. WInit => CommittedIsDeployed
  BY DEF WInit, Init, CommittedIsDeployed, NoReservation
<1>2. /\ WorkerInv /\ StoreInv /\ CommittedIsDeployed /\ [WNext]_vars
      => CommittedIsDeployed'
  BY NextDeployed
<1> QED
  BY <1>1, <1>2, WorkerInvariant, WorkerImplementsStore, StoreInvariant, PTL
  DEF WSpec

-----------------------------------------------------------------------------
(* Unwinding: a run that is rolled back leaves its fabric as it found it.  *)



\* The statuses in which a run may have left something on its fabric.
Unsettled == {"apply_running", "rollback_running"}
Live(w)   == Engaged(w) /\ runs[RunOf(w)].status \in Unsettled

\* What local state l knows of fabric f: the devices it has checkpoints of, and
\* those it may have changed.
Course(l, f) ==
  /\ l.ckpt \in Seq(DevicesOf(f)) /\ l.changed \in Seq(DevicesOf(f))
  /\ l.failed \in BOOLEAN
  /\ Elems(l.changed) \subseteq Elems(l.ckpt)
  /\ l.pc = "running" => l.ckpt = <<>> /\ l.pos = 1
  /\ l.pc \in {"running", "checkpoint"} => l.changed = <<>> /\ l.journal = {}
  /\ l.pc = "checkpoint" =>
       /\ l.pos \in 1..Len(DeviceOrder[f])
       /\ \A i \in 1..(l.pos - 1) : DeviceOrder[f][i] \in Elems(l.ckpt)
  /\ l.pc = "apply" => DevicesOf(f) \subseteq Elems(l.ckpt)
  /\ l.pc \in {"running", "checkpoint", "apply", "failed"} => l.failed = FALSE

\* The files on flash that l counts on hold what the fabric had before.
Restorable(l, files, pre) ==
  \A d \in Elems(l.ckpt) : d \in DOMAIN files /\ files[d] = pre.config[d]

\* A device not marked and an ISE object not journaled is as it was.
Accounted(l, f, pre, cfg, objects) ==
  l.failed = FALSE =>
    /\ \A d \in DevicesOf(f) : d \in Elems(l.changed) \/ cfg[d] = pre.config[d]
    /\ pre.ise \subseteq objects
    /\ objects \subseteq pre.ise \cup l.journal
    /\ l.journal \cap pre.ise = {}

Recorded(f, pre) ==
  pre = [config |-> [d \in DevicesOf(f) |-> pre.config[d]], ise |-> pre.ise]

Kept(l, f, files, pre, cfg, objects) ==
  /\ Course(l, f)
  /\ Restorable(l, files, pre)
  /\ Accounted(l, f, pre, cfg, objects)
  /\ Recorded(f, pre)

KeptBy(w) ==
  Kept(worker[w], FabricOfW(w), flash[RunOf(w)], before[RunOf(w)], config,
       ise[FabricOfW(w)])

WorldShape ==
  /\ config = [d \in Devices |-> config[d]]
  /\ ise = [f \in Fabrics |-> ise[f]]
  /\ flash = [r \in Runs |-> flash[r]]
  /\ before = [r \in Runs |-> before[r]]

\* The files of a run are on the devices of its fabric.
FilesOnFabric ==
  \A r \in Runs : \A d \in DOMAIN flash[r] :
    Created(r) /\ d \in DevicesOf(runs[r].fabric)

\* A run whose artifact has blockers does not begin.
NeverBlocked ==
  \A r \in Runs :
    runs[r].status \in Unsettled => runs[r].artifact \notin Blocked

Fresh == \A w \in Workers :
  worker[w].pc = "checked" => worker[w] = At("checked", RunOf(w))

UnwindInv ==
  /\ WorkerInv /\ WorldShape /\ FilesOnFabric /\ NeverBlocked /\ Fresh
  /\ \A w \in Workers : Live(w) => KeptBy(w)

-----------------------------------------------------------------------------
(* Who is on a fabric. *)

LEMMA UnsettledFacts ==
  /\ Unsettled \subseteq ApplyActive
  /\ \A s \in RunStatus : \A t \in RunMoves[s] \cap Unsettled :
       s \in Unsettled \/ s = "apply_queued"
  /\ \A t \in RunMoves["rollback_running"] : t \in {"rolled_back", "rollback_failed"}
  BY DEF Unsettled, ApplyActive, RunMoves, RunMovesTable, RunStatus,
         DryRunActive, Terminal

LEMMA LiveFacts ==
  ASSUME WorkerInv, NEW w \in Workers, Live(w)
  PROVE  /\ RunOf(w) \in Runs /\ Created(RunOf(w))
         /\ FabricOfW(w) \in Fabrics /\ IsLocal(worker[w])
         /\ runs[RunOf(w)].status \in ApplyActive
  BY LocalFacts, UnsettledFacts
  DEF Live, Engaged, WorkerInv, WorkerShape, LockInv, RunComplete, FabricOfW

\* Two processes with an unsettled run each are on two fabrics, so they touch
\* no device and no ISE server in common.
LEMMA Apart ==
  ASSUME WorkerInv, NEW w \in Workers, NEW x \in Workers, w # x, Live(w), Live(x)
  PROVE  /\ RunOf(w) # RunOf(x) /\ FabricOfW(w) # FabricOfW(x)
         /\ DevicesOf(FabricOfW(w)) \cap DevicesOf(FabricOfW(x)) = {}
<1>1. RunOf(w) # RunOf(x)
  BY DEF Live, WorkerInv, EngagedAlone
<1>2. FabricOfW(w) # FabricOfW(x)
  BY <1>1, LiveFacts, LockExclusion
  DEF WorkerInv, OneActiveApplyPerFabric, FabricOfW
<1> QED
  BY <1>1, <1>2, LiveFacts, DeviceAssumption

\* An operation of the store neither moves a run to another fabric nor brings
\* one back to an unsettled status.
LEMMA RowStays ==
  ASSUME WorkerInv, [WNext]_vars, NEW r \in Runs, Created(r)
  PROVE  /\ runs'[r].fabric = runs[r].fabric /\ runs'[r].artifact = runs[r].artifact
         /\ Created(r)'
         /\ runs'[r].status \in Unsettled =>
              runs[r].status \in Unsettled \cup {"apply_queued"}
<1>1. TypeOK /\ [Next]_storeVars
  BY StepStore DEF WorkerInv, LockInv
<1>2. /\ runs'[r].fabric = runs[r].fabric /\ runs'[r].artifact = runs[r].artifact
      /\ Created(r)'
  BY <1>1, RunStep DEF Created
<1>3. ASSUME NEW q \in Runs, NEW s \in RunStatus, TransitionRun(q, s),
             runs'[r].status \in Unsettled
      PROVE  runs[r].status \in Unsettled \cup {"apply_queued"}
  <2>1. runs[q].status \in RunStatus
    BY <1>1, <1>3 DEF TransitionRun, Created, TypeOK, RunType
  <2>2. runs'[r].status = IF r = q THEN s ELSE runs[r].status
    BY <1>1, <1>3 DEF TransitionRun, TypeOK, RunType
  <2> QED
    BY <1>3, <2>1, <2>2, UnsettledFacts DEF TransitionRun
<1>4. ASSUME NEW q \in Runs, NEW a \in Artifacts, CompleteApply(q, a),
             runs'[r].status \in Unsettled
      PROVE  runs[r].status \in Unsettled
  BY <1>1, <1>4 DEF CompleteApply, TypeOK, RunType, Unsettled
<1>5. CASE ExecuteNext
  BY <1>2, <1>3, <1>4, <1>5 DEF ExecuteNext, TransitionReservation
<1>6. CASE DesignNext
  BY <1>2, <1>6 DEF DesignNext, SaveIntent, ReserveDesign, SavePlan
<1>7. CASE GovernNext
  <2>1. ASSUME NEW q \in Runs, NEW p \in Plans,
               NEW m \in {"dry_run", "apply"}, NEW k \in Keys,
               NEW s \in 0..Horizon, NEW e \in 0..Horizon,
               CreateRun(q, p, m, k, s, e)
        PROVE  runs'[r] = runs[r]
    BY <2>1 DEF CreateRun
  <2> QED
    BY <1>2, <1>7, <2>1 DEF GovernNext, RecordApproval, RecordAdoptedOwnedState, Tick
<1>8. CASE UNCHANGED storeVars
  BY <1>2, <1>8 DEF storeVars
<1> QED
  BY <1>1, <1>2, <1>5, <1>6, <1>7, <1>8 DEF Next

\* A process that is live after the step of another was so before.
LEMMA LiveBefore ==
  ASSUME WorkerInv, [WNext]_vars, NEW x \in Workers, worker'[x] = worker[x], Live(x)'
  PROVE  Live(x) /\ RunOf(x)' = RunOf(x) /\ FabricOfW(x)' = FabricOfW(x)
<1>1. Engaged(x) /\ RunOf(x)' = RunOf(x)
  BY DEF Live, Engaged, RunOf
<1>2. RunOf(x) \in Runs /\ Created(RunOf(x)) /\ runs[RunOf(x)].status # "apply_queued"
  BY <1>1 DEF WorkerInv, WorkerShape, StatusAt, Engaged
<1> QED
  BY <1>1, <1>2, RowStays DEF Live, FabricOfW

\* It keeps what it knows when nobody touched its fabric and its files.
LEMMA KeptAside ==
  ASSUME WorkerInv, [WNext]_vars, NEW x \in Workers, worker'[x] = worker[x], Live(x)',
         KeptBy(x),
         flash'[RunOf(x)] = flash[RunOf(x)], before'[RunOf(x)] = before[RunOf(x)],
         ise'[FabricOfW(x)] = ise[FabricOfW(x)],
         \A d \in DevicesOf(FabricOfW(x)) : config'[d] = config[d]
  PROVE  KeptBy(x)'
<1>1. RunOf(x)' = RunOf(x) /\ FabricOfW(x)' = FabricOfW(x)
  BY LiveBefore
<1> DEFINE f == FabricOfW(x)
<1>2. /\ flash[RunOf(x)]' = flash[RunOf(x)] /\ before[RunOf(x)]' = before[RunOf(x)]
      /\ ise[FabricOfW(x)]' = ise[FabricOfW(x)] /\ worker[x]' = worker[x]
  BY <1>1
<1>3. Accounted(worker[x], f, before[RunOf(x)], config, ise[f])
      => Accounted(worker[x], f, before[RunOf(x)], config', ise[f])
  BY DEF Accounted
<1> QED
  BY <1>1, <1>2, <1>3 DEF KeptBy, Kept

-----------------------------------------------------------------------------
(* Runs and artifacts. *)

LEMMA MoveFrom ==
  ASSUME WorkerInv, NEW r \in Runs, NEW s \in RunStatus, TransitionRun(r, s)
  PROVE  /\ s = "rollback_running" => runs[r].status = "apply_running"
         /\ s = "apply_running" => runs[r].status = "apply_queued"
         /\ \A q \in Runs :
              /\ runs'[q].status = IF q = r THEN s ELSE runs[q].status
              /\ runs'[q].artifact = runs[q].artifact
<1>1. runs[r].status \in RunStatus /\ s \in RunMoves[runs[r].status]
  BY DEF TransitionRun, Created, WorkerInv, LockInv, TypeOK, RunType
<1>2. /\ runs \in [Runs -> RunType]
      /\ runs' = [runs EXCEPT ![r].status = s]
  BY DEF TransitionRun, WorkerInv, LockInv, TypeOK
<1>3. ASSUME NEW q \in Runs
      PROVE  /\ runs'[q].status = IF q = r THEN s ELSE runs[q].status
             /\ runs'[q].artifact = runs[q].artifact
  <2>1. CASE q # r
    BY <1>2, <2>1
  <2>2. CASE q = r
    <3>1. runs'[r] = [runs[r] EXCEPT !.status = s]
      BY <1>2
    <3>2. runs[r] \in RunType
      BY <1>2
    <3>3. /\ runs'[r].status = s
          /\ runs'[r].artifact = runs[r].artifact
      BY <3>1, <3>2 DEF RunType
    <3> QED
      BY <2>2, <3>3
  <2> QED
    BY <2>1, <2>2
<1>4. /\ s = "rollback_running" => runs[r].status = "apply_running"
      /\ s = "apply_running" => runs[r].status = "apply_queued"
  BY <1>1 DEF RunMoves, RunMovesTable, RunStatus, ApplyActive, DryRunActive, Terminal
<1> QED
  BY <1>3, <1>4

LEMMA MoveKeepsBlocked ==
  ASSUME WorkerInv, NeverBlocked, NEW r \in Runs, NEW s \in RunStatus,
         TransitionRun(r, s), s # "apply_running"
  PROVE  NeverBlocked'
  BY MoveFrom DEF NeverBlocked, Unsettled

LEMMA ProcessBlocked ==
  ASSUME WorkerInv, NeverBlocked, NEW w \in Workers, WorkerStep(w)
  PROVE  NeverBlocked'
<1> DEFINE r == RunOf(w)
<1>1. worker[w].pc # "idle" => r \in Runs
  BY LocalFacts
<1>2. CASE UNCHANGED runs
  BY <1>2 DEF NeverBlocked
<1>3. ASSUME NEW s \in {"apply_failed", "rollback_running", "rolled_back",
                         "rollback_failed"},
             TransitionRun(r, s), worker[w].pc # "idle"
      PROVE  NeverBlocked'
  BY <1>1, <1>3, MoveKeepsBlocked, WorkerStatuses
<1>4. CASE Begin(w)
  <2>1. CASE TransitionRun(r, "apply_running")
    <3>1. r \in Runs /\ runs[r].artifact \notin Blocked
      BY <1>1, <1>4 DEF Begin, ArtifactOf
    <3> QED
      BY <2>1, <3>1, MoveFrom, WorkerStatuses DEF NeverBlocked
  <2> QED
    BY <1>2, <1>4, <2>1 DEF Begin, Refused, storeVars
<1>5. CASE RefuseBlocked(w) \/ Precheck(w) \/ Handle(w) \/ Finish(w)
  BY <1>2, <1>3, <1>5
  DEF RefuseBlocked, Precheck, Handle, HandleFailure, Finish, Outcome, Refused,
      storeVars
<1>6. CASE Complete(w)
  <2>1. CASE CompleteApply(r, ArtifactOf(w))
    BY <1>1, <1>6, <2>1
    DEF Complete, CompleteApply, NeverBlocked, Unsettled, WorkerInv, LockInv,
        TypeOK, RunType
  <2> QED
    BY <1>2, <1>6, <2>1 DEF Complete, storeVars
<1>7. CASE \/ PreflightFails(w) \/ Checkpoint(w) \/ ApplyBlock(w) \/ ApplyIse(w)
           \/ CheckGate(w) \/ CommitReservation(w) \/ RollBackDevice(w)
           \/ RollBackIse(w) \/ Settle(w)
  BY <1>2, <1>7
  DEF PreflightFails, Checkpoint, ApplyBlock, ApplyIse, CheckGate,
      CommitReservation, RollBackDevice, RollBackIse, Settle,
      TransitionReservation, ReservationRefused, storeVars
<1> QED
  BY <1>4, <1>5, <1>6, <1>7 DEF WorkerStep

LEMMA NextBlocked ==
  ASSUME WorkerInv, NeverBlocked, [WNext]_vars
  PROVE  NeverBlocked'
<1>1. CASE UNCHANGED runs
  BY <1>1 DEF NeverBlocked
<1>2. CASE ClientStep
  <2>1. ASSUME NEW r \in Runs, NEW p \in Plans,
               NEW m \in {"dry_run", "apply"}, NEW k \in Keys,
               NEW s \in 0..Horizon, NEW e \in 0..Horizon,
               CreateRun(r, p, m, k, s, e)
        PROVE  NeverBlocked'
    BY <2>1 DEF CreateRun, NeverBlocked, Unsettled, WorkerInv, LockInv, TypeOK
  <2>2. CASE SimulateNext
    <3>1. PICK r \in Runs, s \in Simulated : TransitionRun(r, s)
      BY <2>2 DEF SimulateNext
    <3> QED
      BY <3>1, SimulatorMoves
      DEF NeverBlocked, Unsettled, Simulated, WorkerInv, LockInv
  <2> QED
    BY <1>1, <1>2, <2>1, <2>2
    DEF ClientStep, DesignNext, SaveIntent, ReserveDesign, SavePlan,
        GovernNext, RecordApproval, RecordAdoptedOwnedState, Tick
<1>3. CASE OperatorStep
  <2>1. ASSUME NEW r \in Runs, OperatorRecover(r)
        PROVE  NeverBlocked'
    BY <2>1, MoveKeepsBlocked, WorkerStatuses DEF OperatorRecover
  <2> QED
    BY <1>1, <1>3, <2>1
    DEF OperatorStep, OperatorRestore, OperatorRelease, TransitionReservation,
        storeVars
<1> QED
  BY <1>1, <1>2, <1>3, ProcessBlocked DEF WNext, Start, Crash, vars, storeVars

-----------------------------------------------------------------------------
(* What a step of a process does to the world, and to its own local state. *)

\* The local state of the others does not change.
LEMMA OthersStay ==
  ASSUME WorkerInv, NEW w \in Workers, WorkerStep(w), NEW x \in Workers \ {w}
  PROVE  worker'[x] = worker[x]
  BY DEF WorkerInv, WorkerShape, WorkerStep, RefuseBlocked, PreflightFails, Begin,
         Precheck, Checkpoint, ApplyBlock, ApplyIse, CheckGate, Complete,
         CommitReservation, Handle, HandleFailure, RollBackDevice, RollBackIse,
         Finish, Settle, Exit, Goto, Raise

\* A process touches its own fabric, its own files and its own history.
LEMMA ProcessWorld ==
  ASSUME UnwindInv, NEW w \in Workers, WorkerStep(w)
  PROVE  /\ \A q \in Runs \ {RunOf(w)} :
              flash'[q] = flash[q] /\ before'[q] = before[q]
         /\ \A f \in Fabrics \ {FabricOfW(w)} : ise'[f] = ise[f]
         /\ \A d \in Devices \ DevicesOf(FabricOfW(w)) : config'[d] = config[d]
         /\ \/ Live(w)
            \/ UNCHANGED worldVars
            \/ UNCHANGED <<config, ise, flash>> /\ Alone(w, RunOf(w))
<1> USE DEF UnwindInv, WorldShape
<1>1. CASE UNCHANGED worldVars
  BY <1>1 DEF worldVars
<1>2. CASE Begin(w)
  <2>1. CASE TransitionRun(RunOf(w), "apply_running")
    <3>1. RunOf(w) \in Runs /\ runs[RunOf(w)].status = "apply_queued"
      BY <1>2, <2>1, LocalFacts, MoveFrom, WorkerStatuses DEF Begin
    <3> QED
      BY <1>2, <3>1, AloneFacts DEF Begin
  <2> QED
    BY <1>1, <1>2, <2>1 DEF Begin, worldVars
<1>3. CASE Checkpoint(w)
  <2>1. Live(w)
    BY <1>3 DEF Checkpoint, Live, Engaged, WorkerInv, StatusAt, Unsettled
  <2> QED
    BY <1>3, <2>1 DEF Checkpoint
<1>4. CASE ApplyBlock(w)
  <2>1. Live(w)
    BY <1>4 DEF ApplyBlock, AtStep, Live, Engaged, WorkerInv, StatusAt, Unsettled
  <2> QED
    BY <1>4, <2>1 DEF ApplyBlock
<1>5. CASE ApplyIse(w)
  <2>1. Live(w)
    BY <1>5 DEF ApplyIse, AtStep, Live, Engaged, WorkerInv, StatusAt, Unsettled
  <2> QED
    BY <1>5, <2>1 DEF ApplyIse
<1>6. CASE RollBackDevice(w) \/ RollBackIse(w)
  <2>1. Live(w)
    BY <1>6
    DEF RollBackDevice, RollBackIse, Live, Engaged, WorkerInv, StatusAt, Unsettled
  <2>2. CASE RollBackIse(w)
    BY <2>1, <2>2 DEF RollBackIse
  <2>3. CASE RollBackDevice(w)
    <3>1. Last(worker[w].changed) \in DevicesOf(FabricOfW(w))
      <4>1. worker[w].changed \in Seq(DevicesOf(FabricOfW(w)))
        BY <2>1 DEF KeptBy, Kept, Course
      <4> QED
        BY <2>3, <4>1 DEF RollBackDevice, Last
    <3> QED
      BY <2>1, <2>3, <3>1 DEF RollBackDevice
  <2> QED
    BY <1>6, <2>2, <2>3
<1> QED
  BY <1>1, <1>2, <1>3, <1>4, <1>5, <1>6
  DEF WorkerStep, RefuseBlocked, PreflightFails, Precheck, CheckGate, Complete,
      CommitReservation, Handle, Finish, Settle

\* Nobody touched the fabric and the files of x.
Untouched(x) ==
  /\ worker'[x] = worker[x] /\ Live(x)
  /\ flash'[RunOf(x)] = flash[RunOf(x)] /\ before'[RunOf(x)] = before[RunOf(x)]
  /\ ise'[FabricOfW(x)] = ise[FabricOfW(x)]
  /\ \A d \in DevicesOf(FabricOfW(x)) : config'[d] = config[d]

LEMMA OthersAside ==
  ASSUME UnwindInv, NEW w \in Workers, WorkerStep(w),
         NEW x \in Workers \ {w}, Live(x)'
  PROVE  Untouched(x)
<1>1. [WNext]_vars /\ WorkerInv
  BY DEF WNext, UnwindInv
<1>2. worker'[x] = worker[x]
  BY OthersStay DEF UnwindInv
<1>3. Live(x)
  BY <1>1, <1>2, LiveBefore
<1>4. RunOf(x) \in Runs /\ FabricOfW(x) \in Fabrics
  BY <1>1, <1>3, LiveFacts
<1>5. DevicesOf(FabricOfW(x)) \subseteq Devices
  BY <1>4 DEF Devices, DevicesOf
<1>6. CASE Live(w)
  BY <1>1, <1>2, <1>3, <1>4, <1>5, <1>6, Apart, ProcessWorld DEF Untouched
<1>7. CASE UNCHANGED worldVars
  BY <1>2, <1>3, <1>7 DEF Untouched, worldVars
<1>8. CASE UNCHANGED <<config, ise, flash>> /\ Alone(w, RunOf(w))
  <2>1. RunOf(x) # RunOf(w)
    BY <1>3, <1>8 DEF Alone, Live
  <2> QED
    BY <1>2, <1>3, <1>4, <1>8, <2>1, ProcessWorld DEF Untouched
<1> QED
  BY <1>6, <1>7, <1>8, ProcessWorld

-----------------------------------------------------------------------------
(* The fields of a local state after a step. *)

\* Local state k is l, further on and with other data.
Fields(k, l, pc, pos, ckpt, changed, journal, failed) ==
  /\ k.run = l.run /\ k.pc = pc /\ k.pos = pos /\ k.ckpt = ckpt
  /\ k.changed = changed /\ k.journal = journal /\ k.failed = failed

LEMMA SetOne ==
  ASSUME NEW l, IsLocal(l), NEW m
  PROVE  /\ IsLocal([l EXCEPT !.pc = m])
         /\ Fields([l EXCEPT !.pc = m], l, m, l.pos, l.ckpt, l.changed, l.journal, l.failed)
         /\ IsLocal([l EXCEPT !.pos = m])
         /\ Fields([l EXCEPT !.pos = m], l, l.pc, m, l.ckpt, l.changed, l.journal, l.failed)
         /\ IsLocal([l EXCEPT !.ckpt = m])
         /\ Fields([l EXCEPT !.ckpt = m], l, l.pc, l.pos, m, l.changed, l.journal, l.failed)
         /\ IsLocal([l EXCEPT !.changed = m])
         /\ Fields([l EXCEPT !.changed = m], l, l.pc, l.pos, l.ckpt, m, l.journal, l.failed)
         /\ IsLocal([l EXCEPT !.journal = m])
         /\ Fields([l EXCEPT !.journal = m], l, l.pc, l.pos, l.ckpt, l.changed, m, l.failed)
         /\ IsLocal([l EXCEPT !.failed = m])
         /\ Fields([l EXCEPT !.failed = m], l, l.pc, l.pos, l.ckpt, l.changed, l.journal, m)
  BY DEF IsLocal, Fields

LEMMA GotoFields ==
  ASSUME WorkerInv, NEW w \in Workers, NEW pc, Goto(w, pc)
  PROVE  LET l == worker[w] IN
         Fields(worker'[w], l, pc, l.pos, l.ckpt, l.changed, l.journal, l.failed)
<1> DEFINE l == worker[w]
<1>1. IsLocal(l) /\ worker'[w] = [l EXCEPT !.pc = pc]
  BY LocalFacts DEF Goto, WorkerInv, WorkerShape
<1> HIDE DEF l
<1>2. Fields(worker'[w], l, pc, l.pos, l.ckpt, l.changed, l.journal, l.failed)
  BY <1>1, SetOne DEF Fields
<1> QED
  BY <1>2 DEF l

LEMMA SetThree ==
  ASSUME NEW l, IsLocal(l), NEW ckpt, NEW pos, NEW pc
  PROVE  LET j == [l EXCEPT !.ckpt = ckpt]
             k == [j EXCEPT !.pos = pos]
             z == [k EXCEPT !.pc = pc]
         IN  Fields(z, l, pc, pos, ckpt, l.changed, l.journal, l.failed)
<1> DEFINE j == [l EXCEPT !.ckpt = ckpt]
           k == [j EXCEPT !.pos = pos]
           z == [k EXCEPT !.pc = pc]
<1>1. IsLocal(j) /\ Fields(j, l, l.pc, l.pos, ckpt, l.changed, l.journal, l.failed)
  BY SetOne
<1> HIDE DEF j
<1>2. IsLocal(k) /\ Fields(k, j, j.pc, pos, j.ckpt, j.changed, j.journal, j.failed)
  BY <1>1, SetOne
<1> HIDE DEF k
<1>3. Fields(z, k, pc, k.pos, k.ckpt, k.changed, k.journal, k.failed)
  BY <1>2, SetOne
<1> HIDE DEF z
<1>4. Fields(z, l, pc, pos, ckpt, l.changed, l.journal, l.failed)
  BY <1>1, <1>2, <1>3 DEF Fields
<1> QED
  BY <1>4 DEF z, k, j

LEMMA CheckpointFields ==
  ASSUME WorkerInv, NEW w \in Workers, NEW d, NEW last,
         worker' = [worker EXCEPT
                      ![w].ckpt = Append(@, d),
                      ![w].pos  = IF last THEN 1 ELSE @ + 1,
                      ![w].pc   = IF last THEN "apply" ELSE @]
  PROVE  LET l == worker[w] IN
         Fields(worker'[w], l, IF last THEN "apply" ELSE l.pc,
                IF last THEN 1 ELSE l.pos + 1, Append(l.ckpt, d), l.changed,
                l.journal, l.failed)
<1> DEFINE l == worker[w]
           j == [l EXCEPT !.ckpt = Append(l.ckpt, d)]
           k == [j EXCEPT !.pos = IF last THEN 1 ELSE l.pos + 1]
           z == [k EXCEPT !.pc = IF last THEN "apply" ELSE l.pc]
<1>1. IsLocal(l) /\ worker = [x \in Workers |-> worker[x]]
  BY LocalFacts DEF WorkerInv, WorkerShape
<1>2. j.pos = l.pos /\ j.pc = l.pc /\ k.pc = l.pc
  BY <1>1 DEF IsLocal
<1>3. worker'[w] = z
  BY <1>1, <1>2
<1>4. Fields(z, l, IF last THEN "apply" ELSE l.pc,
             IF last THEN 1 ELSE l.pos + 1, Append(l.ckpt, d), l.changed,
             l.journal, l.failed)
  BY <1>1, SetThree
<1> HIDE DEF z
<1> QED
  BY <1>3, <1>4

LEMMA SetTwo ==
  ASSUME NEW l, IsLocal(l), NEW m, NEW n
  PROVE  /\ Fields([l EXCEPT !.changed = m, !.pos = n], l,
                   l.pc, n, l.ckpt, m, l.journal, l.failed)
         /\ Fields([l EXCEPT !.changed = m, !.pc = n], l,
                   n, l.pos, l.ckpt, m, l.journal, l.failed)
         /\ Fields([l EXCEPT !.changed = m, !.failed = n], l,
                   l.pc, l.pos, l.ckpt, m, l.journal, n)
         /\ Fields([l EXCEPT !.journal = m, !.pos = n], l,
                   l.pc, n, l.ckpt, l.changed, m, l.failed)
         /\ Fields([l EXCEPT !.journal = m, !.pc = n], l,
                   n, l.pos, l.ckpt, l.changed, m, l.failed)
         /\ Fields([l EXCEPT !.journal = m, !.failed = n], l,
                   l.pc, l.pos, l.ckpt, l.changed, m, n)
<1> DEFINE a == [l EXCEPT !.changed = m]
           b == [l EXCEPT !.journal = m]
<1>1. /\ IsLocal(a) /\ Fields(a, l, l.pc, l.pos, l.ckpt, m, l.journal, l.failed)
      /\ IsLocal(b) /\ Fields(b, l, l.pc, l.pos, l.ckpt, l.changed, m, l.failed)
  BY SetOne
<1>2. ASSUME NEW k, IsLocal(k)
      PROVE  /\ Fields([k EXCEPT !.pos = n], k, k.pc, n, k.ckpt, k.changed, k.journal, k.failed)
             /\ Fields([k EXCEPT !.pc = n], k, n, k.pos, k.ckpt, k.changed, k.journal, k.failed)
             /\ Fields([k EXCEPT !.failed = n], k, k.pc, k.pos, k.ckpt, k.changed, k.journal, n)
  BY <1>2, SetOne
<1> HIDE DEF a, b
<1>3. /\ Fields([a EXCEPT !.pos = n], l, l.pc, n, l.ckpt, m, l.journal, l.failed)
      /\ Fields([a EXCEPT !.pc = n], l, n, l.pos, l.ckpt, m, l.journal, l.failed)
      /\ Fields([a EXCEPT !.failed = n], l, l.pc, l.pos, l.ckpt, m, l.journal, n)
  BY <1>1, <1>2 DEF Fields
<1>4. /\ Fields([b EXCEPT !.pos = n], l, l.pc, n, l.ckpt, l.changed, m, l.failed)
      /\ Fields([b EXCEPT !.pc = n], l, n, l.pos, l.ckpt, l.changed, m, l.failed)
      /\ Fields([b EXCEPT !.failed = n], l, l.pc, l.pos, l.ckpt, l.changed, m, n)
  BY <1>1, <1>2 DEF Fields
<1> QED
  BY <1>3, <1>4 DEF a, b

\* The ways the steps that touch devices or ISE change a local state.
LEMMA StepFields ==
  ASSUME WorkerInv, NEW w \in Workers, NEW m, NEW n
  PROVE  LET l == worker[w] IN
         /\ worker' = [worker EXCEPT ![w].pos = n] =>
              Fields(worker'[w], l, l.pc, n, l.ckpt, l.changed, l.journal, l.failed)
         /\ worker' = [worker EXCEPT ![w].changed = m] =>
              Fields(worker'[w], l, l.pc, l.pos, l.ckpt, m, l.journal, l.failed)
         /\ worker' = [worker EXCEPT ![w].journal = m] =>
              Fields(worker'[w], l, l.pc, l.pos, l.ckpt, l.changed, m, l.failed)
         /\ worker' = [worker EXCEPT ![w].changed = m, ![w].pos = n] =>
              Fields(worker'[w], l, l.pc, n, l.ckpt, m, l.journal, l.failed)
         /\ worker' = [worker EXCEPT ![w].changed = m, ![w].pc = n] =>
              Fields(worker'[w], l, n, l.pos, l.ckpt, m, l.journal, l.failed)
         /\ worker' = [worker EXCEPT ![w].changed = m, ![w].failed = n] =>
              Fields(worker'[w], l, l.pc, l.pos, l.ckpt, m, l.journal, n)
         /\ worker' = [worker EXCEPT ![w].journal = m, ![w].pos = n] =>
              Fields(worker'[w], l, l.pc, n, l.ckpt, l.changed, m, l.failed)
         /\ worker' = [worker EXCEPT ![w].journal = m, ![w].pc = n] =>
              Fields(worker'[w], l, n, l.pos, l.ckpt, l.changed, m, l.failed)
         /\ worker' = [worker EXCEPT ![w].journal = m, ![w].failed = n] =>
              Fields(worker'[w], l, l.pc, l.pos, l.ckpt, l.changed, m, n)
<1> DEFINE l == worker[w]
<1>1. IsLocal(l) /\ worker = [x \in Workers |-> worker[x]]
  BY LocalFacts DEF WorkerInv, WorkerShape
<1>2. /\ worker' = [worker EXCEPT ![w].pos = n] => worker'[w] = [l EXCEPT !.pos = n]
      /\ worker' = [worker EXCEPT ![w].changed = m] => worker'[w] = [l EXCEPT !.changed = m]
      /\ worker' = [worker EXCEPT ![w].journal = m] => worker'[w] = [l EXCEPT !.journal = m]
  BY <1>1
<1>3. /\ worker' = [worker EXCEPT ![w].changed = m, ![w].pos = n]
           => worker'[w] = [l EXCEPT !.changed = m, !.pos = n]
      /\ worker' = [worker EXCEPT ![w].changed = m, ![w].pc = n]
           => worker'[w] = [l EXCEPT !.changed = m, !.pc = n]
      /\ worker' = [worker EXCEPT ![w].changed = m, ![w].failed = n]
           => worker'[w] = [l EXCEPT !.changed = m, !.failed = n]
  BY <1>1
<1>4. /\ worker' = [worker EXCEPT ![w].journal = m, ![w].pos = n]
           => worker'[w] = [l EXCEPT !.journal = m, !.pos = n]
      /\ worker' = [worker EXCEPT ![w].journal = m, ![w].pc = n]
           => worker'[w] = [l EXCEPT !.journal = m, !.pc = n]
      /\ worker' = [worker EXCEPT ![w].journal = m, ![w].failed = n]
           => worker'[w] = [l EXCEPT !.journal = m, !.failed = n]
  BY <1>1
<1> HIDE DEF l
<1>5. /\ Fields([l EXCEPT !.pos = n], l, l.pc, n, l.ckpt, l.changed, l.journal, l.failed)
      /\ Fields([l EXCEPT !.changed = m], l, l.pc, l.pos, l.ckpt, m, l.journal, l.failed)
      /\ Fields([l EXCEPT !.journal = m], l, l.pc, l.pos, l.ckpt, l.changed, m, l.failed)
  BY <1>1, SetOne
<1>6. /\ Fields([l EXCEPT !.changed = m, !.pos = n], l,
                l.pc, n, l.ckpt, m, l.journal, l.failed)
      /\ Fields([l EXCEPT !.changed = m, !.pc = n], l,
                n, l.pos, l.ckpt, m, l.journal, l.failed)
      /\ Fields([l EXCEPT !.changed = m, !.failed = n], l,
                l.pc, l.pos, l.ckpt, m, l.journal, n)
      /\ Fields([l EXCEPT !.journal = m, !.pos = n], l,
                l.pc, n, l.ckpt, l.changed, m, l.failed)
      /\ Fields([l EXCEPT !.journal = m, !.pc = n], l,
                n, l.pos, l.ckpt, l.changed, m, l.failed)
      /\ Fields([l EXCEPT !.journal = m, !.failed = n], l,
                l.pc, l.pos, l.ckpt, l.changed, m, n)
  BY <1>1, SetTwo
<1>7. /\ worker' = [worker EXCEPT ![w].pos = n] =>
           Fields(worker'[w], l, l.pc, n, l.ckpt, l.changed, l.journal, l.failed)
      /\ worker' = [worker EXCEPT ![w].changed = m] =>
           Fields(worker'[w], l, l.pc, l.pos, l.ckpt, m, l.journal, l.failed)
      /\ worker' = [worker EXCEPT ![w].journal = m] =>
           Fields(worker'[w], l, l.pc, l.pos, l.ckpt, l.changed, m, l.failed)
  BY <1>2, <1>5
<1>8. /\ worker' = [worker EXCEPT ![w].changed = m, ![w].pos = n] =>
           Fields(worker'[w], l, l.pc, n, l.ckpt, m, l.journal, l.failed)
      /\ worker' = [worker EXCEPT ![w].changed = m, ![w].pc = n] =>
           Fields(worker'[w], l, n, l.pos, l.ckpt, m, l.journal, l.failed)
      /\ worker' = [worker EXCEPT ![w].changed = m, ![w].failed = n] =>
           Fields(worker'[w], l, l.pc, l.pos, l.ckpt, m, l.journal, n)
  BY <1>3, <1>6
<1>9. /\ worker' = [worker EXCEPT ![w].journal = m, ![w].pos = n] =>
           Fields(worker'[w], l, l.pc, n, l.ckpt, l.changed, m, l.failed)
      /\ worker' = [worker EXCEPT ![w].journal = m, ![w].pc = n] =>
           Fields(worker'[w], l, n, l.pos, l.ckpt, l.changed, m, l.failed)
      /\ worker' = [worker EXCEPT ![w].journal = m, ![w].failed = n] =>
           Fields(worker'[w], l, l.pc, l.pos, l.ckpt, l.changed, m, n)
  BY <1>4, <1>6
<1> QED
  BY <1>7, <1>8, <1>9 DEF l

-----------------------------------------------------------------------------
(* What a process knows stays true through its own steps.  These lemmas are  *)
(* about local states l, k and the values of one fabric alone.               *)

LEMMA AppendElems ==
  ASSUME NEW S, NEW s \in Seq(S), NEW d \in S
  PROVE  Append(s, d) \in Seq(S) /\ Elems(Append(s, d)) = Elems(s) \cup {d}
<1>1. /\ Append(s, d) \in Seq(S) /\ Len(Append(s, d)) = Len(s) + 1
      /\ \A i \in 1..Len(s) : Append(s, d)[i] = s[i]
      /\ Append(s, d)[Len(s) + 1] = d /\ Len(s) \in Nat
  OBVIOUS
<1>2. 1..(Len(s) + 1) = 1..Len(s) \cup {Len(s) + 1}
  BY <1>1
<1> HIDE DEF Elems
<1> DEFINE t == Append(s, d)
<1>3. t \in Seq(S) /\ Len(t) = Len(s) + 1 /\ (\A i \in 1..Len(s) : t[i] = s[i])
      /\ t[Len(s) + 1] = d
  BY <1>1
<1> HIDE DEF t
<1>4. Elems(t) = Elems(s) \cup {d}
  BY <1>2, <1>3 DEF Elems
<1> QED
  BY <1>3, <1>4 DEF t

LEMMA FrontElems ==
  ASSUME NEW S, NEW s \in Seq(S), s # <<>>
  PROVE  /\ Front(s) \in Seq(S) /\ Last(s) \in S
         /\ Elems(s) = Elems(Front(s)) \cup {Last(s)}
<1>1. /\ Len(s) \in Nat \ {0} /\ Len(Front(s)) = Len(s) - 1
      /\ Front(s) \in Seq(S)
      /\ \A i \in 1..(Len(s) - 1) : Front(s)[i] = s[i]
      /\ Last(s) = s[Len(s)] /\ Last(s) \in S
  <2>1. Len(s) \in Nat \ {0}
    OBVIOUS
  <2>2. Last(s) = s[Len(s)] /\ Last(s) \in S
    BY <2>1 DEF Last
  <2>3. /\ Len(Front(s)) = Len(s) - 1 /\ Front(s) \in Seq(S)
        /\ \A i \in 1..(Len(s) - 1) : Front(s)[i] = s[i]
    <3>1. \A i \in 1..(Len(s) - 1) : s[i] \in S
      BY <2>1
    <3>2. 1 \in Int /\ Len(s) - 1 \in Int
      BY <2>1
    <3> DEFINE n == Len(s) - 1
               t == SubSeq(s, 1, n)
    <3>3. t \in Seq(S) /\ Len(t) = IF 1 <= n THEN n - 1 + 1 ELSE 0
      BY <3>1, <3>2, SubSeqProperties
    <3>4. \A i \in 1..(n - 1 + 1) : t[i] = s[1 + i - 1]
      BY <3>1, <3>2, SubSeqProperties
    <3>5. Front(s) = t
      BY DEF Front
    <3> HIDE DEF t
    <3> QED
      BY <2>1, <3>3, <3>4, <3>5
  <2> QED
    BY <2>1, <2>2, <2>3
<1>2. 1..Len(s) = 1..(Len(s) - 1) \cup {Len(s)}
  BY <1>1
<1> DEFINE t == Front(s)
<1>3. Len(t) = Len(s) - 1 /\ \A i \in 1..(Len(s) - 1) : t[i] = s[i]
  BY <1>1
<1> HIDE DEF t
<1>4. Elems(s) = Elems(t) \cup {Last(s)}
  BY <1>1, <1>2, <1>3 DEF Elems
<1> QED
  BY <1>1, <1>4 DEF t

LEMMA ElemsEmpty == \A s : s = <<>> => Elems(s) = {}
  BY DEF Elems

LEMMA OwnKept ==
  ASSUME WorkerInv, [WNext]_vars, NEW w \in Workers, Engaged(w),
         worker'[w].run = worker[w].run,
         Kept(worker'[w], FabricOfW(w), flash'[RunOf(w)], before'[RunOf(w)],
              config', ise'[FabricOfW(w)])
  PROVE  KeptBy(w)'
<1>1. RunOf(w) \in Runs /\ Created(RunOf(w))
  BY DEF WorkerInv, WorkerShape, Engaged
<1>2. RunOf(w)' = RunOf(w)
  BY DEF RunOf
<1>3. FabricOfW(w)' = FabricOfW(w)
  BY <1>1, <1>2, RowStays DEF FabricOfW
<1> QED
  BY <1>2, <1>3 DEF KeptBy

LEMMA ConnectedKept ==
  ASSUME NEW l, NEW k, NEW f \in Fabrics, NEW files, NEW pre, NEW cfg, NEW objects,
         Kept(l, f, files, pre, cfg, objects), l.pc = "running",
         Fields(k, l, "checkpoint", l.pos, l.ckpt, l.changed, l.journal, l.failed)
  PROVE  Kept(k, f, files, pre, cfg, objects)
<1>1. Len(DeviceOrder[f]) \in Nat \ {0}
  BY DeviceAssumption
<1> QED
  BY <1>1 DEF Kept, Course, Restorable, Accounted, Recorded, Fields

LEMMA RaisedKept ==
  ASSUME NEW l, NEW k, NEW f, NEW files, NEW pre, NEW cfg, NEW objects,
         Kept(l, f, files, pre, cfg, objects),
         l.pc \in {"running", "checkpoint", "apply"}, NEW pos,
         \/ Fields(k, l, "failed", pos, l.ckpt, l.changed, l.journal, l.failed)
         \/ l.pc = "apply"
            /\ Fields(k, l, "apply", pos, l.ckpt, l.changed, l.journal, l.failed)
  PROVE  Kept(k, f, files, pre, cfg, objects)
  BY DEF Kept, Course, Restorable, Accounted, Recorded, Fields

LEMMA CheckpointKept ==
  ASSUME NEW l, NEW k, NEW f \in Fabrics, NEW files, NEW pre, NEW cfg, NEW objects,
         Kept(l, f, files, pre, cfg, objects), l.pc = "checkpoint",
         NEW d, d = DeviceOrder[f][l.pos],
         NEW last, last = (l.pos = Len(DeviceOrder[f])),
         Fields(k, l, IF last THEN "apply" ELSE l.pc,
                IF last THEN 1 ELSE l.pos + 1, Append(l.ckpt, d), l.changed,
                l.journal, l.failed)
  PROVE  Kept(k, f, WithFile(files, d, cfg[d]), pre, cfg, objects)
<1>1. /\ Len(DeviceOrder[f]) \in Nat \ {0} /\ l.pos \in 1..Len(DeviceOrder[f])
      /\ \A i \in 1..Len(DeviceOrder[f]) : DeviceOrder[f][i] \in DevicesOf(f)
  BY DeviceAssumption DEF Kept, Course
<1>2. d \in DevicesOf(f) /\ l.changed = <<>> /\ l.journal = {} /\ l.failed = FALSE
  BY <1>1 DEF Kept, Course
<1>3. cfg[d] = pre.config[d]
  BY <1>2, ElemsEmpty DEF Kept, Accounted
<1>4. k.ckpt \in Seq(DevicesOf(f)) /\ Elems(k.ckpt) = Elems(l.ckpt) \cup {d}
  <2>1. l.ckpt \in Seq(DevicesOf(f)) /\ k.ckpt = Append(l.ckpt, d)
    BY DEF Kept, Course, Fields
  <2> QED
    BY <1>2, <2>1, AppendElems
<1>5. \A i \in 1..l.pos : DeviceOrder[f][i] \in Elems(k.ckpt)
  <2>1. \A i \in 1..(l.pos - 1) : DeviceOrder[f][i] \in Elems(l.ckpt)
    BY DEF Kept, Course
  <2>2. \A i \in 1..l.pos : i = l.pos \/ i \in 1..(l.pos - 1)
    BY <1>1
  <2> QED BY <1>4, <2>1, <2>2
<1>6. /\ k.changed = <<>> /\ k.journal = {} /\ k.failed = FALSE
      /\ k.pc = IF last THEN "apply" ELSE "checkpoint"
      /\ k.pos = IF last THEN 1 ELSE l.pos + 1
  BY <1>2 DEF Fields
<1>7. Course(k, f)
  <2>1. Elems(k.changed) \subseteq Elems(k.ckpt) /\ k.changed \in Seq(DevicesOf(f))
    BY <1>6, ElemsEmpty
  <2>2. CASE last
    <3>1. DevicesOf(f) \subseteq Elems(k.ckpt)
      BY <1>5, <2>2 DEF DevicesOf
    <3> QED
      BY <1>4, <1>6, <2>1, <2>2, <3>1 DEF Course
  <2>3. CASE ~last
    <3>1. l.pos # Len(DeviceOrder[f]) /\ k.pos = l.pos + 1
      BY <1>6, <2>3
    <3>2. k.pos \in 1..Len(DeviceOrder[f]) /\ k.pos - 1 = l.pos
      BY <1>1, <3>1
    <3> QED
      BY <1>4, <1>5, <1>6, <2>1, <2>3, <3>2 DEF Course
  <2> QED
    BY <2>2, <2>3
<1>8. Restorable(k, WithFile(files, d, cfg[d]), pre)
  BY <1>3, <1>4 DEF Restorable, WithFile, Kept
<1>9. Accounted(k, f, pre, cfg, objects) /\ Recorded(f, pre)
  BY <1>2, <1>6 DEF Accounted, Kept
<1> QED
  BY <1>7, <1>8, <1>9 DEF Kept

\* The device is marked whether or not the block is accepted.
LEMMA MarkedElems ==
  ASSUME NEW w, NEW d, NEW S, worker[w].changed \in Seq(S), d \in S, NEW accepted
  PROVE  /\ Marked(w, d, accepted) \in Seq(S)
         /\ Elems(Marked(w, d, accepted)) = Elems(worker[w].changed) \cup {d}
<1> DEFINE s == worker[w].changed
<1>1. CASE Contains(s, d)
  BY <1>1 DEF Marked, Contains, Elems
<1>2. CASE ~Contains(s, d)
  BY <1>2, AppendElems DEF Marked
<1> QED
  BY <1>1, <1>2

LEMMA BlockKept ==
  ASSUME NEW l, NEW k, NEW f, NEW files, NEW pre, NEW cfg, NEW new, NEW objects,
         Kept(l, f, files, pre, cfg, objects), l.pc = "apply", NEW pos,
         NEW d \in DevicesOf(f), NEW marked \in Seq(DevicesOf(f)),
         Elems(marked) = Elems(l.changed) \cup {d},
         \/ Fields(k, l, "apply", pos, l.ckpt, marked, l.journal, l.failed)
         \/ Fields(k, l, "failed", pos, l.ckpt, marked, l.journal, l.failed),
         \A x \in DevicesOf(f) : x = d \/ new[x] = cfg[x]
  PROVE  Kept(k, f, files, pre, new, objects)
<1>1. Course(k, f)
  BY DEF Kept, Course, Fields
<1> QED
  BY <1>1 DEF Kept, Course, Restorable, Accounted, Recorded, Fields

LEMMA IseKept ==
  ASSUME NEW l, NEW k, NEW f, NEW files, NEW pre, NEW cfg, NEW objects, NEW new,
         Kept(l, f, files, pre, cfg, objects), l.pc = "apply", NEW pos, NEW sent,
         sent \cap objects = {}, new \in {objects, objects \cup sent},
         \/ Fields(k, l, "apply", pos, l.ckpt, l.changed, l.journal \cup sent, l.failed)
         \/ Fields(k, l, "failed", pos, l.ckpt, l.changed, l.journal \cup sent, l.failed)
  PROVE  Kept(k, f, files, pre, cfg, new)
<1>1. Course(k, f)
  BY DEF Kept, Course, Fields
<1>2. Restorable(k, files, pre) /\ Recorded(f, pre)
  BY DEF Kept, Restorable, Fields
<1>3. Accounted(k, f, pre, cfg, new)
  <2>1. l.failed = FALSE
    BY DEF Kept, Course
  <2>2. k.changed = l.changed /\ k.journal = l.journal \cup sent
    BY DEF Fields
  <2> QED
    BY <2>1, <2>2 DEF Kept, Accounted
<1> QED
  BY <1>1, <1>2, <1>3 DEF Kept

\* The handler takes every device that may have changed.
LEMMA HandledKept ==
  ASSUME NEW l, NEW k, NEW f, NEW files, NEW pre, NEW cfg, NEW objects,
         Kept(l, f, files, pre, cfg, objects), NEW todo,
         todo = IF l.changed # <<>> THEN l.changed ELSE l.ckpt,
         Fields(k, l, "rollback", l.pos, l.ckpt, todo, l.journal, l.failed)
  PROVE  Kept(k, f, files, pre, cfg, objects)
<1>1. /\ todo \in Seq(DevicesOf(f)) /\ Elems(l.changed) \subseteq Elems(todo)
      /\ Elems(todo) \subseteq Elems(l.ckpt)
  BY ElemsEmpty DEF Kept, Course
<1>2. Course(k, f)
  BY <1>1 DEF Kept, Course, Fields
<1> QED
  BY <1>1, <1>2 DEF Kept, Restorable, Accounted, Recorded, Fields

LEMMA DeviceKept ==
  ASSUME NEW l, NEW k, NEW f, NEW files, NEW pre, NEW cfg, NEW new, NEW objects,
         Kept(l, f, files, pre, cfg, objects), l.pc = "rollback",
         l.changed # <<>>, NEW failed,
         Fields(k, l, "rollback", l.pos, l.ckpt, Front(l.changed), l.journal, failed),
         \A x \in DevicesOf(f) : x = Last(l.changed) \/ new[x] = cfg[x],
         \/ failed = TRUE
         \/ /\ failed = l.failed
            /\ new[Last(l.changed)] = files[Last(l.changed)]
  PROVE  Kept(k, f, files, pre, new, objects)
<1> DEFINE todo == Front(l.changed)
           d == Last(l.changed)
<1>1. /\ todo \in Seq(DevicesOf(f)) /\ d \in DevicesOf(f)
      /\ Elems(l.changed) = Elems(todo) \cup {d}
  BY FrontElems DEF Kept, Course
<1>2. k.changed = todo /\ k.ckpt = l.ckpt /\ k.journal = l.journal /\ k.failed = failed
      /\ k.pc = "rollback"
  BY DEF Fields
<1> HIDE DEF todo, d
<1>3. Course(k, f)
  BY <1>1, <1>2 DEF Kept, Course
<1>4. Restorable(k, files, pre) /\ Recorded(f, pre)
  BY <1>2 DEF Kept, Restorable
<1>5. Accounted(k, f, pre, new, objects)
  <2>1. CASE failed = TRUE
    BY <1>2, <2>1 DEF Accounted
  <2>2. CASE failed = l.failed /\ new[d] = files[d]
    <3>1. d \in Elems(l.ckpt) /\ files[d] = pre.config[d]
      BY <1>1 DEF Kept, Course, Restorable
    <3> QED
      BY <1>1, <1>2, <2>2, <3>1 DEF Kept, Accounted, d
  <2> QED
    BY <2>1, <2>2 DEF d
<1> QED
  BY <1>3, <1>4, <1>5 DEF Kept

LEMMA ObjectsKept ==
  ASSUME NEW l, NEW k, NEW f, NEW files, NEW pre, NEW cfg, NEW objects, NEW new,
         Kept(l, f, files, pre, cfg, objects), l.pc = "rollback", NEW failed,
         Fields(k, l, "rollback", l.pos, l.ckpt, l.changed, {}, failed),
         failed = TRUE \/ (failed = l.failed /\ new = objects \ l.journal)
  PROVE  Kept(k, f, files, pre, cfg, new)
<1>1. Course(k, f)
  BY DEF Kept, Course, Fields
<1>2. Restorable(k, files, pre) /\ Recorded(f, pre)
  BY DEF Kept, Restorable, Fields
<1>3. k.changed = l.changed /\ k.journal = {} /\ k.failed = failed
  BY DEF Fields
<1>4. Accounted(k, f, pre, cfg, new)
  BY <1>3 DEF Kept, Accounted
<1> QED
  BY <1>1, <1>2, <1>4 DEF Kept

-----------------------------------------------------------------------------
(* A process that goes on with its run keeps what it knows. *)

LEMMA ExitNotLive ==
  ASSUME WorkerInv, NEW w \in Workers, Exit(w)
  PROVE  ~Live(w)'
  BY DEF Exit, WorkerInv, WorkerShape, Live, Engaged, Idle, At

\* Before it begins a process knows nothing, and the snapshot is of this state.
LEMMA BeginKeeps ==
  ASSUME UnwindInv, NEW w \in Workers, Begin(w), Live(w)'
  PROVE  KeptBy(w)'
<1> DEFINE r == RunOf(w)
           f == FabricOfW(w)
<1>1. /\ TransitionRun(r, "apply_running") /\ Goto(w, "running")
      /\ before' = [before EXCEPT ![r] = Snapshot(f)]
  BY ExitNotLive DEF Begin, UnwindInv
<1>2. /\ WorkerInv /\ [WNext]_vars /\ r \in Runs /\ Created(r) /\ f \in Fabrics
      /\ worker[w] = At("checked", r)
  <2>1. WorkerInv /\ [WNext]_vars /\ r \in Runs /\ Created(r)
    BY DEF UnwindInv, WNext, WorkerStep, WorkerInv, WorkerShape, Begin
  <2>2. runs[r].status = "apply_queued"
    BY <1>1, <2>1, MoveFrom, WorkerStatuses
  <2>3. f \in Fabrics
    BY <2>1, <2>2 DEF WorkerInv, LockInv, RunComplete, FabricOfW
  <2> QED
    BY <2>1, <2>3 DEF UnwindInv, Fresh, Begin
<1> DEFINE l == worker'[w]
<1>3. /\ l.run = r /\ l.pc = "running" /\ l.pos = 1 /\ l.ckpt = <<>>
      /\ l.changed = <<>> /\ l.journal = {} /\ l.failed = FALSE
  BY <1>1, <1>2, GotoFields DEF Fields, At
<1>4. /\ before'[r] = [config |-> [d \in DevicesOf(f) |-> config[d]], ise |-> ise[f]]
      /\ config' = config /\ ise' = ise
  BY <1>1, <1>2 DEF UnwindInv, WorldShape, Snapshot, Begin
<1> HIDE DEF l, r, f
<1>5. Course(l, f)
  <2>1. Elems(l.changed) = {} /\ l.failed \in BOOLEAN
    BY <1>3, ElemsEmpty
  <2> QED
    BY <1>3, <2>1 DEF Course
<1>6. Restorable(l, flash'[r], before'[r])
  BY <1>3, ElemsEmpty DEF Restorable
<1>7. Accounted(l, f, before'[r], config', ise'[f]) /\ Recorded(f, before'[r])
  BY <1>3, <1>4 DEF Accounted, Recorded
<1>8. Kept(l, f, flash'[r], before'[r], config', ise'[f])
  BY <1>5, <1>6, <1>7 DEF Kept
<1>9. RunOf(w)' = r /\ FabricOfW(w)' = f
  <2>1. RunOf(w)' = r
    BY <1>3 DEF RunOf, l, r
  <2> QED
    BY <1>2, <2>1, RowStays DEF FabricOfW, f, r
<1> QED
  BY <1>8, <1>9 DEF KeptBy, l

\* What a process that got past the start may assume.
LEMMA StepContext ==
  ASSUME UnwindInv, NEW w \in Workers, WorkerStep(w),
         worker[w].pc \in {"running", "checkpoint", "apply", "rollback"}
  PROVE  /\ WorkerInv /\ [WNext]_vars /\ Engaged(w) /\ Live(w) /\ KeptBy(w)
         /\ RunOf(w) \in Runs /\ FabricOfW(w) \in Fabrics
<1>1. WorkerInv /\ [WNext]_vars /\ Engaged(w)
  BY DEF UnwindInv, WNext, Engaged
<1>2. Live(w)
  BY <1>1 DEF Live, WorkerInv, StatusAt, Unsettled
<1> QED
  BY <1>1, <1>2, LiveFacts DEF UnwindInv

LEMMA PrecheckKeeps ==
  ASSUME UnwindInv, NEW w \in Workers, Precheck(w), Live(w)'
  PROVE  KeptBy(w)'
<1> DEFINE l == worker[w]
           k == worker'[w]
<1>1. WorkerStep(w) /\ l.pc = "running"
  BY DEF Precheck, WorkerStep
<1>2. /\ WorkerInv /\ [WNext]_vars /\ Engaged(w) /\ KeptBy(w)
      /\ FabricOfW(w) \in Fabrics
  BY <1>1, StepContext
<1>3. UNCHANGED worldVars /\ (Goto(w, "checkpoint") \/ Raise(w))
  BY <1>2, ExitNotLive DEF Precheck
<1>4. \/ Fields(k, l, "checkpoint", l.pos, l.ckpt, l.changed, l.journal, l.failed)
      \/ Fields(k, l, "failed", l.pos, l.ckpt, l.changed, l.journal, l.failed)
  BY <1>2, <1>3, GotoFields DEF Raise
<1>5. Kept(k, FabricOfW(w), flash[RunOf(w)], before[RunOf(w)], config, ise[FabricOfW(w)])
  BY <1>1, <1>2, <1>4, ConnectedKept, RaisedKept DEF KeptBy
<1>6. k.run = l.run
  BY <1>4 DEF Fields
<1> QED
  BY <1>2, <1>3, <1>5, <1>6, OwnKept DEF worldVars

LEMMA CheckpointKeeps ==
  ASSUME UnwindInv, NEW w \in Workers, Checkpoint(w)
  PROVE  KeptBy(w)'
<1> DEFINE l == worker[w]
           k == worker'[w]
           f == FabricOfW(w)
           r == RunOf(w)
           d == DeviceOrder[f][l.pos]
           last == (l.pos = Len(DeviceOrder[f]))
<1>1. WorkerStep(w) /\ l.pc = "checkpoint"
  BY DEF Checkpoint, WorkerStep
<1>2. /\ WorkerInv /\ [WNext]_vars /\ Engaged(w) /\ KeptBy(w)
      /\ f \in Fabrics /\ r \in Runs
  BY <1>1, StepContext
<1>3. UNCHANGED <<config, ise, before>>
  BY DEF Checkpoint
<1>4. CASE Raise(w) /\ UNCHANGED flash
  <2>1. Fields(k, l, "failed", l.pos, l.ckpt, l.changed, l.journal, l.failed)
    BY <1>2, <1>4, GotoFields DEF Raise
  <2>2. Kept(k, f, flash[r], before[r], config, ise[f])
    BY <1>1, <1>2, <2>1, RaisedKept DEF KeptBy
  <2>3. k.run = l.run
    BY <2>1 DEF Fields
  <2> QED
    BY <1>2, <1>3, <1>4, <2>2, <2>3, OwnKept
<1>5. CASE /\ flash' = [flash EXCEPT ![r] = WithFile(flash[r], d, config[d])]
           /\ worker' = [worker EXCEPT
                           ![w].ckpt = Append(@, d),
                           ![w].pos  = IF last THEN 1 ELSE @ + 1,
                           ![w].pc   = IF last THEN "apply" ELSE @]
  <2>1. flash'[r] = WithFile(flash[r], d, config[d])
    BY <1>2, <1>5 DEF UnwindInv, WorldShape
  <2>2. Fields(k, l, IF last THEN "apply" ELSE l.pc, IF last THEN 1 ELSE l.pos + 1,
               Append(l.ckpt, d), l.changed, l.journal, l.failed)
    BY <1>2, <1>5, CheckpointFields
  <2>3. Kept(l, f, flash[r], before[r], config, ise[f])
    BY <1>2 DEF KeptBy
  <2>4. k.run = l.run
    BY <2>2 DEF Fields
  <2> HIDE DEF k, l, f, r, d
  <2>5. Kept(k, f, WithFile(flash[r], d, config[d]), before[r], config, ise[f])
    BY <1>1, <1>2, <2>2, <2>3, CheckpointKept DEF d
  <2> QED
    BY <1>2, <1>3, <2>1, <2>4, <2>5, OwnKept DEF k, l, f, r
<1> QED
  BY <1>4, <1>5 DEF Checkpoint

LEMMA ApplyBlockKeeps ==
  ASSUME UnwindInv, NEW w \in Workers, ApplyBlock(w)
  PROVE  KeptBy(w)'
<1> DEFINE l == worker[w]
           k == worker'[w]
           f == FabricOfW(w)
           r == RunOf(w)
           d == CurrentStep(w).device
           blocks == config[d] \cup {Block(ArtifactOf(w), CurrentStep(w))}
<1>1. WorkerStep(w) /\ l.pc = "apply"
  BY DEF ApplyBlock, AtStep, WorkerStep
<1>2. /\ WorkerInv /\ [WNext]_vars /\ Engaged(w) /\ KeptBy(w)
      /\ f \in Fabrics /\ r \in Runs
  BY <1>1, StepContext
<1>3. UNCHANGED <<ise, flash, before>> /\ d \in DevicesOf(f)
  BY DEF ApplyBlock
<1>4. CASE Raise(w) /\ UNCHANGED config
  <2>1. Fields(k, l, "failed", l.pos, l.ckpt, l.changed, l.journal, l.failed)
    BY <1>2, <1>4, GotoFields DEF Raise
  <2>2. Kept(k, f, flash[r], before[r], config, ise[f])
    BY <1>1, <1>2, <2>1, RaisedKept DEF KeptBy
  <2>3. k.run = l.run
    BY <2>1 DEF Fields
  <2> QED
    BY <1>2, <1>3, <1>4, <2>2, <2>3, OwnKept
<1>5. CASE /\ config' \in {config, [config EXCEPT ![d] = blocks]}
           /\ \/ worker' = [worker EXCEPT ![w].changed = Marked(w, d, TRUE),
                                          ![w].pos = @ + 1]
              \/ worker' = [worker EXCEPT ![w].changed = Marked(w, d, FALSE),
                                          ![w].pc = "failed"]
  <2>1. \A x \in DevicesOf(f) : x = d \/ config'[x] = config[x]
    <3>1. DevicesOf(f) \subseteq Devices /\ config = [x \in Devices |-> config[x]]
      BY <1>2 DEF UnwindInv, WorldShape, Devices, DevicesOf
    <3> HIDE DEF d, f, blocks
    <3> QED
      BY <1>5, <3>1
  <2>2. PICK a \in BOOLEAN :
          \/ Fields(k, l, "apply", l.pos + 1, l.ckpt, Marked(w, d, a), l.journal, l.failed)
          \/ Fields(k, l, "failed", l.pos, l.ckpt, Marked(w, d, a), l.journal, l.failed)
    <3> HIDE DEF d, k
    <3>1. CASE worker' = [worker EXCEPT ![w].changed = Marked(w, d, TRUE),
                                        ![w].pos = @ + 1]
      <4>1. Fields(worker'[w], worker[w], worker[w].pc, worker[w].pos + 1,
                   worker[w].ckpt, Marked(w, d, TRUE), worker[w].journal,
                   worker[w].failed)
        BY <1>2, <3>1, StepFields
      <4> QED
        BY <1>1, <4>1 DEF k
    <3>2. CASE worker' = [worker EXCEPT ![w].changed = Marked(w, d, FALSE),
                                        ![w].pc = "failed"]
      <4>1. Fields(worker'[w], worker[w], "failed", worker[w].pos,
                   worker[w].ckpt, Marked(w, d, FALSE), worker[w].journal,
                   worker[w].failed)
        BY <1>2, <3>2, StepFields
      <4> QED
        BY <4>1 DEF k
    <3> QED
      BY <1>5, <3>1, <3>2
  <2>3. Kept(l, f, flash[r], before[r], config, ise[f])
    BY <1>2 DEF KeptBy
  <2>4. k.run = l.run
    BY <2>2 DEF Fields
  <2>5. /\ Marked(w, d, a) \in Seq(DevicesOf(f))
        /\ Elems(Marked(w, d, a)) = Elems(l.changed) \cup {d}
    <3>1. l.changed \in Seq(DevicesOf(f))
      BY <2>3 DEF Kept, Course
    <3> HIDE DEF d, f
    <3> QED
      BY <1>3, <3>1, MarkedElems
  <2> DEFINE marked == Marked(w, d, a)
  <2> HIDE DEF marked, k, l, f, r, d, blocks
  <2>6. \/ Fields(k, l, "apply", l.pos + 1, l.ckpt, marked, l.journal, l.failed)
        \/ Fields(k, l, "failed", l.pos, l.ckpt, marked, l.journal, l.failed)
    BY <2>2 DEF marked
  <2>7. Kept(k, f, flash[r], before[r], config', ise[f])
    BY <1>1, <1>3, <2>1, <2>3, <2>5, <2>6, BlockKept DEF marked
  <2> QED
    BY <1>2, <1>3, <2>4, <2>7, OwnKept DEF k, l, f, r
<1> QED
  BY <1>4, <1>5 DEF ApplyBlock

LEMMA ApplyIseKeeps ==
  ASSUME UnwindInv, NEW w \in Workers, ApplyIse(w)
  PROVE  KeptBy(w)'
<1> DEFINE l == worker[w]
           k == worker'[w]
           f == FabricOfW(w)
           r == RunOf(w)
           wants == {IseObjects(ArtifactOf(w))} \ ise[f]
<1>1. WorkerStep(w) /\ l.pc = "apply"
  BY DEF ApplyIse, AtStep, WorkerStep
<1>2. /\ WorkerInv /\ [WNext]_vars /\ Engaged(w) /\ KeptBy(w)
      /\ f \in Fabrics /\ r \in Runs /\ ise = [g \in Fabrics |-> ise[g]]
  BY <1>1, StepContext DEF UnwindInv, WorldShape
<1>3. UNCHANGED <<config, flash, before>>
  BY DEF ApplyIse
<1>4. PICK sent \in SUBSET wants :
        /\ ise' \in {ise, [ise EXCEPT ![f] = ise[f] \cup sent]}
        /\ \/ worker' = [worker EXCEPT ![w].journal = @ \cup sent, ![w].pos = @ + 1]
           \/ worker' = [worker EXCEPT ![w].journal = @ \cup sent, ![w].pc = "failed"]
  BY DEF ApplyIse
<1>5. ise'[f] \in {ise[f], ise[f] \cup sent} /\ sent \cap ise[f] = {}
  BY <1>2, <1>4
<1>6. \/ Fields(k, l, "apply", l.pos + 1, l.ckpt, l.changed, l.journal \cup sent, l.failed)
      \/ Fields(k, l, "failed", l.pos, l.ckpt, l.changed, l.journal \cup sent, l.failed)
  <2>1. CASE worker' = [worker EXCEPT ![w].journal = @ \cup sent, ![w].pos = @ + 1]
    <3>1. Fields(worker'[w], worker[w], worker[w].pc, worker[w].pos + 1,
                 worker[w].ckpt, worker[w].changed, worker[w].journal \cup sent,
                 worker[w].failed)
      BY <1>2, <2>1, StepFields
    <3> QED
      BY <1>1, <3>1
  <2>2. CASE worker' = [worker EXCEPT ![w].journal = @ \cup sent, ![w].pc = "failed"]
    <3>1. Fields(worker'[w], worker[w], "failed", worker[w].pos,
                 worker[w].ckpt, worker[w].changed, worker[w].journal \cup sent,
                 worker[w].failed)
      BY <1>2, <2>2, StepFields
    <3> QED
      BY <3>1
  <2> QED
    BY <1>4, <2>1, <2>2
<1>7. Kept(l, f, flash[r], before[r], config, ise[f])
  BY <1>2 DEF KeptBy
<1>8. k.run = l.run
  BY <1>6 DEF Fields
<1> HIDE DEF k, l, f, r, wants
<1>9. Kept(k, f, flash[r], before[r], config, ise'[f])
  BY <1>1, <1>5, <1>6, <1>7, IseKept
<1> QED
  BY <1>2, <1>3, <1>8, <1>9, OwnKept DEF k, l, f, r

\* A gate is passed or fails; a manifest that no phase applied fails.
LEMMA PassOrRaiseKeeps ==
  ASSUME UnwindInv, NEW w \in Workers, CheckGate(w) \/ Complete(w), Live(w)'
  PROVE  KeptBy(w)'
<1> DEFINE l == worker[w]
           k == worker'[w]
<1>1. WorkerStep(w) /\ l.pc = "apply" /\ UNCHANGED worldVars
  BY DEF CheckGate, Complete, AtStep, WorkerStep
<1>2. /\ WorkerInv /\ [WNext]_vars /\ Engaged(w) /\ KeptBy(w)
      /\ RunOf(w) \in Runs
  BY <1>1, StepContext
<1>3. worker' = [worker EXCEPT ![w].pos = l.pos + 1] \/ Raise(w)
  <2>1. ~(CompleteApply(RunOf(w), ArtifactOf(w)) /\ Goto(w, "commit"))
    <3> SUFFICES ASSUME CompleteApply(RunOf(w), ArtifactOf(w)), Goto(w, "commit")
                 PROVE  FALSE
      OBVIOUS
    <3>1. RunOf(w)' = RunOf(w)
      BY <1>2, GotoFields DEF Fields, RunOf
    <3>2. runs'[RunOf(w)].status = "apply_succeeded"
      BY <1>2 DEF CompleteApply, WorkerInv, LockInv, TypeOK, RunType
    <3> QED
      BY <3>1, <3>2 DEF Live, Unsettled
  <2> QED
    BY <2>1 DEF CheckGate, Complete
<1>4. \/ Fields(k, l, "apply", l.pos + 1, l.ckpt, l.changed, l.journal, l.failed)
      \/ Fields(k, l, "failed", l.pos, l.ckpt, l.changed, l.journal, l.failed)
  <2>1. CASE worker' = [worker EXCEPT ![w].pos = l.pos + 1]
    <3>1. Fields(k, l, l.pc, l.pos + 1, l.ckpt, l.changed, l.journal, l.failed)
      BY <1>2, <2>1, StepFields
    <3> QED
      BY <1>1, <3>1
  <2>2. CASE Raise(w)
    BY <1>2, <2>2, GotoFields DEF Raise
  <2> QED
    BY <1>3, <2>1, <2>2
<1>5. Kept(k, FabricOfW(w), flash[RunOf(w)], before[RunOf(w)], config, ise[FabricOfW(w)])
  BY <1>1, <1>2, <1>4, RaisedKept DEF KeptBy
<1>6. k.run = l.run
  BY <1>4 DEF Fields
<1> QED
  BY <1>1, <1>2, <1>5, <1>6, OwnKept DEF worldVars

LEMMA HandleKeeps ==
  ASSUME UnwindInv, NEW w \in Workers, Handle(w), Live(w)'
  PROVE  KeptBy(w)'
<1> DEFINE l == worker[w]
           k == worker'[w]
           f == FabricOfW(w)
           r == RunOf(w)
           todo == ToRollBack(w)
<1>1. /\ WorkerInv /\ [WNext]_vars /\ Engaged(w) /\ r \in Runs
      /\ UNCHANGED worldVars
  BY LocalFacts DEF UnwindInv, WNext, WorkerStep, Handle, Engaged
<1>2. /\ TransitionRun(r, "rollback_running")
      /\ worker' = [worker EXCEPT ![w].changed = todo, ![w].pc = "rollback"]
  BY <1>1, ExitNotLive DEF Handle, HandleFailure
<1>3. KeptBy(w)
  BY <1>1, <1>2, MoveFrom, WorkerStatuses DEF Live, Unsettled, UnwindInv
<1>4. Fields(k, l, "rollback", l.pos, l.ckpt, todo, l.journal, l.failed)
  BY <1>1, <1>2, StepFields
<1>5. Kept(l, f, flash[r], before[r], config, ise[f])
  BY <1>3 DEF KeptBy
<1>6. k.run = l.run /\ todo = IF l.changed # <<>> THEN l.changed ELSE l.ckpt
  BY <1>4 DEF Fields, ToRollBack
<1> HIDE DEF k, l, f, r, todo
<1>7. Kept(k, f, flash[r], before[r], config, ise[f])
  BY <1>4, <1>5, <1>6, HandledKept
<1> QED
  BY <1>1, <1>6, <1>7, OwnKept DEF k, l, f, r, worldVars

LEMMA RollBackDeviceKeeps ==
  ASSUME UnwindInv, NEW w \in Workers, RollBackDevice(w)
  PROVE  KeptBy(w)'
<1> DEFINE l == worker[w]
           k == worker'[w]
           f == FabricOfW(w)
           r == RunOf(w)
           d == Last(l.changed)
           restored == [config EXCEPT ![d] = flash[r][d]]
<1>1. WorkerStep(w) /\ l.pc = "rollback" /\ l.changed # <<>>
  BY DEF RollBackDevice, WorkerStep
<1>2. /\ WorkerInv /\ [WNext]_vars /\ Engaged(w) /\ KeptBy(w)
      /\ f \in Fabrics /\ r \in Runs
  BY <1>1, StepContext
<1>3. Kept(l, f, flash[r], before[r], config, ise[f]) /\ UNCHANGED <<ise, flash, before>>
  BY <1>2 DEF KeptBy, RollBackDevice
<1>4. d \in DevicesOf(f)
  BY <1>1, <1>3, FrontElems DEF Kept, Course
<1>5. /\ DevicesOf(f) \subseteq Devices
      /\ config = [x \in Devices |-> config[x]]
  BY <1>2 DEF UnwindInv, WorldShape, Devices, DevicesOf
<1>6. PICK failed :
        /\ Fields(k, l, "rollback", l.pos, l.ckpt, Front(l.changed), l.journal, failed)
        /\ config' \in {config, restored}
        /\ failed = TRUE \/ (failed = l.failed /\ config' = restored)
  <2>1. CASE config' = restored /\ worker' = [worker EXCEPT ![w].changed = Front(l.changed)]
    <3>1. Fields(k, l, l.pc, l.pos, l.ckpt, Front(l.changed), l.journal, l.failed)
      BY <1>2, <2>1, StepFields
    <3> QED
      BY <1>1, <2>1, <3>1
  <2>2. CASE /\ config' \in {config, restored}
             /\ worker' = [worker EXCEPT ![w].changed = Front(l.changed),
                                         ![w].failed = TRUE]
    <3>1. Fields(k, l, l.pc, l.pos, l.ckpt, Front(l.changed), l.journal, TRUE)
      BY <1>2, <2>2, StepFields
    <3> QED
      BY <1>1, <2>2, <3>1
  <2> QED
    BY <2>1, <2>2 DEF RollBackDevice
<1>7. k.run = l.run
  BY <1>6 DEF Fields
<1> HIDE DEF k, l, f, r, d
<1>8. /\ \A x \in DevicesOf(f) : x = d \/ config'[x] = config[x]
      /\ failed = TRUE \/ (failed = l.failed /\ config'[d] = flash[r][d])
  BY <1>4, <1>5, <1>6
<1>9. Kept(k, f, flash[r], before[r], config', ise[f])
  BY <1>1, <1>3, <1>6, <1>8, DeviceKept DEF d
<1> QED
  BY <1>2, <1>3, <1>7, <1>9, OwnKept DEF k, l, f, r

LEMMA RollBackIseKeeps ==
  ASSUME UnwindInv, NEW w \in Workers, RollBackIse(w)
  PROVE  KeptBy(w)'
<1> DEFINE l == worker[w]
           k == worker'[w]
           f == FabricOfW(w)
           r == RunOf(w)
           restored == [ise EXCEPT ![f] = ise[f] \ l.journal]
<1>1. WorkerStep(w) /\ l.pc = "rollback"
  BY DEF RollBackIse, WorkerStep
<1>2. /\ WorkerInv /\ [WNext]_vars /\ Engaged(w) /\ KeptBy(w)
      /\ f \in Fabrics /\ r \in Runs /\ ise = [g \in Fabrics |-> ise[g]]
  BY <1>1, StepContext DEF UnwindInv, WorldShape
<1>3. Kept(l, f, flash[r], before[r], config, ise[f]) /\ UNCHANGED <<config, flash, before>>
  BY <1>2 DEF KeptBy, RollBackIse
<1>4. PICK failed :
        /\ Fields(k, l, "rollback", l.pos, l.ckpt, l.changed, {}, failed)
        /\ failed = TRUE \/ (failed = l.failed /\ ise' = restored)
  <2>1. CASE ise' = restored /\ worker' = [worker EXCEPT ![w].journal = {}]
    <3>1. Fields(k, l, l.pc, l.pos, l.ckpt, l.changed, {}, l.failed)
      BY <1>2, <2>1, StepFields
    <3> QED
      BY <1>1, <2>1, <3>1
  <2>2. CASE worker' = [worker EXCEPT ![w].journal = {}, ![w].failed = TRUE]
    <3>1. Fields(k, l, l.pc, l.pos, l.ckpt, l.changed, {}, TRUE)
      BY <1>2, <2>2, StepFields
    <3> QED
      BY <1>1, <3>1
  <2> QED
    BY <2>1, <2>2 DEF RollBackIse
<1>5. k.run = l.run
  BY <1>4 DEF Fields
<1> HIDE DEF k, l, f, r
<1>6. failed = TRUE \/ (failed = l.failed /\ ise'[f] = ise[f] \ l.journal)
  BY <1>2, <1>4
<1>7. Kept(k, f, flash[r], before[r], config, ise'[f])
  BY <1>1, <1>3, <1>4, <1>6, ObjectsKept
<1> QED
  BY <1>2, <1>3, <1>5, <1>7, OwnKept DEF k, l, f, r

\* The steps after which a process has nothing left to undo.
LEMMA SettledSteps ==
  ASSUME UnwindInv, NEW w \in Workers,
         \/ RefuseBlocked(w) \/ PreflightFails(w) \/ CommitReservation(w)
         \/ Finish(w) \/ Settle(w)
  PROVE  ~Live(w)'
<1>1. WorkerInv
  BY DEF UnwindInv
<1>2. CASE CommitReservation(w)
  <2>1. CASE Raise(w) /\ runs' = runs
    <3>1. RunOf(w)' = RunOf(w)
      BY <1>1, <2>1, GotoFields DEF Raise, Fields, RunOf
    <3>2. runs[RunOf(w)].status = "apply_succeeded"
      BY <1>1, <1>2 DEF CommitReservation, WorkerInv, StatusAt
    <3> QED
      BY <2>1, <3>1, <3>2 DEF Live, Unsettled
  <2> QED
    BY <1>1, <1>2, <2>1, ExitNotLive
    DEF CommitReservation, ReservationRefused, storeVars
<1>3. CASE Finish(w)
  <2>1. CASE TransitionRun(RunOf(w), Outcome(w)) /\ Goto(w, "settle")
    <3>1. RunOf(w)' = RunOf(w)
      BY <1>1, <2>1, GotoFields DEF Fields, RunOf
    <3>2. RunOf(w) \in Runs /\ Outcome(w) \in RunStatus
      BY <1>1, <1>3, LocalFacts, WorkerStatuses DEF Finish, Outcome
    <3>3. runs'[RunOf(w)].status = Outcome(w)
      BY <1>1, <2>1, <3>2, MoveFrom
    <3> QED
      BY <3>1, <3>3 DEF Live, Unsettled, Outcome
  <2> QED
    BY <1>1, <1>3, <2>1, ExitNotLive DEF Finish
<1> QED
  BY <1>1, <1>2, <1>3, ExitNotLive DEF RefuseBlocked, PreflightFails, Settle

LEMMA OwnKeeps ==
  ASSUME UnwindInv, NEW w \in Workers, WorkerStep(w), Live(w)'
  PROVE  KeptBy(w)'
  BY BeginKeeps, PrecheckKeeps, CheckpointKeeps, ApplyBlockKeeps, ApplyIseKeeps,
     PassOrRaiseKeeps, HandleKeeps, RollBackDeviceKeeps, RollBackIseKeeps,
     SettledSteps
  DEF WorkerStep

-----------------------------------------------------------------------------
(* The invariant. *)

LEMMA NextShape ==
  ASSUME UnwindInv, [WNext]_vars
  PROVE  WorldShape' /\ Fresh'
<1> USE DEF UnwindInv
<1>1. ASSUME UNCHANGED worldVars
      PROVE  WorldShape'
  <2>1. config' = config /\ ise' = ise /\ flash' = flash /\ before' = before
    BY <1>1 DEF worldVars
  <2>2. WorldShape
    OBVIOUS
  <2> QED
    BY <2>1, <2>2 DEF WorldShape
<1>2. ASSUME NEW w \in Workers, WorkerStep(w)
      PROVE  WorldShape'
  <2>1. CASE Begin(w) \/ Checkpoint(w)
    BY <2>1 DEF Begin, Checkpoint, WorldShape
  <2>2. CASE ApplyBlock(w) \/ RollBackDevice(w)
    BY <2>2 DEF ApplyBlock, RollBackDevice, WorldShape
  <2>3. CASE ApplyIse(w) \/ RollBackIse(w)
    BY <2>3 DEF ApplyIse, RollBackIse, WorldShape
  <2> QED
    BY <1>1, <1>2, <2>1, <2>2, <2>3
    DEF WorkerStep, RefuseBlocked, PreflightFails, Precheck, CheckGate, Complete,
        CommitReservation, Handle, Finish, Settle
<1>3. WorldShape'
  BY <1>1, <1>2
  DEF WNext, ClientStep, Start, Crash, OperatorStep, OperatorRecover,
      OperatorRestore, OperatorRelease, WorldShape, vars
<1>4. ASSUME NEW x \in Workers, worker'[x].pc = "checked"
      PROVE  worker'[x] = At("checked", worker'[x].run)
  <2>1. CASE worker'[x] = worker[x]
    BY <1>4, <2>1 DEF Fresh, RunOf
  <2>2. ASSUME NEW w \in Workers, NEW r \in Runs, Start(w, r)
        PROVE  worker'[x] = worker[x] \/ worker'[x] = At("checked", r)
    BY <2>2 DEF Start, WorkerInv, WorkerShape
  <2>3. ASSUME NEW w \in Workers, Crash(w)
        PROVE  worker'[x] = worker[x] \/ worker'[x] = Idle
    BY <2>3 DEF Crash, Exit, WorkerInv, WorkerShape
  <2>4. ASSUME WorkerStep(x)
        PROVE  FALSE
    <3>1. ~Exit(x)
      BY <1>4 DEF Exit, WorkerInv, WorkerShape, Idle, At
    <3>2. \A pc : Goto(x, pc) => pc = "checked"
      BY <1>4, GotoFields DEF Fields
    <3>3. ~Raise(x)
      BY <3>2 DEF Raise
    <3>4. Begin(x) \/ Checkpoint(x) \/ ApplyBlock(x) \/ ApplyIse(x) \/ CheckGate(x)
          \/ Handle(x) \/ RollBackDevice(x) \/ RollBackIse(x)
      BY <2>4, <3>1, <3>2, <3>3
      DEF WorkerStep, RefuseBlocked, PreflightFails, Precheck, Complete,
          CommitReservation, Finish, Settle
    <3>6. ~Begin(x)
      BY <3>1, <3>2 DEF Begin
    <3>7. ~Checkpoint(x)
      BY <1>4, <3>3, CheckpointFields DEF Checkpoint, Fields
    <3>8. ~ApplyBlock(x) /\ ~ApplyIse(x) /\ ~CheckGate(x)
      <4> SUFFICES ASSUME ApplyBlock(x) \/ ApplyIse(x) \/ CheckGate(x)
                   PROVE  FALSE
        OBVIOUS
      <4>1. PICK l : Becomes(x, l) /\ (Same(worker[x], l) \/ Fails(worker[x], l))
        BY ApplyingState
      <4>2. worker'[x] = l
        BY <4>1 DEF Becomes, WorkerInv, WorkerShape
      <4>3. worker[x].pc = "apply"
        BY DEF ApplyBlock, ApplyIse, CheckGate, AtStep
      <4> QED
        BY <1>4, <4>1, <4>2, <4>3 DEF Same, Fails
    <3>9. ~Handle(x)
      <4> SUFFICES ASSUME worker' = [worker EXCEPT ![x].changed = ToRollBack(x),
                                                   ![x].pc = "rollback"]
                   PROVE  FALSE
        BY <3>1 DEF Handle, HandleFailure
      <4>1. LET l == worker[x] IN
            Fields(worker'[x], l, "rollback", l.pos, l.ckpt, ToRollBack(x), l.journal,
                   l.failed)
        BY StepFields
      <4> QED
        BY <1>4, <4>1 DEF Fields
    <3>10. ~RollBackDevice(x) /\ ~RollBackIse(x)
      <4> SUFFICES ASSUME RollBackDevice(x) \/ RollBackIse(x)
                   PROVE  FALSE
        OBVIOUS
      <4>1. PICK l : Becomes(x, l) /\ Same(worker[x], l)
        BY SameFacts DEF RollBackDevice, RollBackIse
      <4>2. worker'[x] = l
        BY <4>1 DEF Becomes, WorkerInv, WorkerShape
      <4>3. worker[x].pc = "rollback"
        BY DEF RollBackDevice, RollBackIse
      <4> QED
        BY <1>4, <4>1, <4>2, <4>3 DEF Same
    <3> QED
      BY <3>4, <3>6, <3>7, <3>8, <3>9, <3>10
  <2>5. ASSUME NEW w \in Workers, WorkerStep(w)
        PROVE  worker'[x] = worker[x]
    BY <2>4, <2>5, OthersStay
  <2>6. CASE ClientStep \/ OperatorStep \/ UNCHANGED vars
    BY <2>1, <2>6
    DEF ClientStep, OperatorStep, OperatorRecover, OperatorRestore,
        OperatorRelease, vars
  <2>7. \/ worker'[x] = worker[x] \/ worker'[x] = Idle
        \/ \E r \in Runs : worker'[x] = At("checked", r)
    BY <2>2, <2>3, <2>5, <2>6 DEF WNext, ClientStep, vars, OperatorStep,
       OperatorRecover, OperatorRestore, OperatorRelease
  <2>8. Idle.pc = "idle" /\ \A r : At("checked", r).run = r
    BY DEF At, Idle
  <2> QED
    BY <1>4, <2>1, <2>7, <2>8
<1>5. Fresh'
  BY <1>4 DEF Fresh, RunOf
<1> QED
  BY <1>3, <1>5

LEMMA NextFiles ==
  ASSUME UnwindInv, [WNext]_vars
  PROVE  FilesOnFabric'
<1>1. WorkerInv
  BY DEF UnwindInv
<1> SUFFICES ASSUME NEW r \in Runs, NEW d \in DOMAIN flash'[r]
             PROVE  Created(r)' /\ d \in DevicesOf(runs'[r].fabric)
  BY DEF FilesOnFabric
<1>2. CASE d \in DOMAIN flash[r]
  <2>1. Created(r) /\ d \in DevicesOf(runs[r].fabric)
    BY <1>2 DEF UnwindInv, FilesOnFabric
  <2> QED
    BY <1>1, <2>1, RowStays
<1>3. ASSUME NEW w \in Workers, Checkpoint(w), d \notin DOMAIN flash[r]
      PROVE  Created(r) /\ d \in DevicesOf(runs[r].fabric)
  <2> DEFINE f == FabricOfW(w)
             l == worker[w]
             e == DeviceOrder[f][l.pos]
  <2>1. WorkerStep(w) /\ l.pc = "checkpoint"
    BY <1>3 DEF Checkpoint, WorkerStep
  <2>2. /\ f \in Fabrics /\ RunOf(w) \in Runs /\ Created(RunOf(w))
        /\ l.pos \in 1..Len(DeviceOrder[f])
    BY <2>1, StepContext, LiveFacts DEF KeptBy, Kept, Course
  <2>3. e \in DevicesOf(f)
    BY <2>2 DEF DevicesOf
  <2>4. flash' = [flash EXCEPT ![RunOf(w)] = WithFile(flash[RunOf(w)], e, config[e])]
    BY <1>3 DEF Checkpoint
  <2>5. r = RunOf(w)
    BY <1>3, <2>4 DEF UnwindInv, WorldShape
  <2>6. flash'[r] = WithFile(flash[r], e, config[e])
    BY <2>2, <2>4, <2>5 DEF UnwindInv, WorldShape
  <2>7. DOMAIN flash'[r] = DOMAIN flash[r] \cup {e}
    BY <2>6 DEF WithFile
  <2> QED
    BY <1>3, <2>2, <2>3, <2>5, <2>7 DEF FabricOfW
<1>4. d \notin DOMAIN flash[r] => \E w \in Workers : Checkpoint(w)
  BY DEF WNext, WorkerStep, ClientStep, Start, Crash, OperatorStep, OperatorRecover,
      OperatorRestore, OperatorRelease, vars, worldVars, RefuseBlocked,
      PreflightFails, Begin, Precheck, ApplyBlock, ApplyIse, CheckGate, Complete,
      CommitReservation, Handle, RollBackDevice, RollBackIse, Finish, Settle
<1> QED
  BY <1>1, <1>2, <1>3, <1>4, RowStays

\* An operator replaces configurations of a fabric whose worker is gone, and
\* nobody else may be on it.
LEMMA OperatorAside ==
  ASSUME Recovery \in {"none", "dead"}, UnwindInv, OperatorStep,
         NEW x \in Workers, Live(x)'
  PROVE  Untouched(x)
<1>1. WorkerInv /\ [WNext]_vars /\ worker' = worker
  BY DEF UnwindInv, WNext, OperatorStep, OperatorRecover, OperatorRestore,
         OperatorRelease
<1>2. Live(x)
  BY <1>1, LiveBefore
<1>3. CASE UNCHANGED worldVars
  BY <1>1, <1>2, <1>3 DEF worldVars, Untouched
<1>4. ASSUME NEW r \in Runs, NEW d \in Devices, OperatorRestore(r, d)
      PROVE  Untouched(x)
  <2>1. /\ Abandoned(r) /\ runs[r].status \in ApplyActive
        /\ Created(r) /\ d \in DevicesOf(runs[r].fabric)
    BY <1>4 DEF OperatorRestore, MayRecover, UnwindInv, FilesOnFabric
  <2>2. /\ RunOf(x) \in Runs /\ RunOf(x) # r /\ Created(RunOf(x))
        /\ FabricOfW(x) \in Fabrics /\ runs[RunOf(x)].status \in ApplyActive
    BY <1>1, <1>2, <2>1, LiveFacts DEF Abandoned
  <2>3. runs[r].fabric # FabricOfW(x)
    BY <1>1, <2>1, <2>2, LockExclusion
    DEF WorkerInv, OneActiveApplyPerFabric, FabricOfW
  <2>4. runs[r].fabric \in Fabrics
    BY <1>1, <2>1 DEF WorkerInv, LockInv, RunComplete
  <2>5. d \notin DevicesOf(FabricOfW(x))
    BY <2>1, <2>2, <2>3, <2>4, DeviceAssumption
  <2>6. \A y \in DevicesOf(FabricOfW(x)) : config'[y] = config[y]
    <3>1. DevicesOf(FabricOfW(x)) \subseteq Devices
      BY <2>2 DEF Devices, DevicesOf
    <3> QED
      BY <1>4, <2>5, <3>1 DEF OperatorRestore, UnwindInv, WorldShape
  <2> QED
    BY <1>1, <1>2, <1>4, <2>6 DEF OperatorRestore, Untouched
<1> QED
  BY <1>3, <1>4 DEF OperatorStep, OperatorRecover, OperatorRelease

\* A live process makes a step of its own, or nobody touches its fabric.
LEMMA NextAside ==
  ASSUME Recovery \in {"none", "dead"}, UnwindInv, [WNext]_vars,
         NEW x \in Workers, Live(x)'
  PROVE  WorkerStep(x) \/ Untouched(x)
<1>1. WorkerInv
  BY DEF UnwindInv
<1>2. ASSUME UNCHANGED worldVars, worker'[x] = worker[x]
      PROVE  Untouched(x)
  BY <1>1, <1>2, LiveBefore DEF worldVars, Untouched
<1>3. ASSUME NEW w \in Workers, WorkerStep(w)
      PROVE  WorkerStep(x) \/ Untouched(x)
  BY <1>3, OthersAside
<1>4. ASSUME NEW w \in Workers, Crash(w)
      PROVE  Untouched(x)
  <2>1. w # x
    BY <1>1, <1>4, ExitNotLive DEF Crash
  <2> QED
    BY <1>1, <1>2, <1>4, <2>1 DEF Crash, Exit, WorkerInv, WorkerShape
<1>5. ASSUME NEW w \in Workers, NEW r \in Runs, Start(w, r)
      PROVE  Untouched(x)
  <2>1. w # x
    BY <1>1, <1>5 DEF Start, WorkerInv, WorkerShape, Live, Engaged, At
  <2> QED
    BY <1>1, <1>2, <1>5, <2>1 DEF Start, WorkerInv, WorkerShape
<1> QED
  BY <1>2, <1>3, <1>4, <1>5, OperatorAside DEF WNext, ClientStep, vars

LEMMA NextKept ==
  ASSUME Recovery \in {"none", "dead"}, UnwindInv, [WNext]_vars,
         NEW x \in Workers, Live(x)'
  PROVE  KeptBy(x)'
<1>1. CASE WorkerStep(x)
  BY <1>1, OwnKeeps
<1>2. CASE Untouched(x)
  <2>1. WorkerInv /\ KeptBy(x)
    BY <1>2 DEF UnwindInv, Untouched
  <2> QED
    BY <1>2, <2>1, KeptAside DEF Untouched
<1> QED
  BY <1>1, <1>2, NextAside

-----------------------------------------------------------------------------
(* The theorem. *)

\* When nothing is left to undo and no undoing failed, the fabric is the one
\* the history remembers.
LEMMA NothingLeft ==
  ASSUME UnwindInv, NEW w \in Workers, Live(w), worker[w].failed = FALSE,
         Elems(worker[w].changed) = {}, worker[w].journal = {}
  PROVE  Snapshot(FabricOfW(w)) = before[RunOf(w)]
<1> DEFINE f == FabricOfW(w)
           pre == before[RunOf(w)]
<1>1. Kept(worker[w], f, flash[RunOf(w)], pre, config, ise[f])
  BY DEF UnwindInv, KeptBy
<1>2. \A d \in DevicesOf(f) : config[d] = pre.config[d]
  BY <1>1 DEF Kept, Accounted
<1>3. ise[f] = pre.ise
  BY <1>1 DEF Kept, Accounted
<1>4. pre = [config |-> [d \in DevicesOf(f) |-> pre.config[d]], ise |-> pre.ise]
  BY <1>1 DEF Kept, Recorded
<1>5. pre = [config |-> [d \in DevicesOf(f) |-> config[d]], ise |-> ise[f]]
  BY <1>2, <1>3, <1>4
<1> QED
  BY <1>5 DEF Snapshot

Unwound(r) ==
  /\ runs[r].status \in Unsettled
  /\ \/ runs'[r].status = "rolled_back"
     \/ runs'[r].status = "apply_failed" /\ worker' # worker

LEMMA ProcessUnwinds ==
  ASSUME UnwindInv, NEW w \in Workers, WorkerStep(w), NEW r \in Runs, Unwound(r)
  PROVE  Snapshot(runs[r].fabric)' = before[r]
<1> DEFINE l == worker[w]
<1>1. /\ WorkerInv /\ [WNext]_vars /\ runs' # runs
      /\ l.pc # "idle" => RunOf(w) \in Runs
  BY LocalFacts DEF UnwindInv, WNext, Unwound, Unsettled
<1>2. ASSUME NEW s \in RunStatus, TransitionRun(RunOf(w), s), l.pc # "idle"
      PROVE  r = RunOf(w) /\ s \in {"rolled_back", "apply_failed"}
  BY <1>1, <1>2, MoveFrom DEF Unwound, Unsettled
<1>3. runs'[r].fabric = runs[r].fabric
  BY <1>1, RowStays DEF Unwound, Unsettled, Created
<1>4. ASSUME r = RunOf(w), Engaged(w), l.failed = FALSE, Elems(l.changed) = {},
             l.journal = {}, UNCHANGED worldVars
      PROVE  Snapshot(runs[r].fabric)' = before[r]
  <2>1. Live(w) /\ runs[r].fabric = FabricOfW(w)
    BY <1>4 DEF Live, Unwound, FabricOfW
  <2>2. Snapshot(runs[r].fabric) = before[r]
    BY <1>4, <2>1, NothingLeft
  <2>3. config' = config /\ ise' = ise
    BY <1>4 DEF worldVars
  <2> QED
    BY <1>3, <2>2, <2>3 DEF Snapshot
<1>5. CASE Precheck(w)
  <2>1. TransitionRun(RunOf(w), "apply_failed") /\ UNCHANGED worldVars /\ l.pc = "running"
    BY <1>1, <1>5 DEF Precheck, Refused, storeVars
  <2>2. r = RunOf(w)
    BY <1>2, <2>1, WorkerStatuses
  <2>3. Course(l, FabricOfW(w))
    BY <1>5, StepContext DEF WorkerStep, KeptBy, Kept, Precheck
  <2>4. l.failed = FALSE /\ Elems(l.changed) = {} /\ l.journal = {} /\ Engaged(w)
    BY <2>1, <2>3, ElemsEmpty DEF Course, Engaged
  <2> QED
    BY <1>4, <2>1, <2>2, <2>4
<1>6. CASE Handle(w)
  <2>1. /\ \E s \in {"apply_failed", "rollback_running"} : TransitionRun(RunOf(w), s)
        /\ UNCHANGED worldVars /\ l.pc = "failed"
    BY <1>1, <1>6 DEF Handle, HandleFailure, Refused, storeVars
  <2>2. r = RunOf(w)
    BY <1>2, <2>1, WorkerStatuses
  <2>3. ~Dirty(w)
    <3>1. ~TransitionRun(RunOf(w), "rollback_running")
      BY <1>2, <2>1, WorkerStatuses
    <3> QED
      BY <1>1, <1>6, <3>1 DEF Handle, Refused, storeVars
  <2>4. Live(w)
    BY <2>1, <2>2 DEF Live, Engaged, Unwound
  <2>5. Course(l, FabricOfW(w))
    BY <2>4 DEF UnwindInv, KeptBy, Kept
  <2>6. l.failed = FALSE /\ Elems(l.changed) = {} /\ l.journal = {} /\ Engaged(w)
    BY <2>1, <2>3, <2>5, ElemsEmpty DEF Course, Engaged, Dirty
  <2> QED
    BY <1>4, <2>1, <2>2, <2>6
<1>7. CASE Finish(w)
  <2>1. /\ TransitionRun(RunOf(w), Outcome(w)) /\ UNCHANGED worldVars
        /\ l.pc = "rollback" /\ l.changed = <<>> /\ l.journal = {}
    BY <1>1, <1>7 DEF Finish, Refused, storeVars
  <2>2. r = RunOf(w) /\ Outcome(w) = "rolled_back"
    BY <1>2, <2>1, WorkerStatuses DEF Outcome
  <2>3. Course(l, FabricOfW(w))
    BY <1>7, StepContext DEF WorkerStep, KeptBy, Kept, Finish
  <2>4. l.failed = FALSE /\ Elems(l.changed) = {} /\ Engaged(w)
    BY <2>1, <2>2, <2>3, ElemsEmpty DEF Course, Engaged, Outcome
  <2> QED
    BY <1>4, <2>1, <2>2, <2>4
<1>8. ~RefuseBlocked(w)
  <2> SUFFICES ASSUME RefuseBlocked(w)
               PROVE  FALSE
    OBVIOUS
  <2>1. TransitionRun(RunOf(w), "apply_failed") /\ l.pc = "checked"
    BY <1>1 DEF RefuseBlocked, Refused, storeVars
  <2>2. r = RunOf(w)
    BY <1>2, <2>1, WorkerStatuses
  <2> QED
    BY <2>2 DEF RefuseBlocked, ArtifactOf, UnwindInv, NeverBlocked, Unwound
<1>9. ~Begin(w)
  BY <1>1, <1>2, WorkerStatuses DEF Begin, Refused, storeVars
<1>10. ~Complete(w)
  <2> SUFFICES ASSUME CompleteApply(RunOf(w), ArtifactOf(w)), l.pc = "apply"
               PROVE  FALSE
    BY <1>1 DEF Complete, storeVars
  <2>1. \A q \in Runs : runs'[q].status \in {runs[q].status, "apply_succeeded"}
    BY <1>1 DEF CompleteApply, WorkerInv, LockInv, TypeOK, RunType
  <2> QED
    BY <2>1 DEF Unwound, Unsettled
<1> QED
  BY <1>1, <1>5, <1>6, <1>7, <1>8, <1>9, <1>10
  DEF WorkerStep, PreflightFails, Checkpoint, ApplyBlock, ApplyIse, CheckGate,
      CommitReservation, RollBackDevice, RollBackIse, Settle, storeVars,
      TransitionReservation, ReservationRefused

\* The operator writes down "rolled_back" only for a fabric that is as it was.
LEMMA OperatorUnwinds ==
  ASSUME UnwindInv, OperatorStep, NEW r \in Runs, Unwound(r)
  PROVE  Snapshot(runs[r].fabric)' = before[r]
<1>1. WorkerInv /\ [WNext]_vars /\ worker' = worker
  BY DEF UnwindInv, WNext, OperatorStep, OperatorRecover, OperatorRestore,
         OperatorRelease
<1>2. runs'[r].status = "rolled_back" /\ runs' # runs
  BY <1>1 DEF Unwound, Unsettled
<1>3. PICK q \in Runs : OperatorRecover(q)
  BY <1>2 DEF OperatorStep, OperatorRestore, OperatorRelease, storeVars,
     TransitionReservation
<1>4. ASSUME NEW s \in RunStatus, TransitionRun(q, s)
      PROVE  r = q /\ s = "rolled_back"
  BY <1>1, <1>2, <1>4, MoveFrom DEF Unwound, Unsettled
<1>5. r = q /\ Snapshot(runs[q].fabric) = before[q]
  BY <1>3, <1>4, WorkerStatuses DEF OperatorRecover
<1>6. config' = config /\ ise' = ise
  BY <1>3 DEF OperatorRecover, worldVars
<1>7. runs'[r].fabric = runs[r].fabric
  BY <1>1, RowStays DEF Unwound, Unsettled, Created
<1> QED
  BY <1>5, <1>6, <1>7 DEF Snapshot

LEMMA NextUnwinds ==
  ASSUME UnwindInv, [WNext]_vars, NEW r \in Runs, Unwound(r)
  PROVE  Snapshot(runs[r].fabric)' = before[r]
<1>1. WorkerInv /\ runs' # runs
  BY DEF UnwindInv, Unwound, Unsettled
<1>2. ~ClientStep
  <2>1. ASSUME NEW q \in Runs, NEW p \in Plans, NEW m \in {"dry_run", "apply"},
               NEW k \in Keys, NEW s \in 0..Horizon, NEW e \in 0..Horizon,
               CreateRun(q, p, m, k, s, e)
        PROVE  FALSE
    <3>1. q # r /\ runs'[r] = runs[r]
      BY <1>1, <2>1
      DEF CreateRun, Created, Unwound, Unsettled, WorkerInv, LockInv, TypeOK
    <3> QED
      BY <3>1 DEF Unwound, Unsettled
  <2>2. ~SimulateNext
    <3>1. ASSUME NEW q \in Runs, NEW s \in Simulated, TransitionRun(q, s)
          PROVE  FALSE
      BY <1>1, <3>1, SimulatorMoves
      DEF Unwound, Unsettled, Simulated, DryRunActive, WorkerInv, LockInv
    <3> QED
      BY <3>1 DEF SimulateNext
  <2> QED
    BY <1>1, <2>1, <2>2
    DEF ClientStep, DesignNext, SaveIntent, ReserveDesign, SavePlan,
        GovernNext, RecordApproval, RecordAdoptedOwnedState, Tick
<1> QED
  BY <1>1, <1>2, ProcessUnwinds, OperatorUnwinds
  DEF WNext, Start, Crash, vars, storeVars

\* The knowledge of a process about what it may have changed is right at every
\* instant (worker.process_apply: checkpoints, changed_devices, the journal of
\* ISE), whichever processes die and whatever an operator does to their runs.
THEOREM UnwindInvariant ==
  ASSUME Recovery \in {"none", "dead"}
  PROVE  WSpec => []UnwindInv
<1>1. WInit => UnwindInv
  <2> SUFFICES ASSUME WInit
               PROVE  UnwindInv
    OBVIOUS
  <2>1. WorkerInv
    BY InitWorker
  <2>2. \A w \in Workers : worker[w].pc = "idle"
    BY DEF WInit, Idle, At
  <2>3. \A r \in Runs : runs[r].status = "absent" /\ flash[r] = <<>>
    BY DEF WInit, Init, NoRun
  <2>4. DOMAIN <<>> = {}
    OBVIOUS
  <2>5. WorldShape
    BY DEF WInit, WorldShape
  <2>6. FilesOnFabric /\ NeverBlocked
    BY <2>3, <2>4 DEF FilesOnFabric, NeverBlocked, Unsettled
  <2> QED
    BY <2>1, <2>2, <2>5, <2>6 DEF UnwindInv, Fresh, Live, Engaged
<1>2. UnwindInv /\ [WNext]_vars => UnwindInv'
  <2> SUFFICES ASSUME UnwindInv, [WNext]_vars
               PROVE  UnwindInv'
    OBVIOUS
  <2>1. WorkerInv' /\ NeverBlocked'
    BY NextWorker, NextBlocked DEF UnwindInv
  <2>2. WorldShape' /\ Fresh' /\ FilesOnFabric'
    BY NextShape, NextFiles
  <2>3. \A w \in Workers : Live(w)' => KeptBy(w)'
    BY NextKept
  <2> QED
    BY <2>1, <2>2, <2>3 DEF UnwindInv
<1> QED
  BY <1>1, <1>2, PTL DEF WSpec

\* A run that ends rolled back, or that its worker ends as failed, leaves its
\* fabric as it was when the run began (worker.process_apply, the exception
\* handler), for every plan, number of devices and workers, whichever calls
\* failed half-way and whichever other runs were going on.
THEOREM RunsUnwind ==
  ASSUME Recovery \in {"none", "dead"}
  PROVE  WSpec => UnwindRestores
<1>1. UnwindInv /\ [WNext]_vars =>
        [\A r \in Runs :
           /\ runs[r].status \in {"apply_running", "rollback_running"}
           /\ \/ runs'[r].status = "rolled_back"
              \/ runs'[r].status = "apply_failed" /\ worker' # worker
           => Snapshot(runs[r].fabric)' = before[r]]_vars
  BY NextUnwinds DEF Unwound, Unsettled
<1> QED
  BY <1>1, UnwindInvariant, PTL DEF WSpec, UnwindRestores

-----------------------------------------------------------------------------
(* The steps of an artifact. *)

StepSet(f) == [kind : {"block", "ise", "gate"}, device : DevicesOf(f) \cup {None},
               phase : DOMAIN Gates, n : Nat]

BlockStep(d, ph, n) == [kind |-> "block", device |-> d, phase |-> ph, n |-> n]

\* Sequence s sends every block of artifact a for device d in phase ph.
Sends(s, a, d, ph) ==
  \A n \in 1..BlockCount[a][d][ph] : \E k \in 1..Len(s) : s[k] = BlockStep(d, ph, n)

LEMMA PhaseProgram ==
  ASSUME NEW a \in Artifacts, NEW f \in Fabrics, NEW i \in 1..Len(Phases)
  PROVE  /\ PhaseSteps(a, f, Phases[i]) \in Seq(StepSet(f))
         /\ \A d \in DevicesOf(f) : Sends(PhaseSteps(a, f, Phases[i]), a, d, Phases[i])
<1> DEFINE ph == Phases[i]
           order == DeviceOrder[f]
           on == [j \in 1..Len(order) |-> BlockSteps(a, order[j], ph)]
           ises == IseSteps(a, ph)
           gates == GateSteps(ph)
<1>1. /\ ph \in DOMAIN Gates /\ Gates[ph] \in Nat
      /\ \A d \in DevicesOf(f) : BlockCount[a][d][ph] \in Nat
  <2>1. DevicesOf(f) \subseteq Devices
    BY DEF Devices, DevicesOf
  <2>2. \A d \in Devices : BlockCount[a][d][ph] \in Nat
    BY PhaseAssumption
  <2>3. ph \in DOMAIN Gates
    BY PhaseAssumption
  <2>4. Gates[ph] \in Nat
    BY <2>3, PhaseAssumption
  <2> QED
    BY <2>1, <2>2, <2>3, <2>4
<1>2. /\ Len(order) \in Nat
      /\ \A j \in 1..Len(order) : order[j] \in DevicesOf(f)
  BY DeviceAssumption
<1> HIDE DEF ph, order
<1>3. ASSUME NEW j \in 1..Len(order)
      PROVE  /\ BlockSteps(a, order[j], ph) \in Seq(StepSet(f))
             /\ Len(BlockSteps(a, order[j], ph)) = BlockCount[a][order[j]][ph]
  <2>1. BlockCount[a][order[j]][ph] \in Nat /\ order[j] \in DevicesOf(f)
    BY <1>1, <1>2
  <2>2. \A n \in 1..BlockCount[a][order[j]][ph] :
          [kind |-> "block", device |-> order[j], phase |-> ph, n |-> n] \in StepSet(f)
    BY <1>1, <2>1 DEF StepSet
  <2> QED
    BY <2>1, <2>2 DEF BlockSteps
<1>4. on \in Seq(Seq(StepSet(f))) /\ Len(on) = Len(order)
  BY <1>2, <1>3
<1>5. ises \in Seq(StepSet(f)) /\ gates \in Seq(StepSet(f))
  <2>1. [kind |-> "ise", device |-> None, phase |-> ph, n |-> 0] \in StepSet(f)
    BY <1>1 DEF StepSet
  <2>2. ises \in Seq(StepSet(f))
    BY <2>1 DEF IseSteps
  <2>3. \A n \in 1..Gates[ph] :
          [kind |-> "gate", device |-> None, phase |-> ph, n |-> n] \in StepSet(f)
    BY <1>1 DEF StepSet
  <2>4. gates \in Seq(StepSet(f))
    BY <1>1, <2>3 DEF GateSteps
  <2> QED
    BY <2>2, <2>4
<1>6. ASSUME NEW d \in DevicesOf(f), NEW n \in 1..BlockCount[a][d][ph]
      PROVE  \E k \in 1..Len(FlattenSeq(on)) : FlattenSeq(on)[k] = BlockStep(d, ph, n)
  <2>1. PICK j \in 1..Len(order) : order[j] = d
    BY DEF DevicesOf, order
  <2>2. /\ n \in 1..Len(on[j]) /\ on[j][n] = BlockStep(d, ph, n) /\ j \in 1..Len(on)
    BY <1>3, <1>4, <2>1 DEF BlockSteps, BlockStep
  <2> HIDE DEF on
  <2>3. \E k \in 1..Len(FlattenSeq(on)) : FlattenSeq(on)[k] = on[j][n]
    BY <1>4, <2>2, FlattenHas
  <2> QED
    BY <2>2, <2>3
<1>7. FlattenSeq(on) \in Seq(StepSet(f))
  <2> HIDE DEF on
  <2> QED
    BY <1>4, FlattenGathers
<1> DEFINE flat == FlattenSeq(on)
           all == ises \o flat \o gates
<1>8. PhaseSteps(a, f, Phases[i]) = all
  BY DEF PhaseSteps, ph, order
<1> HIDE DEF on, ises, gates
<1>9. \A k \in 1..Len(flat) : \E m \in 1..Len(all) : all[m] = flat[k]
  <2> HIDE DEF flat
  <2> SUFFICES ASSUME NEW k \in 1..Len(flat)
               PROVE  \E m \in 1..Len(all) : all[m] = flat[k]
    OBVIOUS
  <2>1. /\ Len(ises) \in Nat /\ Len(flat) \in Nat /\ Len(gates) \in Nat
        /\ ises \o flat \in Seq(StepSet(f))
        /\ Len(ises \o flat) = Len(ises) + Len(flat)
        /\ (ises \o flat)[Len(ises) + k] = flat[k]
    BY <1>5, <1>7 DEF flat
  <2>2. Len(ises) + k \in 1..Len(ises \o flat)
    BY <2>1
  <2>3. Len(ises) + k \in 1..Len(all) /\ all[Len(ises) + k] = flat[k]
    BY <1>5, <2>1, <2>2
  <2> QED
    BY <2>3
<1>10. all \in Seq(StepSet(f))
  BY <1>5, <1>7
<1> QED
  BY <1>6, <1>8, <1>9, <1>10 DEF Sends, ph

\* The program of an artifact is a sequence of steps, and sends every block.
LEMMA ProgramSends ==
  ASSUME NEW a \in Artifacts, NEW f \in Fabrics
  PROVE  /\ Program(a, f) \in Seq(StepSet(f))
         /\ \A d \in DevicesOf(f), i \in 1..Len(Phases) :
              Sends(Program(a, f), a, d, Phases[i])
<1> DEFINE by == [i \in 1..Len(Phases) |-> PhaseSteps(a, f, Phases[i])]
<1>1. Len(Phases) \in Nat
  BY PhaseAssumption
<1>2. by \in Seq(Seq(StepSet(f))) /\ Len(by) = Len(Phases)
      /\ \A i \in 1..Len(Phases) : by[i] = PhaseSteps(a, f, Phases[i])
  BY <1>1, PhaseProgram
<1>3. Program(a, f) = FlattenSeq(by)
  BY DEF Program
<1> HIDE DEF by
<1>4. FlattenSeq(by) \in Seq(StepSet(f)) /\ Gathers(FlattenSeq(by), by, Len(by))
  BY <1>2, FlattenGathers
<1>5. ASSUME NEW d \in DevicesOf(f), NEW i \in 1..Len(Phases),
             NEW n \in 1..BlockCount[a][d][Phases[i]]
      PROVE  \E k \in 1..Len(Program(a, f)) :
               Program(a, f)[k] = BlockStep(d, Phases[i], n)
  <2>1. Sends(by[i], a, d, Phases[i])
    BY <1>2, PhaseProgram
  <2>2. PICK m \in 1..Len(by[i]) : by[i][m] = BlockStep(d, Phases[i], n)
    BY <2>1 DEF Sends
  <2>3. \E k \in 1..Len(FlattenSeq(by)) : FlattenSeq(by)[k] = by[i][m]
    BY <1>2, FlattenHas
  <2> QED
    BY <1>3, <2>2, <2>3
<1> QED
  BY <1>3, <1>4, <1>5 DEF Sends

-----------------------------------------------------------------------------
(* What a process has delivered so far. *)

Placed(s, a, f, cfg, objects) ==
  /\ s.kind = "block" => s.device \in DevicesOf(f) /\ Block(a, s) \in cfg[s.device]
  /\ s.kind = "ise" => IseObjects(a) \in objects

\* While it applies, the steps before the current one are in place.
Arrived(l, a, f, cfg, objects) ==
  l.pc = "apply" =>
    /\ l.pos \in Nat \ {0}
    /\ \A k \in 1..Len(Program(a, f)) :
         k < l.pos => Placed(Program(a, f)[k], a, f, cfg, objects)

ArrivedBy(w) ==
  Arrived(worker[w], ArtifactOf(w), FabricOfW(w), config, ise[FabricOfW(w)])

DeliveryInv == UnwindInv /\ \A w \in Workers : Live(w) => ArrivedBy(w)

\* The run of a live process keeps its artifact and its fabric.
LEMMA RowOf ==
  ASSUME WorkerInv, [WNext]_vars, NEW w \in Workers, Live(w),
         worker'[w].run = worker[w].run
  PROVE  /\ RunOf(w)' = RunOf(w) /\ FabricOfW(w)' = FabricOfW(w)
         /\ ArtifactOf(w)' = ArtifactOf(w)
         /\ ArtifactOf(w) \in Artifacts /\ FabricOfW(w) \in Fabrics
         /\ Program(ArtifactOf(w), FabricOfW(w)) \in Seq(StepSet(FabricOfW(w)))
<1>1. /\ RunOf(w) \in Runs /\ Created(RunOf(w)) /\ RunOf(w)' = RunOf(w)
      /\ FabricOfW(w) \in Fabrics
  BY LiveFacts DEF RunOf
<1>2. ArtifactOf(w) \in Artifacts
  BY <1>1 DEF WorkerInv, LockInv, RunComplete, ArtifactOf
<1>3. FabricOfW(w)' = FabricOfW(w) /\ ArtifactOf(w)' = ArtifactOf(w)
  BY <1>1, RowStays DEF FabricOfW, ArtifactOf
<1> QED
  BY <1>1, <1>2, <1>3, ProgramSends

LEMMA ArrivedAside ==
  ASSUME DeliveryInv, [WNext]_vars, NEW x \in Workers, Untouched(x)
  PROVE  ArrivedBy(x)'
<1> DEFINE a == ArtifactOf(x)
           f == FabricOfW(x)
<1>1. WorkerInv /\ Live(x) /\ ArrivedBy(x)
  BY DEF DeliveryInv, UnwindInv, Untouched
<1>2. FabricOfW(x)' = f /\ ArtifactOf(x)' = a
  BY <1>1, RowOf DEF Untouched
<1>3. Arrived(worker[x], a, f, config, ise[f])
  BY <1>1 DEF ArrivedBy
<1>4. /\ worker'[x] = worker[x] /\ ise'[f] = ise[f]
      /\ \A d \in DevicesOf(f) : config'[d] = config[d]
  BY DEF Untouched
<1> HIDE DEF a, f
<1>5. Arrived(worker[x], a, f, config', ise[f])
  BY <1>3, <1>4 DEF Arrived, Placed
<1> QED
  BY <1>2, <1>4, <1>5 DEF ArrivedBy, a, f

\* A process that goes on with the next step has put this one in place.
LEMMA ArrivesNext ==
  ASSUME NEW l, NEW k, NEW a \in Artifacts, NEW f \in Fabrics,
         NEW cfg, NEW objects, NEW new, NEW more,
         Arrived(l, a, f, cfg, objects), l.pc = "apply",
         k.pc = "apply" => k.pos = l.pos + 1,
         \A d \in DevicesOf(f) : cfg[d] \subseteq new[d],
         objects \subseteq more,
         k.pc = "apply" => Placed(Program(a, f)[l.pos], a, f, new, more)
  PROVE  Arrived(k, a, f, new, more)
<1> SUFFICES ASSUME k.pc = "apply"
             PROVE  /\ k.pos \in Nat \ {0}
                    /\ \A m \in 1..Len(Program(a, f)) :
                         m < k.pos => Placed(Program(a, f)[m], a, f, new, more)
  BY DEF Arrived
<1>1. k.pos = l.pos + 1 /\ l.pos \in Nat \ {0}
  BY DEF Arrived
<1>2. Len(Program(a, f)) \in Nat
  BY ProgramSends
<1>3. ASSUME NEW m \in 1..Len(Program(a, f)), m < k.pos
      PROVE  Placed(Program(a, f)[m], a, f, new, more)
  <2>1. CASE m = l.pos
    BY <2>1
  <2>2. CASE m < l.pos
    BY <2>2 DEF Arrived, Placed
  <2> QED
    BY <1>1, <1>3, <2>1, <2>2
<1> QED
  BY <1>1, <1>3

\* What a process has delivered after its own step.
LEMMA OwnArrived ==
  ASSUME UnwindInv, NEW w \in Workers, WorkerStep(w), Live(w),
         worker'[w].run = worker[w].run,
         Arrived(worker'[w], ArtifactOf(w), FabricOfW(w), config', ise'[FabricOfW(w)])
  PROVE  ArrivedBy(w)'
<1>1. WorkerInv /\ [WNext]_vars
  BY DEF UnwindInv, WNext
<1>2. FabricOfW(w)' = FabricOfW(w) /\ ArtifactOf(w)' = ArtifactOf(w)
  BY <1>1, RowOf
<1> QED
  BY <1>2 DEF ArrivedBy

LEMMA BlockArrives ==
  ASSUME DeliveryInv, NEW w \in Workers, ApplyBlock(w)
  PROVE  ArrivedBy(w)'
<1> DEFINE l == worker[w]
           k == worker'[w]
           a == ArtifactOf(w)
           f == FabricOfW(w)
           d == CurrentStep(w).device
           e == Block(a, CurrentStep(w))
<1>1. WorkerStep(w) /\ l.pc = "apply" /\ UnwindInv
  BY DEF ApplyBlock, AtStep, WorkerStep, DeliveryInv
<1>2. WorkerInv /\ [WNext]_vars /\ Live(w) /\ ArrivedBy(w)
  BY <1>1, StepContext DEF DeliveryInv
<1>3. /\ UNCHANGED ise /\ d \in DevicesOf(f) /\ CurrentStep(w).kind = "block"
      /\ CurrentStep(w) = Program(a, f)[l.pos]
  BY DEF ApplyBlock, AtStep, CurrentStep, StepsOf
<1>4. f \in Fabrics /\ a \in Artifacts
  BY <1>2, LiveFacts DEF WorkerInv, LockInv, RunComplete, ArtifactOf
<1>5. /\ DevicesOf(f) \subseteq Devices
      /\ config = [x \in Devices |-> config[x]]
  BY <1>1, <1>4 DEF UnwindInv, WorldShape, Devices, DevicesOf
<1>6. /\ k.run = l.run
      /\ \/ /\ k.pc = "apply" /\ k.pos = l.pos + 1
            /\ config' = [config EXCEPT ![d] = config[d] \cup {e}]
         \/ /\ k.pc = "failed"
            /\ config' \in {config, [config EXCEPT ![d] = config[d] \cup {e}]}
  <2>1. CASE /\ config' = [config EXCEPT ![d] = config[d] \cup {e}]
             /\ worker' = [worker EXCEPT ![w].changed = Marked(w, d, TRUE),
                                         ![w].pos = l.pos + 1]
    <3>1. Fields(k, l, l.pc, l.pos + 1, l.ckpt, Marked(w, d, TRUE), l.journal, l.failed)
      BY <1>2, <2>1, StepFields
    <3> QED
      BY <1>1, <2>1, <3>1 DEF Fields
  <2>2. CASE /\ config' \in {config, [config EXCEPT ![d] = config[d] \cup {e}]}
             /\ worker' = [worker EXCEPT ![w].changed = Marked(w, d, FALSE),
                                         ![w].pc = "failed"]
    <3>1. Fields(k, l, "failed", l.pos, l.ckpt, Marked(w, d, FALSE), l.journal, l.failed)
      BY <1>2, <2>2, StepFields
    <3> QED
      BY <2>2, <3>1 DEF Fields
  <2>3. CASE Raise(w) /\ UNCHANGED config
    BY <1>2, <2>3, GotoFields DEF Raise, Fields
  <2> QED
    BY <2>1, <2>2, <2>3 DEF ApplyBlock
<1>7. Arrived(l, a, f, config, ise[f])
  BY <1>2 DEF ArrivedBy
<1> HIDE DEF k, l, a, f, d
<1>8. /\ \A x \in DevicesOf(f) : config[x] \subseteq config'[x]
      /\ k.pc = "apply" => e \in config'[d]
  BY <1>3, <1>5, <1>6
<1>9. k.pc = "apply" => Placed(Program(a, f)[l.pos], a, f, config', ise[f])
  BY <1>3, <1>8 DEF Placed, d
<1>10. Arrived(k, a, f, config', ise[f])
  BY <1>1, <1>4, <1>6, <1>7, <1>8, <1>9, ArrivesNext
<1> QED
  BY <1>1, <1>2, <1>3, <1>6, <1>10, OwnArrived DEF k, l, a, f

LEMMA ObjectsArrive ==
  ASSUME DeliveryInv, NEW w \in Workers, ApplyIse(w)
  PROVE  ArrivedBy(w)'
<1> DEFINE l == worker[w]
           k == worker'[w]
           a == ArtifactOf(w)
           f == FabricOfW(w)
           wants == {IseObjects(a)} \ ise[f]
<1>1. WorkerStep(w) /\ l.pc = "apply" /\ UnwindInv
  BY DEF ApplyIse, AtStep, WorkerStep, DeliveryInv
<1>2. /\ WorkerInv /\ [WNext]_vars /\ Live(w) /\ ArrivedBy(w)
      /\ ise = [g \in Fabrics |-> ise[g]]
  BY <1>1, StepContext DEF DeliveryInv, UnwindInv, WorldShape
<1>3. /\ UNCHANGED config /\ CurrentStep(w).kind = "ise"
      /\ CurrentStep(w) = Program(a, f)[l.pos]
  BY DEF ApplyIse, AtStep, CurrentStep, StepsOf
<1>4. f \in Fabrics /\ a \in Artifacts
  BY <1>2, LiveFacts DEF WorkerInv, LockInv, RunComplete, ArtifactOf
<1>5. PICK sent \in SUBSET wants :
        /\ ise' \in {ise, [ise EXCEPT ![f] = ise[f] \cup sent]}
        /\ \/ /\ sent = wants /\ ise' = [ise EXCEPT ![f] = ise[f] \cup sent]
              /\ worker' = [worker EXCEPT ![w].journal = @ \cup sent, ![w].pos = l.pos + 1]
           \/ worker' = [worker EXCEPT ![w].journal = @ \cup sent, ![w].pc = "failed"]
  BY DEF ApplyIse
<1>6. /\ k.run = l.run
      /\ \/ /\ k.pc = "apply" /\ k.pos = l.pos + 1
            /\ sent = wants /\ ise' = [ise EXCEPT ![f] = ise[f] \cup sent]
         \/ k.pc = "failed"
  <2>1. CASE /\ sent = wants /\ ise' = [ise EXCEPT ![f] = ise[f] \cup sent]
             /\ worker' = [worker EXCEPT ![w].journal = l.journal \cup sent,
                                         ![w].pos = l.pos + 1]
    <3>1. Fields(k, l, l.pc, l.pos + 1, l.ckpt, l.changed, l.journal \cup sent, l.failed)
      BY <1>2, <2>1, StepFields
    <3> QED
      BY <1>1, <2>1, <3>1 DEF Fields
  <2>2. CASE worker' = [worker EXCEPT ![w].journal = l.journal \cup sent,
                                      ![w].pc = "failed"]
    <3>1. Fields(k, l, "failed", l.pos, l.ckpt, l.changed, l.journal \cup sent, l.failed)
      BY <1>2, <2>2, StepFields
    <3> QED
      BY <3>1 DEF Fields
  <2> QED
    BY <1>5, <2>1, <2>2
<1>7. Arrived(l, a, f, config, ise[f])
  BY <1>2 DEF ArrivedBy
<1> HIDE DEF k, l, a, f
<1>8. /\ ise[f] \subseteq ise'[f]
      /\ k.pc = "apply" => IseObjects(a) \in ise'[f]
  BY <1>2, <1>4, <1>5, <1>6
<1>9. k.pc = "apply" => Placed(Program(a, f)[l.pos], a, f, config, ise'[f])
  BY <1>3, <1>8 DEF Placed
<1>10. Arrived(k, a, f, config, ise'[f])
  BY <1>1, <1>4, <1>6, <1>7, <1>8, <1>9, ArrivesNext
<1> QED
  BY <1>1, <1>2, <1>3, <1>6, <1>10, OwnArrived DEF k, l, a, f

LEMMA GateArrives ==
  ASSUME DeliveryInv, NEW w \in Workers, CheckGate(w)
  PROVE  ArrivedBy(w)'
<1> DEFINE l == worker[w]
           k == worker'[w]
           a == ArtifactOf(w)
           f == FabricOfW(w)
<1>1. WorkerStep(w) /\ l.pc = "apply" /\ UnwindInv
  BY DEF CheckGate, AtStep, WorkerStep, DeliveryInv
<1>2. WorkerInv /\ [WNext]_vars /\ Live(w) /\ ArrivedBy(w)
  BY <1>1, StepContext DEF DeliveryInv
<1>3. UNCHANGED <<config, ise>> /\ Program(a, f)[l.pos].kind = "gate"
  BY DEF CheckGate, AtStep, CurrentStep, StepsOf, worldVars
<1>4. f \in Fabrics /\ a \in Artifacts
  BY <1>2, LiveFacts DEF WorkerInv, LockInv, RunComplete, ArtifactOf
<1>5. /\ k.run = l.run
      /\ k.pc = "apply" => k.pos = l.pos + 1
  <2>1. CASE worker' = [worker EXCEPT ![w].pos = l.pos + 1]
    <3>1. Fields(k, l, l.pc, l.pos + 1, l.ckpt, l.changed, l.journal, l.failed)
      BY <1>2, <2>1, StepFields
    <3> QED
      BY <3>1 DEF Fields
  <2>2. CASE Raise(w)
    BY <1>2, <2>2, GotoFields DEF Raise, Fields
  <2> QED
    BY <2>1, <2>2 DEF CheckGate
<1>6. Arrived(l, a, f, config, ise[f])
  BY <1>2 DEF ArrivedBy
<1>7. Placed(Program(a, f)[l.pos], a, f, config, ise[f])
  BY <1>3 DEF Placed
<1> HIDE DEF k, l, a, f
<1>8. Arrived(k, a, f, config, ise[f])
  BY <1>1, <1>4, <1>5, <1>6, <1>7, ArrivesNext
<1> QED
  BY <1>1, <1>2, <1>3, <1>5, <1>8, OwnArrived DEF k, l, a, f

\* It begins to apply with the first step.
LEMMA CheckpointArrives ==
  ASSUME DeliveryInv, NEW w \in Workers, Checkpoint(w)
  PROVE  ArrivedBy(w)'
<1> DEFINE l == worker[w]
           k == worker'[w]
           d == DeviceOrder[FabricOfW(w)][l.pos]
           last == (l.pos = Len(DeviceOrder[FabricOfW(w)]))
<1>1. WorkerStep(w) /\ l.pc = "checkpoint" /\ UnwindInv
  BY DEF Checkpoint, WorkerStep, DeliveryInv
<1>2. WorkerInv /\ [WNext]_vars /\ Live(w) /\ FabricOfW(w) \in Fabrics
  BY <1>1, StepContext
<1>3. k.run = l.run /\ (k.pc = "apply" => k.pos = 1)
  <2>1. CASE worker' = [worker EXCEPT
                          ![w].ckpt = Append(@, d),
                          ![w].pos  = IF last THEN 1 ELSE @ + 1,
                          ![w].pc   = IF last THEN "apply" ELSE @]
    <3>1. Fields(k, l, IF last THEN "apply" ELSE l.pc, IF last THEN 1 ELSE l.pos + 1,
                 Append(l.ckpt, d), l.changed, l.journal, l.failed)
      BY <1>2, <2>1, CheckpointFields
    <3> QED
      BY <1>1, <3>1 DEF Fields
  <2>2. CASE Raise(w)
    BY <1>2, <2>2, GotoFields DEF Raise, Fields
  <2> QED
    BY <2>1, <2>2 DEF Checkpoint
<1>4. Len(Program(ArtifactOf(w), FabricOfW(w))) \in Nat
  BY <1>2, <1>3, RowOf
<1>5. Arrived(k, ArtifactOf(w), FabricOfW(w), config', ise'[FabricOfW(w)])
  BY <1>3, <1>4 DEF Arrived
<1> QED
  BY <1>1, <1>2, <1>3, <1>5, OwnArrived

\* No other step of a process leads to applying.
LEMMA OnlyThese ==
  ASSUME DeliveryInv, NEW w \in Workers, WorkerStep(w), Live(w)',
         worker'[w].pc = "apply"
  PROVE  ApplyBlock(w) \/ ApplyIse(w) \/ CheckGate(w) \/ Checkpoint(w)
<1>1. WorkerInv
  BY DEF DeliveryInv, UnwindInv
<1>2. \A pc : Goto(w, pc) => worker'[w].pc = pc
  BY <1>1, GotoFields DEF Fields
<1>3. ~Exit(w)
  BY <1>1, ExitNotLive
<1>4. ASSUME Handle(w)
      PROVE  FALSE
  <2>1. worker' = [worker EXCEPT ![w].changed = ToRollBack(w), ![w].pc = "rollback"]
    BY <1>3, <1>4 DEF Handle, HandleFailure
  <2>2. Fields(worker'[w], worker[w], "rollback", worker[w].pos, worker[w].ckpt,
               ToRollBack(w), worker[w].journal, worker[w].failed)
    BY <1>1, <2>1, StepFields
  <2> QED
    BY <2>2 DEF Fields
<1>5. ASSUME RollBackDevice(w)
      PROVE  FALSE
  <2> DEFINE rest == Front(worker[w].changed)
  <2>1. \/ worker' = [worker EXCEPT ![w].changed = rest]
        \/ worker' = [worker EXCEPT ![w].changed = rest, ![w].failed = TRUE]
    BY <1>5 DEF RollBackDevice
  <2>2. \E failed : Fields(worker'[w], worker[w], worker[w].pc, worker[w].pos,
                           worker[w].ckpt, rest, worker[w].journal, failed)
    BY <1>1, <2>1, StepFields
  <2> QED
    BY <1>5, <2>2 DEF Fields, RollBackDevice
<1>6. ASSUME RollBackIse(w)
      PROVE  FALSE
  <2>1. \/ worker' = [worker EXCEPT ![w].journal = {}]
        \/ worker' = [worker EXCEPT ![w].journal = {}, ![w].failed = TRUE]
    BY <1>6 DEF RollBackIse
  <2>2. \E failed : Fields(worker'[w], worker[w], worker[w].pc, worker[w].pos,
                           worker[w].ckpt, worker[w].changed, {}, failed)
    BY <1>1, <2>1, StepFields
  <2> QED
    BY <1>6, <2>2 DEF Fields, RollBackIse
<1>7. ~Begin(w) /\ ~Precheck(w) /\ ~Complete(w) /\ ~CommitReservation(w) /\ ~Finish(w)
  BY <1>2, <1>3 DEF Begin, Precheck, Complete, CommitReservation, Finish, Raise
<1>8. ~RefuseBlocked(w) /\ ~PreflightFails(w) /\ ~Settle(w)
  BY <1>3 DEF RefuseBlocked, PreflightFails, Settle
<1> QED
  BY <1>4, <1>5, <1>6, <1>7, <1>8 DEF WorkerStep

LEMMA NextArrived ==
  ASSUME Recovery \in {"none", "dead"}, DeliveryInv, [WNext]_vars,
         NEW w \in Workers, Live(w)'
  PROVE  ArrivedBy(w)'
<1>1. CASE Untouched(w)
  BY <1>1, ArrivedAside
<1>2. CASE WorkerStep(w) /\ worker'[w].pc = "apply"
  BY <1>2, OnlyThese, BlockArrives, ObjectsArrive, GateArrives, CheckpointArrives
<1>3. CASE worker'[w].pc # "apply"
  BY <1>3 DEF ArrivedBy, Arrived
<1> QED
  BY <1>1, <1>2, <1>3, NextAside DEF DeliveryInv

-----------------------------------------------------------------------------
(* The theorems on delivery. *)

\* At every instant the steps that a process has behind it are in place on the
\* devices and on ISE (worker.process_apply, the loop over the phases).
THEOREM DeliveryInvariant ==
  ASSUME Recovery \in {"none", "dead"}
  PROVE  WSpec => []DeliveryInv
<1>1. WInit /\ UnwindInv => DeliveryInv
  BY DEF WInit, DeliveryInv, Live, Engaged, Idle, At
<1>2. DeliveryInv /\ UnwindInv' /\ [WNext]_vars => DeliveryInv'
  BY NextArrived DEF DeliveryInv
<1> QED
  BY <1>1, <1>2, UnwindInvariant, PTL DEF WSpec

\* The steps are behind, so each of them is in place.
LEMMA CompleteIsWhole ==
  ASSUME DeliveryInv, NEW w \in Workers, Complete(w),
         CompleteApply(RunOf(w), ArtifactOf(w)), IseBound(w)
  PROVE  LET a == ArtifactOf(w)
             f == FabricOfW(w)
         IN /\ \A d \in DevicesOf(f), i \in 1..Len(Phases) :
                 \A n \in 1..BlockCount[a][d][Phases[i]] :
                   <<a, Phases[i], n>> \in config[d]
            /\ a \in IseArtifacts => IseObjects(a) \in ise[f]
<1> DEFINE a == ArtifactOf(w)
           f == FabricOfW(w)
           program == Program(a, f)
<1>1. /\ WorkerStep(w) /\ worker[w].pc = "apply" /\ UnwindInv
      /\ worker[w].pos > Len(program)
  BY DEF Complete, WorkerStep, DeliveryInv, StepsDone, StepsOf
<1>2. WorkerInv /\ Live(w) /\ ArrivedBy(w)
  BY <1>1, StepContext DEF DeliveryInv
<1>3. f \in Fabrics /\ a \in Artifacts
  BY <1>2, LiveFacts DEF WorkerInv, LockInv, RunComplete, ArtifactOf
<1>4. a \in IseArtifacts => \E i \in 1..Len(program) : program[i].kind = "ise"
  BY DEF IseBound, StepsOf
<1> HIDE DEF a, f
<1>5. /\ program \in Seq(StepSet(f))
      /\ \A d \in DevicesOf(f), i \in 1..Len(Phases) : Sends(program, a, d, Phases[i])
  BY <1>3, ProgramSends
<1>6. \A k \in 1..Len(program) : Placed(program[k], a, f, config, ise[f])
  <2>1. Len(program) \in Nat /\ worker[w].pos \in Nat
    BY <1>1, <1>2, <1>5 DEF ArrivedBy, Arrived
  <2>2. \A k \in 1..Len(program) : k < worker[w].pos
    BY <1>1, <2>1
  <2> QED
    BY <1>1, <1>2, <2>2 DEF ArrivedBy, Arrived, a, f
<1> HIDE DEF program
<1>7. ASSUME NEW d \in DevicesOf(f), NEW i \in 1..Len(Phases),
             NEW n \in 1..BlockCount[a][d][Phases[i]]
      PROVE  <<a, Phases[i], n>> \in config[d]
  <2>1. Sends(program, a, d, Phases[i])
    BY <1>5
  <2>2. PICK k \in 1..Len(program) : program[k] = BlockStep(d, Phases[i], n)
    BY <2>1 DEF Sends
  <2> QED
    BY <1>6, <2>2 DEF Placed, BlockStep, Block
<1>8. a \in IseArtifacts => IseObjects(a) \in ise[f]
  BY <1>4, <1>6 DEF Placed
<1> QED
  BY <1>7, <1>8 DEF a, f

\* Only complete_apply makes a run succeed.
LEMMA OnlyCompletion ==
  ASSUME UnwindInv, [WNext]_vars, NEW r \in Runs,
         runs[r].status # "apply_succeeded", runs'[r].status = "apply_succeeded"
  PROVE  \E w \in Workers : /\ Complete(w) /\ r = RunOf(w) /\ IseBound(w)
                            /\ CompleteApply(RunOf(w), ArtifactOf(w))
<1>1. WorkerInv /\ runs' # runs
  BY DEF UnwindInv
<1>2. ASSUME NEW q \in Runs, NEW s \in RunStatus, TransitionRun(q, s)
      PROVE  s = "apply_succeeded"
  BY <1>1, <1>2, MoveFrom
<1>3. ~ClientStep
  <2>1. ASSUME NEW q \in Runs, NEW p \in Plans, NEW m \in {"dry_run", "apply"},
               NEW k \in Keys, NEW s \in 0..Horizon, NEW e \in 0..Horizon,
               CreateRun(q, p, m, k, s, e)
        PROVE  FALSE
    BY <1>1, <2>1 DEF CreateRun, WorkerInv, LockInv, TypeOK
  <2>2. ~SimulateNext
    BY <1>2 DEF SimulateNext, Simulated, RunStatus, DryRunActive, Terminal
  <2> QED
    BY <1>1, <2>1, <2>2
    DEF ClientStep, DesignNext, SaveIntent, ReserveDesign, SavePlan,
        GovernNext, RecordApproval, RecordAdoptedOwnedState, Tick
<1>4. ~OperatorStep
  BY <1>1, <1>2, WorkerStatuses
  DEF OperatorStep, OperatorRecover, OperatorRestore, OperatorRelease,
      TransitionReservation, storeVars
<1>5. PICK w \in Workers : WorkerStep(w)
  BY <1>1, <1>3, <1>4 DEF WNext, Start, Crash, vars, storeVars
<1>6. worker[w].pc # "idle" => RunOf(w) \in Runs
  BY <1>1, LocalFacts
<1>7. CompleteApply(RunOf(w), ArtifactOf(w)) /\ Complete(w) /\ IseBound(w)
  BY <1>1, <1>2, <1>5, <1>6, WorkerStatuses
  DEF WorkerStep, RefuseBlocked, PreflightFails, Begin, Precheck, Checkpoint,
      ApplyBlock, ApplyIse, CheckGate, Complete, CommitReservation, Handle,
      HandleFailure, RollBackDevice, RollBackIse, Finish, Outcome, Settle,
      Refused, TransitionReservation, ReservationRefused, storeVars
<1>8. r = RunOf(w)
  BY <1>1, <1>7 DEF CompleteApply, WorkerInv, LockInv, TypeOK
<1> QED
  BY <1>7, <1>8

LEMMA NextWhole ==
  ASSUME DeliveryInv, [WNext]_vars, NEW r \in Runs,
         runs[r].status # "apply_succeeded", runs'[r].status = "apply_succeeded"
  PROVE  LET a == runs[r].artifact
             f == runs[r].fabric
         IN /\ \A d \in DevicesOf(f), i \in 1..Len(Phases) :
                 \A n \in 1..BlockCount[a][d][Phases[i]] :
                   <<a, Phases[i], n>> \in config'[d]
            /\ a \in IseArtifacts => IseObjects(a) \in ise'[f]
<1>1. PICK w \in Workers : /\ Complete(w) /\ r = RunOf(w) /\ IseBound(w)
                           /\ CompleteApply(RunOf(w), ArtifactOf(w))
  BY OnlyCompletion DEF DeliveryInv
<1>2. config' = config /\ ise' = ise
  BY <1>1 DEF Complete, worldVars
<1> QED
  BY <1>1, <1>2, CompleteIsWhole DEF ArtifactOf, FabricOfW

\* A run succeeds only with every block of its artifact on its device and
\* every ISE object in place (worker.process_apply up to complete_apply), for
\* every plan, number of devices, phases and blocks, whichever other runs
\* were applied, rolled back or recovered meanwhile.
THEOREM SuccessWhole ==
  ASSUME Recovery \in {"none", "dead"}
  PROVE  WSpec => SuccessIsWhole
<1>1. DeliveryInv /\ [WNext]_vars =>
        [\A r \in Runs :
           runs[r].status # "apply_succeeded" /\ runs'[r].status = "apply_succeeded"
           => LET a == runs[r].artifact
                  f == runs[r].fabric
              IN /\ \A d \in DevicesOf(f), i \in 1..Len(Phases) :
                      \A n \in 1..BlockCount[a][d][Phases[i]] :
                        <<a, Phases[i], n>> \in config'[d]
                 /\ a \in IseArtifacts => IseObjects(a) \in ise'[f]]_vars
  BY NextWhole
<1> QED
  BY <1>1, DeliveryInvariant, PTL DEF WSpec, SuccessIsWhole
=============================================================================
