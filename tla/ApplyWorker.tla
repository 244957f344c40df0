---------------------------- MODULE ApplyWorker ----------------------------
(***************************************************************************)
(* Worker processes that execute queued apply runs                         *)
(* (src/orchestrator/worker.py, worker_runtime.py) against the devices and *)
(* the ISE server of a fabric, on top of the store of RunStore.            *)
(*                                                                         *)
(* A worker is one process per run; nothing but the status of the run      *)
(* keeps a second process from starting on it.  Between two steps of a     *)
(* worker other workers, the HTTP clients, the clock and an operator may   *)
(* act, every call to a device, to ISE or to the store may fail, and the   *)
(* process may die.                                                        *)
(*                                                                         *)
(* Data abstraction.  A configuration block is the triple of the artifact, *)
(* the phase and its number; a device holds the set of blocks it accepted. *)
(* A failed call leaves a block accepted or not.  ISE holds one object set *)
(* per artifact; what happens inside its transaction is not told apart.    *)
(***************************************************************************)
EXTENDS RunStore, SequencesExt


CONSTANTS
  Workers,
  DeviceOrder,    \* the devices of a fabric, sorted by identifier
  Phases,         \* ordered_phases: the plan's phases that change something
  BlockCount,     \* blocks of an artifact for a device in a phase
  Gates,          \* the gates of a phase, after its blocks
  IseArtifacts,   \* artifacts with an external_systems.ise manifest
  Blocked,        \* artifacts with blockers that a process may not consume
  MayCrash,       \* whether a worker process may die
  Recovery        \* "none", "dead": an operator recovers runs whose worker is
                  \* gone, "presumed": or runs whose worker seems to be gone

VARIABLES
  worker,         \* the local state of each worker process
  config,         \* running configuration of each device
  ise,            \* policy objects of each fabric on the ISE server
  flash,          \* checkpoint files of each run on its devices
  before          \* history: the fabric when the run became apply_running

worldVars == <<config, ise, flash, before>>
vars == <<storeVars, worker, worldVars>>

Devices      == UNION {{DeviceOrder[f][i] : i \in 1..Len(DeviceOrder[f])} :
                         f \in Fabrics}
DevicesOf(f) == {DeviceOrder[f][i] : i \in 1..Len(DeviceOrder[f])}

\* An intent has devices (intent.py: roles.*.required).  That a device is in one
\* fabric only is not checked; it is left to the people who write the intents.
ASSUME DeviceAssumption ==
  /\ \A f \in Fabrics : /\ DeviceOrder[f] \in Seq(DevicesOf(f))
                        /\ DeviceOrder[f] # <<>>
  /\ \A f, g \in Fabrics : DevicesOf(f) \cap DevicesOf(g) # {} => f = g

\* A phase has a number of gates, and of blocks for each artifact and device.
ASSUME PhaseAssumption ==
  /\ Phases \in Seq(DOMAIN Gates) /\ Gates \in [DOMAIN Gates -> Nat]
  /\ \A a \in Artifacts, d \in Devices, i \in 1..Len(Phases) :
       BlockCount[a][d][Phases[i]] \in Nat

-----------------------------------------------------------------------------
(* The steps of an artifact, in the order of the loops of process_apply. *)

\* Fault: the number of blocks is taken for the index of the last one.
BlockStepsShort(a, d, ph) ==
  [n \in 1..(IF BlockCount[a][d][ph] = 0 THEN 0 ELSE BlockCount[a][d][ph] - 1) |->
     [kind |-> "block", device |-> d, phase |-> ph, n |-> n]]

BlockSteps(a, d, ph) ==
  [n \in 1..BlockCount[a][d][ph] |->
     [kind |-> "block", device |-> d, phase |-> ph, n |-> n]]

IseSteps(a, ph) ==
  IF ph = "policy_plane" /\ a \in IseArtifacts
  THEN <<[kind |-> "ise", device |-> None, phase |-> ph, n |-> 0]>>
  ELSE <<>>

GateSteps(ph) ==
  [n \in 1..Gates[ph] |->
     [kind |-> "gate", device |-> None, phase |-> ph, n |-> n]]

PhaseSteps(a, f, ph) ==
  IseSteps(a, ph)
    \o FlattenSeq([i \in 1..Len(DeviceOrder[f]) |->
                     BlockSteps(a, DeviceOrder[f][i], ph)])
    \o GateSteps(ph)

Program(a, f) ==
  FlattenSeq([i \in 1..Len(Phases) |-> PhaseSteps(a, f, Phases[i])])

Block(a, step)  == <<a, step.phase, step.n>>
IseObjects(a)   == <<a, "policy_plane", 0>>

-----------------------------------------------------------------------------
(* The local state of a process.                                            *)
(*   ckpt     devices in `checkpoints`, which are made in sorted order      *)
(*   changed  changed_devices while applying, then those left to roll back  *)
(*   journal  ISE objects written, or about to be: has_changes              *)
(*   failed   rollback_failures is not empty                                *)
At(pc, r) == [pc |-> pc, run |-> r, pos |-> 1, ckpt |-> <<>>,
              changed |-> <<>>, journal |-> {}, failed |-> FALSE]
Idle == At("idle", None)

RunOf(w)    == worker[w].run
FabricOfW(w) == runs[RunOf(w)].fabric
ArtifactOf(w) == runs[RunOf(w)].artifact
ReservationOf(w) == plans[runs[RunOf(w)].plan].reservation
StepsOf(w)  == Program(ArtifactOf(w), FabricOfW(w))

Goto(w, pc) == worker' = [worker EXCEPT ![w].pc = pc]
Raise(w)    == Goto(w, "failed")
Exit(w)     == worker' = [worker EXCEPT ![w] = Idle]

\* transition_run raises ConflictError: the status was moved by another.
Refused(w, status) ==
  /\ status \notin RunMoves[runs[RunOf(w)].status]
  /\ UNCHANGED storeVars

ReservationRefused(v, state) ==
  /\ v # None
  /\ state \notin ResvMoves[reservations[v].state]
  /\ UNCHANGED storeVars

Snapshot(f) ==
  [config |-> [d \in DevicesOf(f) |-> config[d]], ise |-> ise[f]]

WInit ==
  /\ Init
  /\ worker = [w \in Workers |-> Idle]
  /\ config = [d \in Devices |-> {}]
  /\ ise = [f \in Fabrics |-> {}]
  /\ flash = [r \in Runs |-> <<>>]
  /\ before = [r \in Runs |-> <<>>]

-----------------------------------------------------------------------------
(* Before anything is touched. *)

\* process_run and the head of process_apply: the run is read once, and what
\* is rendered again must be the artifact of the plan and of the run.
Startable(r) == runs[r].status = "apply_queued"

Start(w, r) ==
  /\ worker[w] = Idle
  /\ Startable(r)
  /\ plans[runs[r].plan].artifact = runs[r].artifact
  /\ worker' = [worker EXCEPT ![w] = At("checked", r)]
  /\ UNCHANGED <<storeVars, worldVars>>

\* The artifact still has blocking requirements.
RefuseBlocked(w) ==
  /\ worker[w].pc = "checked"
  /\ ArtifactOf(w) \in Blocked
  /\ TransitionRun(RunOf(w), "apply_failed") \/ Refused(w, "apply_failed")
  /\ Exit(w)
  /\ UNCHANGED worldVars

\* A secret does not resolve: the run stays queued and keeps the lock.
PreflightFails(w) ==
  /\ worker[w].pc = "checked"
  /\ ArtifactOf(w) \notin Blocked
  /\ Exit(w)
  /\ UNCHANGED <<storeVars, worldVars>>

Begin(w) ==
  /\ worker[w].pc = "checked"
  /\ ArtifactOf(w) \notin Blocked
  /\ \/ /\ TransitionRun(RunOf(w), "apply_running")
        /\ Goto(w, "running")
        /\ before' = [before EXCEPT ![RunOf(w)] = Snapshot(FabricOfW(w))]
     \/ /\ Refused(w, "apply_running")
        /\ Exit(w)
        /\ UNCHANGED before
  /\ UNCHANGED <<config, ise, flash>>

\* Connecting to every device and to ISE, and the precheck gates.
Precheck(w) ==
  /\ worker[w].pc = "running"
  /\ \/ Goto(w, "checkpoint") /\ UNCHANGED storeVars
     \/ Raise(w) /\ UNCHANGED storeVars
     \/ TransitionRun(RunOf(w), "apply_failed") /\ Exit(w)
     \/ Refused(w, "apply_failed") /\ Raise(w)
  /\ UNCHANGED worldVars

WithFile(files, d, saved) ==
  [x \in DOMAIN files \cup {d} |-> IF x = d THEN saved ELSE files[x]]

Checkpoint(w) ==
  LET order == DeviceOrder[FabricOfW(w)]
      d     == order[worker[w].pos]
      last  == worker[w].pos = Len(order)
  IN
  /\ worker[w].pc = "checkpoint"
  /\ \/ /\ flash' = [flash EXCEPT ![RunOf(w)] = WithFile(@, d, config[d])]
        /\ worker' = [worker EXCEPT
                        ![w].ckpt = Append(@, d),
                        ![w].pos  = IF last THEN 1 ELSE @ + 1,
                        ![w].pc   = IF last THEN "apply" ELSE @]
     \/ Raise(w) /\ UNCHANGED flash
  /\ UNCHANGED <<storeVars, config, ise, before>>

-----------------------------------------------------------------------------
(* Applying the artifact. *)

CurrentStep(w) == StepsOf(w)[worker[w].pos]

AtStep(w, kind) ==
  /\ worker[w].pc = "apply"
  /\ worker[w].pos <= Len(StepsOf(w))
  /\ CurrentStep(w).kind = kind

\* A device is marked before the block is sent to it, because a transport
\* failure can follow a partial acceptance.
\* Fault: it is marked once the block was accepted.
MarkedIfAccepted(w, d, accepted) ==
  IF accepted /\ ~Contains(worker[w].changed, d)
  THEN Append(worker[w].changed, d) ELSE worker[w].changed

Marked(w, d, accepted) ==
  IF Contains(worker[w].changed, d)
  THEN worker[w].changed ELSE Append(worker[w].changed, d)

\* The loop is over the devices of the intent.
ApplyBlock(w) ==
  LET d       == CurrentStep(w).device
      element == Block(ArtifactOf(w), CurrentStep(w))
  IN
  /\ AtStep(w, "block")
  /\ d \in DevicesOf(FabricOfW(w))
  /\ \/ /\ config' = [config EXCEPT ![d] = @ \cup {element}]
        /\ worker' = [worker EXCEPT ![w].changed = Marked(w, d, TRUE),
                                    ![w].pos = @ + 1]
     \/ /\ config' \in {config, [config EXCEPT ![d] = @ \cup {element}]}
        /\ worker' = [worker EXCEPT ![w].changed = Marked(w, d, FALSE),
                                    ![w].pc = "failed"]
     \/ Raise(w) /\ UNCHANGED config   \* a secret of the block is invalid
  /\ UNCHANGED <<storeVars, ise, flash, before>>

\* Every ISE write is journaled before it is sent; an object that is already
\* as the manifest wants it is not written.
ApplyIse(w) ==
  LET f     == FabricOfW(w)
      wants == {IseObjects(ArtifactOf(w))} \ ise[f]
  IN
  /\ AtStep(w, "ise")
  /\ \/ /\ ise' = [ise EXCEPT ![f] = @ \cup wants]
        /\ worker' = [worker EXCEPT ![w].journal = @ \cup wants, ![w].pos = @ + 1]
     \/ \E sent \in SUBSET wants :
          /\ ise' \in {ise, [ise EXCEPT ![f] = @ \cup sent]}
          /\ worker' = [worker EXCEPT ![w].journal = @ \cup sent, ![w].pc = "failed"]
  /\ UNCHANGED <<storeVars, config, flash, before>>

CheckGate(w) ==
  /\ AtStep(w, "gate")
  /\ worker' = [worker EXCEPT ![w].pos = @ + 1] \/ Raise(w)
  /\ UNCHANGED <<storeVars, worldVars>>

\* The manifest of an artifact with ISE objects was applied by some phase.
IseBound(w) ==
  ArtifactOf(w) \in IseArtifacts =>
    \E i \in 1..Len(StepsOf(w)) : StepsOf(w)[i].kind = "ise"

StepsDone(w) == worker[w].pos > Len(StepsOf(w))

Complete(w) ==
  /\ worker[w].pc = "apply"
  /\ StepsDone(w)
  /\ \/ /\ IseBound(w)
        /\ CompleteApply(RunOf(w), ArtifactOf(w))
        /\ Goto(w, "commit")
     \/ Raise(w) /\ UNCHANGED storeVars
  /\ UNCHANGED worldVars

\* The reservation is looked up again, in the plan as it is now.
CommitReservation(w) ==
  LET v == ReservationOf(w) IN
  /\ worker[w].pc = "commit"
  /\ \/ v = None /\ Exit(w) /\ UNCHANGED storeVars
     \/ v # None /\ TransitionReservation(v, "committed", FALSE) /\ Exit(w)
     \/ ReservationRefused(v, "committed") /\ Raise(w)
  /\ UNCHANGED worldVars

-----------------------------------------------------------------------------
(* The exception handler. *)

Dirty(w) == worker[w].ckpt # <<>> \/ worker[w].journal # {}

\* changed_devices, or every device with a checkpoint when no block was sent.
ToRollBack(w) ==
  IF worker[w].changed # <<>> THEN worker[w].changed ELSE worker[w].ckpt

\* Fault: when nothing has to be rolled back the handler just returns.
HandleClean(w) == Exit(w) /\ UNCHANGED storeVars

HandleFailure(w) ==
  /\ TransitionRun(RunOf(w), "apply_failed") \/ Refused(w, "apply_failed")
  /\ Exit(w)

Handle(w) ==
  /\ worker[w].pc = "failed"
  /\ \/ /\ Dirty(w)
        /\ \/ /\ TransitionRun(RunOf(w), "rollback_running")
              /\ worker' = [worker EXCEPT ![w].changed = ToRollBack(w),
                                          ![w].pc = "rollback"]
           \/ Refused(w, "rollback_running") /\ Exit(w)
     \/ ~Dirty(w) /\ HandleFailure(w)
  /\ UNCHANGED worldVars

RollBackDevice(w) ==
  LET todo     == worker[w].changed
      d        == Last(todo)
      restored == [config EXCEPT ![d] = flash[RunOf(w)][d]]
  IN
  /\ worker[w].pc = "rollback"
  /\ todo # <<>>
  /\ \/ /\ config' = restored
        /\ worker' = [worker EXCEPT ![w].changed = Front(todo)]
     \/ /\ config' \in {config, restored}
        /\ worker' = [worker EXCEPT ![w].changed = Front(todo),
                                    ![w].failed = TRUE]
  /\ UNCHANGED <<storeVars, ise, flash, before>>

RollBackIse(w) ==
  LET f        == FabricOfW(w)
      restored == [ise EXCEPT ![f] = @ \ worker[w].journal]
  IN
  /\ worker[w].pc = "rollback"
  /\ worker[w].changed = <<>>
  /\ worker[w].journal # {}
  /\ \/ /\ ise' = restored
        /\ worker' = [worker EXCEPT ![w].journal = {}]
     \/ /\ ise' \in {ise, restored}
        /\ worker' = [worker EXCEPT ![w].journal = {}, ![w].failed = TRUE]
  /\ UNCHANGED <<storeVars, config, flash, before>>

\* Fault: rollback failures are collected and forgotten.
OutcomeOptimistic(w) == "rolled_back"

Outcome(w) == IF worker[w].failed THEN "rollback_failed" ELSE "rolled_back"

Finish(w) ==
  /\ worker[w].pc = "rollback"
  /\ worker[w].changed = <<>>
  /\ worker[w].journal = {}
  /\ \/ TransitionRun(RunOf(w), Outcome(w)) /\ Goto(w, "settle")
     \/ Refused(w, Outcome(w)) /\ Exit(w)
  /\ UNCHANGED worldVars

\* By now the lock is free and another run may be on the fabric.
\* Fault: a failed rollback asks for a release too, which the store refuses.
SettleByRelease(w) == "released"

\* Fault: a rolled-back design keeps its resources for the next attempt.
SettleByCommit(w) == IF worker[w].failed THEN "quarantined" ELSE "committed"

SettledState(w) == IF worker[w].failed THEN "quarantined" ELSE "released"

Settle(w) ==
  LET v == ReservationOf(w) IN
  /\ worker[w].pc = "settle"
  /\ \/ v = None /\ UNCHANGED storeVars
     \/ v # None /\ TransitionReservation(v, SettledState(w), ~worker[w].failed)
     \/ ReservationRefused(v, SettledState(w))
  /\ Exit(w)
  /\ UNCHANGED worldVars

-----------------------------------------------------------------------------
(* Crashes and the operator of docs/lock-recovery-runbook.md. *)

Crash(w) ==
  /\ MayCrash
  /\ worker[w].pc # "idle"
  /\ Exit(w)
  /\ UNCHANGED <<storeVars, worldVars>>

Abandoned(r) == \A w \in Workers : RunOf(w) # r

MayRecover(r) ==
  /\ Recovery # "none"
  /\ runs[r].status \in ApplyActive
  /\ Recovery = "dead" => Abandoned(r)

\* The transitions of the runbook's table 2c; "rolled_back" is chosen when
\* the rollback was verified independently.
OperatorRecover(r) ==
  /\ MayRecover(r)
  /\ \/ TransitionRun(r, "apply_failed")
     \/ runs[r].status = "apply_running" /\ TransitionRun(r, "rollback_running")
     \/ TransitionRun(r, "rollback_failed")
     \/ /\ runs[r].status = "rollback_running"
        /\ Snapshot(runs[r].fabric) = before[r]
        /\ TransitionRun(r, "rolled_back")
  /\ UNCHANGED <<worker, worldVars>>

\* The operator replaces a configuration by the checkpoint left on flash.
OperatorRestore(r, d) ==
  /\ MayRecover(r)
  /\ runs[r].status = "rollback_running"
  /\ d \in DOMAIN flash[r]
  /\ config' = [config EXCEPT ![d] = flash[r][d]]
  /\ UNCHANGED <<storeVars, worker, ise, flash, before>>

\* Section 3 of the runbook; `verified` is the operator's word.
OperatorRelease(v) ==
  /\ Recovery # "none"
  /\ TransitionReservation(v, "released", TRUE)
  /\ UNCHANGED <<worker, worldVars>>

-----------------------------------------------------------------------------
\* What a running process does next.
WorkerStep(w) ==
  \/ RefuseBlocked(w) \/ PreflightFails(w) \/ Begin(w)
  \/ Precheck(w) \/ Checkpoint(w)
  \/ ApplyBlock(w) \/ ApplyIse(w) \/ CheckGate(w)
  \/ Complete(w) \/ CommitReservation(w)
  \/ Handle(w) \/ RollBackDevice(w) \/ RollBackIse(w)
  \/ Finish(w) \/ Settle(w)

\* The simulator of dry runs works on the same table of runs.
Simulated ==
  {"dry_run_running", "dry_run_succeeded", "dry_run_blocked", "dry_run_failed"}

SimulateNext == \E r \in Runs, s \in Simulated : TransitionRun(r, s)

ClientStep ==
  (DesignNext \/ GovernNext \/ SimulateNext) /\ UNCHANGED <<worker, worldVars>>

OperatorStep ==
  \/ \E r \in Runs :
       OperatorRecover(r) \/ \E d \in Devices : OperatorRestore(r, d)
  \/ \E v \in Reservations : OperatorRelease(v)

WNext ==
  \/ ClientStep
  \/ \E w \in Workers, r \in Runs : Start(w, r)
  \/ \E w \in Workers : WorkerStep(w) \/ Crash(w)
  \/ OperatorStep

WSpec == WInit /\ [][WNext]_vars

\* A process that runs keeps running: it is never descheduled for ever, and
\* every adapter call returns or times out.
Fairness == \A w \in Workers : WF_vars(WorkerStep(w))
FairSpec == WSpec /\ Fairness

-----------------------------------------------------------------------------
Elements == Artifacts \X {Phases[i] : i \in 1..Len(Phases)} \X Nat

PCs == {"idle", "checked", "running", "checkpoint", "apply", "commit",
        "failed", "rollback", "settle"}

\* The program counters between which a process sends to devices or to ISE.
Writing(w) == worker[w].pc \in {"running", "checkpoint", "apply", "rollback"}

\* "concurrent runs are locked out" (docs/poc-end-to-end-blueprint.md:54): no
\* two processes, of one run or of two, may write to a fabric at a time.
WritersExclude ==
  \A w, x \in Workers :
    Writing(w) /\ Writing(x) /\ FabricOfW(w) = FabricOfW(x) => w = x

\* That is so because a process that may write owns the lock of its fabric
\* through its run, and is alone in executing that run.
SoleWriter ==
  /\ \A w \in Workers : Writing(w) => locks[FabricOfW(w)].run = RunOf(w)
  /\ WritersExclude

\* The ownership ledger and the outcome of a run agree at every instant,
\* whichever process dies where: complete_apply commits them together.
LedgerMatchesOutcome ==
  \A r \in Runs : r \in References <=> runs[r].status = "apply_succeeded"

\* A run that ends rolled back, or that its worker ends as failed, leaves the
\* whole fabric (devices and ISE) as it was when it became apply_running,
\* whichever call failed half-way.
UnwindRestores ==
  [][\A r \in Runs :
       /\ runs[r].status \in {"apply_running", "rollback_running"}
       /\ \/ runs'[r].status = "rolled_back"
          \/ runs'[r].status = "apply_failed" /\ worker' # worker
       => Snapshot(runs[r].fabric)' = before[r]]_vars

\* A run succeeds only with every block of its artifact on its device and
\* every ISE object in place.
SuccessIsWhole ==
  [][\A r \in Runs :
       runs[r].status # "apply_succeeded" /\ runs'[r].status = "apply_succeeded"
       => LET a == runs[r].artifact
              f == runs[r].fabric
          IN /\ \A d \in DevicesOf(f), i \in 1..Len(Phases) :
                  \A n \in 1..BlockCount[a][d][Phases[i]] :
                    <<a, Phases[i], n>> \in config'[d]
             /\ a \in IseArtifacts => IseObjects(a) \in ise'[f]]_vars

\* Resources count as deployed only when a run of the plan they are bound to
\* succeeded, whichever runs of that plan failed before or after it.
CommittedIsDeployed ==
  \A v \in Reservations : reservations[v].state = "committed" =>
    \E r \in Runs : /\ runs[r].status = "apply_succeeded"
                    /\ plans[runs[r].plan].reservation = v

\* Without crashes every run that began comes to an end and frees its lock.
RunEnds ==
  \A r \in Runs : runs[r].status \in {"apply_running", "rollback_running"}
                    ~> runs[r].status \in Terminal

\* A rollback that could not be verified quarantines the reservation.
QuarantineFollows ==
  \A w \in Workers, v \in Reservations :
    /\ worker[w].pc = "settle" /\ worker[w].failed /\ ReservationOf(w) = v
    ~> reservations[v].state \in {"quarantined", "released"}

-----------------------------------------------------------------------------
(* What a document says and the code does not do. *)

\* Resources are given back only when no device still carries the design
\* ("release IPAM state only after rollback is verified",
\* docs/multicast-overlay-renderer.md:82).
ReleasedIsClean ==
  [][\A v \in Reservations, p \in Plans :
       /\ ActiveResvn(v) /\ reservations'[v].state = "released"
       /\ plans[p].reservation = v
       => \A d \in DevicesOf(PlanFabric(p)) :
            \A e \in config[d] : e[1] # plans[p].artifact]_vars
=============================================================================
