---------------------------- MODULE Orchestrator ----------------------------
(***************************************************************************)
(* The HTTP service (src/orchestrator/api.py) with the dry-run simulator   *)
(* (simulator.py), in front of the store and beside the apply workers.     *)
(*                                                                         *)
(* A handler is a thread that serves one request.  Each of its calls to    *)
(* the store is a transaction of its own, so planning a design, confirming *)
(* an apply and simulating a run are sequences of steps between which the  *)
(* other handlers, the workers, a new release of the service and the clock *)
(* act.  Any call may raise, the service may die, and a client repeats     *)
(* what it got no answer to: nothing tells a retry from a new request.     *)
(*                                                                         *)
(* Data abstraction.  A demand is a requirements document together with    *)
(* the key it is reserved under.  The plan of an intent depends on the     *)
(* baseline it was made on, here the number of manifests of the fabric;    *)
(* its artifact depends on the release of the renderer.  Evidence is the   *)
(* artifact, the device and the phase it was collected for.  Requests that *)
(* only read are left out.                                                 *)
(***************************************************************************)
EXTENDS ApplyWorker


CONSTANTS
  Handlers,
  Planners,       \* the principals whose token has the role planner
  Demands,
  DesignOf,       \* the intent derived from a demand
  PlanOf,         \* PlanOf[i][n]: the plan of intent i after n manifests, or
                  \* None when there is none (PlanValidationError)
  Rendering,      \* Rendering[n]: each plan's artifact in release n, or None
  ConfirmKey,     \* "poc-apply:" and the hash of a plan
  Window,         \* two hours
  PocWorkers,     \* processes with ORCHESTRATOR_SJC23_POC_EXECUTION_ENABLED
  PocArtifacts,   \* artifacts of the pinned two-device proof of concept
  PinnedPlan      \* ORCHESTRATOR_SJC23_POC_PLAN_HASH, or None

\* A planner is somebody, whom the store knows by name; times are bounded so
\* that a window which opens by MaxTime closes by Horizon.
ASSUME ServiceAssumption ==
  /\ Planners \subseteq Actors
  /\ DesignOf \in [Demands -> Intents] /\ ConfirmKey \in [Plans -> Keys]
  /\ Window \in Nat \ {0} /\ MaxTime + Window <= Horizon

VARIABLES
  handler,        \* the local state of each handler
  demandOf,       \* idempotency_key_hash of each reservation
  evidence,       \* table evidence: what was recorded for each run
  release,        \* the installed release of the service
  orphaned,       \* history: reservations whose request ended in an error
  stranded        \* history: dry runs whose handler died, or whose store call
                  \* that begins or fails them raised

history == <<orphaned, stranded>>
apiVars == <<handler, demandOf, evidence, release, history>>
allVars == <<vars, apiVars>>

\* What the handlers leave to the workers.
workVars == <<worker, worldVars>>

-----------------------------------------------------------------------------
(* The local state of a handler: what it holds of the rows it read.         *)
Free == [pc |-> "free", intent |-> None, reservation |-> None, plan |-> None,
         artifact |-> None, run |-> None, pos |-> 1, since |-> 0]

Proceed(h, pc) == handler' = [handler EXCEPT ![h].pc = pc]
Answer(h)      == handler' = [handler EXCEPT ![h] = Free]

OInit ==
  /\ WInit
  /\ handler = [h \in Handlers |-> Free]
  /\ demandOf = [v \in Reservations |-> None]
  /\ evidence = [r \in Runs |-> {}]
  /\ release = 1
  /\ orphaned = {} /\ stranded = {}

Baselines(f) == Cardinality({i \in 1..Len(manifests) : manifests[i].fabric = f})

-----------------------------------------------------------------------------
(* Planning: reserve, validate, save the intent, plan and render, save.     *)

\* The active reservation of a demand is answered again, whatever its state.
Holding(k) == {v \in Reservations : demandOf[v] = k /\ ActiveResvn(v)}

Planning(h, i, v) ==
  handler' = [handler EXCEPT ![h] =
                [Free EXCEPT !.pc = "validate", !.intent = i, !.reservation = v]]

ReserveForDemand(h, k) ==
  /\ handler[h] = Free
  /\ \/ \E v \in Holding(k) :
          /\ Planning(h, reservations[v].intent, v)
          /\ UNCHANGED <<storeVars, demandOf>>
     \/ \E v \in Reservations :
          /\ Holding(k) = {}
          /\ ReserveDesign(v, DesignOf[k])
          /\ demandOf' = [demandOf EXCEPT ![v] = k]
          /\ Planning(h, DesignOf[k], v)
  /\ UNCHANGED <<workVars, evidence, release, history>>

\* The intent itself is submitted: there is no reservation.
SubmitIntent(h, i) ==
  /\ handler[h] = Free
  /\ Planning(h, i, None)
  /\ UNCHANGED <<storeVars, workVars, demandOf, evidence, release, history>>

ValidateAndSaveIntent(h) ==
  LET i == handler[h].intent IN
  /\ handler[h].pc = "validate"
  /\ \/ SaveIntent(i)
     \/ i \in intents /\ UNCHANGED storeVars
  /\ Proceed(h, "plan")
  /\ UNCHANGED <<workVars, demandOf, evidence, release, history>>

\* create_state_bound_plan and render_configuration: the baseline is read.
PlanAndRender(h) ==
  LET p == PlanOf[handler[h].intent][Baselines(FabricOf[handler[h].intent])]
  IN
  /\ handler[h].pc = "plan"
  /\ p \in Plans
  /\ Rendering[release][p] \in Artifacts
  /\ handler' = [handler EXCEPT ![h].pc = "save", ![h].plan = p,
                                ![h].artifact = Rendering[release][p]]
  /\ UNCHANGED <<storeVars, workVars, demandOf, evidence, release, history>>

\* A plan that is stored as it is asked for is answered again.
StoredAlready(h) ==
  /\ plans[handler[h].plan].artifact = handler[h].artifact
  /\ plans[handler[h].plan].reservation = handler[h].reservation

PersistPlan(h, planner) ==
  LET x == handler[h] IN
  /\ x.pc = "save"
  /\ \/ SavePlan(x.plan, x.artifact, x.reservation, planner)
     \/ StoredAlready(h) /\ UNCHANGED storeVars
  /\ Answer(h)
  /\ UNCHANGED <<workVars, demandOf, evidence, release, history>>

\* A validation error, a PlanValidationError, a RenderError, a ConflictError
\* of save_plan or any other exception: the reservation is not given back.
PlanningFails(h) ==
  /\ handler[h].pc \in {"validate", "plan", "save"}
  /\ Answer(h)
  /\ orphaned' = orphaned \cup ({handler[h].reservation} \ {None})
  /\ UNCHANGED <<storeVars, workVars, demandOf, evidence, release, stranded>>

-----------------------------------------------------------------------------
(* Confirming an apply: approve the plan, then create its run.              *)

ConfirmApproves(h, p, approver) ==
  /\ handler[h] = Free
  /\ RecordApproval(p, "approved", approver, now + Window)
  /\ handler' = [handler EXCEPT ![h] =
                   [Free EXCEPT !.pc = "confirm", !.plan = p, !.since = now]]
  /\ UNCHANGED <<workVars, demandOf, evidence, release, history>>

\* A key that is known is answered with its run, when it is for the same.
BoundTo(r, p, mode, key) ==
  runs[r].key = key /\ runs[r].plan = p /\ runs[r].mode = mode

ConfirmRuns(h) ==
  LET x == handler[h]
      k == ConfirmKey[x.plan]
  IN
  /\ x.pc = "confirm"
  /\ \E r \in Runs :
       \/ CreateRun(r, x.plan, "apply", k, x.since, x.since + Window)
       \/ BoundTo(r, x.plan, "apply", k) /\ UNCHANGED storeVars
  /\ Answer(h)
  /\ UNCHANGED <<workVars, demandOf, evidence, release, history>>

\* run_rejected, execution_disabled or another exception: the approval stays.
ConfirmFails(h) ==
  /\ handler[h].pc = "confirm"
  /\ Answer(h)
  /\ UNCHANGED <<storeVars, workVars, demandOf, evidence, release, history>>

-----------------------------------------------------------------------------
(* Simulating a dry run.                                                    *)

\* The artifact is rendered again by the release that serves the request.
ProcessDryRun(h, r) ==
  /\ handler[h] = Free
  /\ Created(r)
  /\ Rendering[release][runs[r].plan] \in Artifacts
  /\ runs[r].status = "dry_run_queued"
  /\ handler' = [handler EXCEPT ![h] =
                   [Free EXCEPT !.pc = "queued", !.run = r,
                                !.artifact = Rendering[release][runs[r].plan]]]
  /\ UNCHANGED <<storeVars, workVars, demandOf, evidence, release, history>>

\* What a simulation records, in the order of its loops: one item for each
\* phase of a device, whether it has blocks or not, then the summary.
ItemsOn(a, d) == [i \in 1..Len(Phases) |-> <<a, d, Phases[i]>>]

Items(a, f) ==
  FlattenSeq([i \in 1..Len(DeviceOrder[f]) |-> ItemsOn(a, DeviceOrder[f][i])])
    \o <<<<a, None, "dry_run_summary">>>>

ItemsOf(h) == Items(handler[h].artifact, runs[handler[h].run].fabric)

\* Fault: an item that cannot be recorded is skipped.
SkipOnError(h) == handler' = [handler EXCEPT ![h].pos = @ + 1]

\* Inside the guarded block an exception fails the run.
RaiseOnError(h) ==
  handler' = [handler EXCEPT ![h] = [Free EXCEPT !.pc = "fail", !.run = handler[h].run]]

\* Fault: the move to dry_run_running is part of the guarded block.
LoseInside(h) == RaiseOnError(h)

\* Before the guarded block an exception is the answer: another handler got
\* there first (ConflictError), or the store failed, before or after it had
\* committed.
Lose(h) == Answer(h)

BeginSimulation(h) ==
  LET r == handler[h].run IN
  /\ handler[h].pc = "queued"
  /\ \/ /\ TransitionRun(r, "dry_run_running")
        /\ \/ Proceed(h, "simulate") /\ UNCHANGED stranded
           \/ Lose(h) /\ stranded' = stranded \cup {r}
     \/ Lose(h) /\ UNCHANGED <<storeVars, stranded>>
  /\ UNCHANGED <<workVars, demandOf, evidence, release, orphaned>>

AddEvidence(h) ==
  LET x == handler[h] IN
  /\ x.pc = "simulate"
  /\ x.pos <= Len(ItemsOf(h))
  /\ \/ /\ evidence' = [evidence EXCEPT ![x.run] = @ \cup {ItemsOf(h)[x.pos]}]
        /\ handler' = [handler EXCEPT ![h].pos = @ + 1]
     \/ RaiseOnError(h) /\ UNCHANGED evidence
  /\ UNCHANGED <<storeVars, workVars, demandOf, release, history>>

\* blocking_requirements of the artifact decide.
Verdict(a) ==
  IF a \in PocArtifacts \cup Blocked
  THEN "dry_run_blocked" ELSE "dry_run_succeeded"

\* The call that stores the verdict may raise as well, committed or not.
EndSimulation(h) ==
  LET x == handler[h] IN
  /\ x.pc = "simulate"
  /\ x.pos > Len(ItemsOf(h))
  /\ \/ /\ TransitionRun(x.run, Verdict(x.artifact))
        /\ Answer(h) \/ RaiseOnError(h)
     \/ RaiseOnError(h) /\ UNCHANGED storeVars
  /\ UNCHANGED <<workVars, demandOf, evidence, release, history>>

\* Fault: the exception is raised again before the run is failed.
LeaveRunning(h) == Answer(h) /\ UNCHANGED <<storeVars, stranded>>

\* The run is failed; or this call raises in its turn, because the verdict is
\* there already or because the store fails again.
FailRun(h) ==
  LET r == handler[h].run IN
  /\ \/ TransitionRun(r, "dry_run_failed") /\ UNCHANGED stranded
     \/ UNCHANGED storeVars /\ stranded' = stranded \cup {r}
  /\ Answer(h)

FailSimulation(h) ==
  /\ handler[h].pc = "fail"
  /\ FailRun(h)
  /\ UNCHANGED <<workVars, demandOf, evidence, release, orphaned>>

-----------------------------------------------------------------------------
(* Requests of one transaction, the service itself, and the workers.  That a
   worker dies and an operator recovers its run is the subject of ApplyWorker. *)

\* /approvals, /runs, the adoption of a baseline; and the clock.
SingleRequest ==
  GovernNext /\ UNCHANGED <<workVars, apiVars>>

\* systemd restarts the service; its handlers are gone.
ServiceDies ==
  LET busy == {h \in Handlers : handler[h] # Free} IN
  /\ busy # {}
  /\ handler' = [h \in Handlers |-> Free]
  /\ orphaned' = orphaned \cup ({handler[h].reservation : h \in busy} \ {None})
  /\ stranded' = stranded \cup ({handler[h].run : h \in busy} \ {None})
  /\ UNCHANGED <<storeVars, workVars, demandOf, evidence, release>>

Upgrade ==
  /\ release < Len(Rendering)
  /\ \A h \in Handlers : handler[h] = Free
  /\ release' = release + 1
  /\ UNCHANGED <<storeVars, workVars, handler, demandOf, evidence, history>>

\* authorize_sjc23_poc_execution: the one artifact whose only blocker may be
\* consumed is that of the pinned policy, topology and pools.
PinnedDesign(r) == runs[r].artifact \in PocArtifacts

\* _sjc23_poc_authorization: a process that may consume that blocker runs
\* nothing else, under a live approval or the plan its environment pins.
Authorised(w, r) ==
  w \in PocWorkers => /\ PinnedDesign(r)
                      /\ ApprovedNow(runs[r].plan) \/ runs[r].plan = PinnedPlan

RendersSame(r) == Rendering[release][runs[r].plan] = plans[runs[r].plan].artifact

StartRun(w, r) ==
  /\ Start(w, r)
  /\ RendersSame(r)
  /\ Authorised(w, r)
  /\ UNCHANGED apiVars

WorkStep(w) == UNCHANGED apiVars /\ WorkerStep(w)

HandlerStep(h) ==
  \/ ValidateAndSaveIntent(h) \/ PlanAndRender(h)
  \/ \E who \in Planners : PersistPlan(h, who)
  \/ PlanningFails(h)
  \/ ConfirmRuns(h) \/ ConfirmFails(h)
  \/ BeginSimulation(h) \/ AddEvidence(h) \/ EndSimulation(h)
  \/ FailSimulation(h)

Request(h) ==
  \/ \E k \in Demands : ReserveForDemand(h, k)
  \/ \E i \in Intents : SubmitIntent(h, i)
  \/ \E p \in Plans, who \in Actors : ConfirmApproves(h, p, who)
  \/ \E r \in Runs : ProcessDryRun(h, r)

ONext ==
  \/ \E h \in Handlers : Request(h) \/ HandlerStep(h)
  \/ SingleRequest
  \/ ServiceDies
  \/ Upgrade
  \/ \E w \in Workers : WorkStep(w) \/ \E r \in Runs : StartRun(w, r)

OSpec == OInit /\ [][ONext]_allVars

\* A thread that serves a request and a process that executes a run are never
\* descheduled for ever, and every call returns or raises.  Nobody has to send
\* a request, to start a process, to install a release or to let time pass.
OFairSpec ==
  /\ OSpec
  /\ \A h \in Handlers : WF_allVars(HandlerStep(h))
  /\ \A w \in Workers : WF_allVars(WorkStep(w))

-----------------------------------------------------------------------------
(* What the service promises. *)

\* Of the handlers that were asked to process a dry run one simulates it.  The
\* run is running as long as that handler is at work, and nobody else ends it:
\* one that goes on to fail the run finds it running, or at the verdict it
\* stored itself by a call that raised.
Simulating(h, r) ==
  handler[h].run = r /\ handler[h].pc \in {"simulate", "fail"}

Verdicts == {"dry_run_succeeded", "dry_run_blocked"}

SoleSimulator ==
  \A r \in Runs, g, h \in Handlers :
    Simulating(g, r) =>
      /\ \/ runs[r].status = "dry_run_running"
         \/ handler[g].pc = "fail" /\ runs[r].status \in Verdicts
      /\ Simulating(h, r) => g = h

\* A dry run that came to a verdict has the evidence of every device in every
\* phase and the summary, all of one artifact, and the verdict is the one of
\* that artifact: no failed call, no retry and no second handler leaves a
\* partial or a mixed record behind a verdict.
SimulationWhole ==
  \A r \in Runs :
    runs[r].status \in Verdicts =>
      \E a \in Artifacts : /\ evidence[r] = ToSet(Items(a, runs[r].fabric))
                           /\ runs[r].status = Verdict(a)

\* Resources that are reserved for a demand and bound to no plan, which nobody
\* will commit or release, come from a request that is still being served or
\* that was answered with an error or not at all.
LeakOnlyByFailure ==
  \A v \in Reservations :
    /\ reservations[v].state = "reserved"
    /\ \A p \in Plans : plans[p].reservation # v
    => v \in orphaned \/ \E h \in Handlers : handler[h].reservation = v

\* A dry run that began comes to an end, unless the service died under it or
\* the store raised in one of the two calls nothing guards: the one that begins
\* the run and the one that fails it.
DryRunEnds ==
  \A r \in Runs :
    runs[r].status = "dry_run_running"
      ~> runs[r].status \in Terminal \/ r \in stranded
=============================================================================
