------------------------- MODULE OrchestratorProofs -------------------------
(***************************************************************************)
(* What the handlers of the service guarantee to each other, for any       *)
(* number of handlers, workers, runs, reservations and releases.           *)
(*                                                                         *)
(* A handler decides on a status it read in an earlier transaction.        *)
(* SoleSimulator is inductive because the move to dry_run_running can be   *)
(* made once only and no step of a worker or of another request moves a    *)
(* run that is there.  LeakOnlyByFailure needs to know which handlers hold *)
(* a reservation (HandlerShape): one that plans a design, and no other.    *)
(* SimulationWhole rests on SoleSimulator: the record of a run is empty    *)
(* until a handler makes the run its own, and then exactly the items that  *)
(* this handler has behind it (RecordInv).  With the types of what the     *)
(* handlers hold, each of their steps is one that ApplyWorker allows its   *)
(* clients, so that its theorems hold behind the service.                  *)
(***************************************************************************)
EXTENDS Orchestrator, ApplyWorkerProofs


\* A local state has the fields of Free, and a run those of NoRun.
IsHandler(x) ==
  x = [pc |-> x.pc, intent |-> x.intent, reservation |-> x.reservation,
       plan |-> x.plan, artifact |-> x.artifact, run |-> x.run, pos |-> x.pos,
       since |-> x.since]
IsRun(x) ==
  /\ x = [status |-> x.status, mode |-> x.mode, plan |-> x.plan,
          artifact |-> x.artifact, fabric |-> x.fabric, key |-> x.key,
          window_end |-> x.window_end]
  /\ x.status \in RunStatus \cup {"absent"}
  /\ x.status # "absent" => x.fabric \in Fabrics
IsReservation(x) ==
  /\ x = [state |-> x.state, intent |-> x.intent]
  /\ x.state \in ResvStates \cup {"absent"}
  /\ x.state \in ActiveResv => x.intent \in Intents
IsPlan(x) ==
  /\ x = [artifact |-> x.artifact, reservation |-> x.reservation,
          created_by |-> x.created_by]
  /\ x.artifact = None => x.reservation = None

RunShape ==
  runs = [r \in Runs |-> runs[r]] /\ \A r \in Runs : IsRun(runs[r])
ReservationShape ==
  /\ reservations = [v \in Reservations |-> reservations[v]]
  /\ \A v \in Reservations : IsReservation(reservations[v])
PlanShape ==
  plans = [p \in Plans |-> plans[p]] /\ \A p \in Plans : IsPlan(plans[p])

PlanningAt == {"validate", "plan", "save"}

\* What a handler may hold at each point of its request.
Proper(x) ==
  /\ IsHandler(x)
  /\ x.pc \in PlanningAt => /\ x.intent \in Intents
                            /\ x.reservation \in Reservations \cup {None}
  /\ x.pc \notin PlanningAt => x.reservation = None
  /\ x.pc = "save" => x.plan \in Plans /\ x.artifact \in Artifacts
  /\ x.pc = "confirm" => x.plan \in Plans /\ x.since \in 0..MaxTime
  /\ x.pc \in {"queued", "simulate", "fail"} => x.run \in Runs
  /\ x.pc \in {"queued", "simulate"} => x.artifact \in Artifacts /\ x.pos \in Nat \ {0}
  /\ x.pc = "queued" => x.pos = 1

HandlerShape ==
  /\ handler = [h \in Handlers |-> handler[h]]
  /\ \A h \in Handlers : Proper(handler[h])

Tables == RunShape /\ ReservationShape /\ PlanShape /\ now \in 0..MaxTime

ServiceInv == Tables /\ HandlerShape /\ SoleSimulator /\ LeakOnlyByFailure

-----------------------------------------------------------------------------
(* What the steps do to the tables, as far as the handlers care. *)

NotBegun == {"absent", "dry_run_queued"}

\* A run that is being simulated stays so, on its fabric, a verdict stays, and
\* no other run comes to one or back to where its simulation has not begun.
SimulationsStay ==
  \A r \in Runs :
    /\ runs[r].status = "dry_run_running" => runs'[r].status = "dry_run_running"
    /\ runs[r].status # "absent" => runs'[r].fabric = runs[r].fabric
    /\ runs'[r].status \in Verdicts => runs[r].status = runs'[r].status
    /\ runs[r].status \in Verdicts => runs[r].status = runs'[r].status
    /\ runs'[r].status \in NotBegun => runs[r].status \in NotBegun

\* No reservation comes to be reserved, and no plan changes.
NothingReserved ==
  /\ plans' = plans
  /\ \A v \in Reservations : reservations'[v].state = "reserved" =>
                               reservations[v].state = "reserved"

\* transition_run ends a simulation with a verdict only, and begins it once.
LEMMA DryRunMoves ==
  RunMoves["dry_run_running"] =
    {"dry_run_succeeded", "dry_run_blocked", "dry_run_failed"}
  BY DEF RunMoves, RunMovesTable, RunStatus, DryRunActive

\* It begins a queued one only, and nothing leads back there or on from a verdict.
LEMMA DryRunBegins ==
  ASSUME NEW s \in RunStatus, NEW t \in RunMoves[s]
  PROVE  /\ t \in RunStatus /\ t \notin NotBegun /\ s \notin Verdicts
         /\ t = "dry_run_running" => s = "dry_run_queued"
  BY DEF RunMoves, RunMovesTable, RunStatus, ApplyActive, DryRunActive,
         Terminal, NotBegun, Verdicts

LEMMA NeverReservedAgain ==
  ASSUME NEW s \in ResvStates, NEW t \in ResvMoves[s]
  PROVE  t \in ResvStates /\ t # "reserved" /\ s \in ActiveResv
  BY DEF ResvMoves, ResvStates, ActiveResv

SetStatus(r, s) == runs' = [runs EXCEPT ![r].status = s]

\* What that does to the rows.
OnlyStatus(r, s) ==
  \A q \in Runs : /\ runs'[q].status = IF q = r THEN s ELSE runs[q].status
                  /\ runs'[q].fabric = runs[q].fabric

LEMMA StatusStep ==
  ASSUME RunShape, NEW r, Created(r), NEW s \in RunStatus, SetStatus(r, s)
  PROVE  RunShape' /\ OnlyStatus(r, s)
<1>1. ASSUME NEW q \in Runs
      PROVE  /\ IsRun(runs'[q])
             /\ runs'[q].status = IF q = r THEN s ELSE runs[q].status
             /\ runs'[q].fabric = runs[q].fabric
  <2>1. /\ IsRun(runs[q])
        /\ runs'[q] = IF q = r THEN [runs[q] EXCEPT !.status = s] ELSE runs[q]
    BY <1>1 DEF RunShape, SetStatus
  <2>2. CASE q # r
    BY <2>1, <2>2
  <2>3. CASE q = r
    <3>1. runs'[q] = [status |-> s, mode |-> runs[q].mode,
                      plan |-> runs[q].plan, artifact |-> runs[q].artifact,
                      fabric |-> runs[q].fabric, key |-> runs[q].key,
                      window_end |-> runs[q].window_end]
      BY <2>1, <2>3 DEF IsRun
    <3> QED
      BY <2>1, <2>3, <3>1 DEF IsRun, Created
  <2> QED
    BY <2>2, <2>3
<1>2. runs' = [q \in Runs |-> runs'[q]]
  BY DEF RunShape, SetStatus
<1> QED
  BY <1>1, <1>2 DEF RunShape, OnlyStatus

\* Every move but a verdict leaves the simulations alone.
LEMMA TransitionStep ==
  ASSUME RunShape, NEW r, NEW s, TransitionRun(r, s),
         s \notin {"dry_run_succeeded", "dry_run_blocked", "dry_run_failed"}
  PROVE  RunShape' /\ SimulationsStay
<1>1. SetStatus(r, s) /\ Created(r) /\ s \in RunMoves[runs[r].status]
  BY DEF TransitionRun, SetStatus
<1>2. CASE r \notin Runs
  BY <1>1, <1>2 DEF SetStatus, RunShape, SimulationsStay
<1>3. CASE r \in Runs
  <2>1. s \in RunStatus \ NotBegun /\ runs[r].status \notin Verdicts
    BY <1>1, <1>3, DryRunBegins DEF RunShape, IsRun, Created
  <2>2. RunShape' /\ OnlyStatus(r, s)
    BY <1>1, <2>1, StatusStep
  <2>3. runs[r].status # "dry_run_running"
    BY <1>1, DryRunMoves
  <2> QED
    BY <2>1, <2>2, <2>3 DEF SimulationsStay, OnlyStatus, Verdicts
<1> QED
  BY <1>2, <1>3

LEMMA CompleteStep ==
  ASSUME RunShape, NEW r, NEW a, CompleteApply(r, a)
  PROVE  RunShape' /\ SimulationsStay
<1>1. SetStatus(r, "apply_succeeded") /\ runs[r].status = "apply_running"
  BY DEF CompleteApply, SetStatus
<1>2. Created(r) /\ "apply_succeeded" \in RunStatus
  BY <1>1 DEF Created, RunStatus, Terminal
<1>3. RunShape' /\ OnlyStatus(r, "apply_succeeded")
  BY <1>1, <1>2, StatusStep
<1> QED
  BY <1>1, <1>3 DEF SimulationsStay, OnlyStatus, Verdicts, NotBegun

LEMMA CreateStep ==
  ASSUME RunShape, NEW r \in Runs, NEW p \in Plans, NEW m, NEW k, NEW s, NEW e,
         CreateRun(r, p, m, k, s, e)
  PROVE  RunShape' /\ SimulationsStay
<1>1. PICK x : /\ IsRun(x) /\ runs' = [runs EXCEPT ![r] = x]
               /\ x.status \in {"apply_queued", "dry_run_queued"}
  <2> DEFINE x == [status |-> IF m = "apply" THEN "apply_queued"
                                             ELSE "dry_run_queued",
                   mode |-> m, plan |-> p, artifact |-> plans[p].artifact,
                   fabric |-> PlanFabric(p), key |-> k,
                   window_end |-> IF m = "apply" THEN e ELSE 0]
  <2>1. runs' = [runs EXCEPT ![r] = x]
    BY DEF CreateRun
  <2>2. PlanFabric(p) \in Fabrics
    BY BindingAssumption DEF PlanFabric
  <2>3. /\ x.status \in {"apply_queued", "dry_run_queued"}
        /\ x.fabric \in Fabrics
    BY <2>2
  <2>4. IsRun(x)
    BY <2>3 DEF IsRun, RunStatus, ApplyActive, DryRunActive
  <2> QED
    BY <2>1, <2>3, <2>4
<1>2. runs' = [q \in Runs |-> runs'[q]]
      /\ \A q \in Runs : runs'[q] = IF q = r THEN x ELSE runs[q]
  BY <1>1 DEF RunShape
<1> QED
  BY <1>1, <1>2
  DEF RunShape, SimulationsStay, CreateRun, Created, Verdicts, NotBegun

LEMMA ReservationRows ==
  ASSUME ReservationShape, NEW v, NEW s, NEW b,
         TransitionReservation(v, s, b)
  PROVE  ReservationShape' /\ NothingReserved
<1>1. v \in Reservations => /\ s \in ResvStates /\ s # "reserved"
                            /\ reservations[v].state \in ActiveResv
  BY NeverReservedAgain
  DEF ReservationShape, IsReservation, TransitionReservation, Reserved
<1>2. ASSUME NEW u \in Reservations
      PROVE  /\ IsReservation(reservations'[u])
             /\ reservations'[u].state =
                  IF u = v THEN s ELSE reservations[u].state
  <2>1. IsReservation(reservations[u])
    BY DEF ReservationShape
  <2>2. reservations'[u] = IF u = v THEN [reservations[u] EXCEPT !.state = s]
                                    ELSE reservations[u]
    BY DEF TransitionReservation, ReservationShape
  <2>3. CASE u # v
    BY <2>1, <2>2, <2>3
  <2>4. CASE u = v
    <3>1. reservations'[u] = [state |-> s, intent |-> reservations[u].intent]
      BY <2>1, <2>2, <2>4 DEF IsReservation
    <3> QED
      BY <1>1, <2>1, <2>4, <3>1 DEF IsReservation
  <2> QED
    BY <2>3, <2>4
<1>3. reservations' = [u \in Reservations |-> reservations'[u]]
  BY DEF TransitionReservation, ReservationShape
<1> QED
  BY <1>1, <1>2, <1>3
  DEF ReservationShape, NothingReserved, TransitionReservation

-----------------------------------------------------------------------------
(* A worker and a request of one transaction leave the handlers' rows alone. *)

TablesKept == Tables' /\ SimulationsStay /\ NothingReserved

LEMMA QuietTables ==
  ASSUME Tables, UNCHANGED <<runs, reservations, plans, now>>
  PROVE  TablesKept
  BY DEF Tables, TablesKept, RunShape, ReservationShape, PlanShape,
         SimulationsStay, NothingReserved

LEMMA RunMoved ==
  ASSUME Tables, NEW r, NEW s, TransitionRun(r, s),
         s \notin {"dry_run_succeeded", "dry_run_blocked", "dry_run_failed"}
  PROVE  TablesKept
<1>1. RunShape' /\ SimulationsStay
  BY TransitionStep DEF Tables
<1>2. UNCHANGED <<reservations, plans, now>>
  BY DEF TransitionRun
<1> QED
  BY <1>1, <1>2
  DEF Tables, TablesKept, ReservationShape, PlanShape, NothingReserved

LEMMA RunCompleted ==
  ASSUME Tables, NEW r, NEW a, CompleteApply(r, a)
  PROVE  TablesKept
<1>1. RunShape' /\ SimulationsStay
  BY CompleteStep DEF Tables
<1>2. UNCHANGED <<reservations, plans, now>>
  BY DEF CompleteApply
<1> QED
  BY <1>1, <1>2
  DEF Tables, TablesKept, ReservationShape, PlanShape, NothingReserved

LEMMA RunCreated ==
  ASSUME Tables, NEW r \in Runs, NEW p \in Plans, NEW m, NEW k, NEW s, NEW e,
         CreateRun(r, p, m, k, s, e)
  PROVE  TablesKept
<1>1. RunShape' /\ SimulationsStay
  BY CreateStep DEF Tables
<1>2. UNCHANGED <<reservations, plans, now>>
  BY DEF CreateRun
<1> QED
  BY <1>1, <1>2
  DEF Tables, TablesKept, ReservationShape, PlanShape, NothingReserved

LEMMA ReservationMoved ==
  ASSUME Tables, NEW v, NEW s, NEW b, TransitionReservation(v, s, b)
  PROVE  TablesKept
<1>1. ReservationShape' /\ NothingReserved
  BY ReservationRows DEF Tables
<1>2. UNCHANGED <<runs, plans, now>>
  BY DEF TransitionReservation
<1> QED
  BY <1>1, <1>2 DEF Tables, TablesKept, RunShape, PlanShape, SimulationsStay

LEMMA WorkerTables ==
  ASSUME Tables, NEW w \in Workers, WorkerStep(w)
  PROVE  TablesKept
<1>1. UNCHANGED storeVars => UNCHANGED <<runs, reservations, plans, now>>
  BY DEF storeVars
<1>2. CASE UNCHANGED storeVars
  BY <1>1, <1>2, QuietTables
<1>3. CASE \/ RefuseBlocked(w) \/ Begin(w) \/ Precheck(w) \/ Handle(w)
  BY <1>2, <1>3, RunMoved
  DEF RefuseBlocked, Begin, Precheck, Handle, HandleFailure, Refused
<1>4. CASE PreflightFails(w) \/ Checkpoint(w) \/ ApplyBlock(w) \/ ApplyIse(w)
           \/ CheckGate(w) \/ RollBackDevice(w) \/ RollBackIse(w)
  BY <1>2, <1>4
  DEF PreflightFails, Checkpoint, ApplyBlock, ApplyIse, CheckGate,
      RollBackDevice, RollBackIse
<1>5. CASE Complete(w)
  BY <1>2, <1>5, RunCompleted DEF Complete
<1>6. CASE CommitReservation(w) \/ Settle(w)
  BY <1>2, <1>6, ReservationMoved
  DEF CommitReservation, Settle, ReservationRefused
<1>7. CASE Finish(w)
  <2>1. Outcome(w) \in {"rollback_failed", "rolled_back"}
    BY DEF Outcome
  <2> QED
    BY <1>2, <1>7, <2>1, RunMoved DEF Finish, Refused
<1> QED
  BY <1>3, <1>4, <1>5, <1>6, <1>7 DEF WorkerStep

LEMMA GovernTables ==
  ASSUME Tables, GovernNext
  PROVE  TablesKept
<1>1. ASSUME NEW r \in Runs, NEW p \in Plans, NEW m, NEW k, NEW s, NEW e,
             CreateRun(r, p, m, k, s, e)
      PROVE  TablesKept
  BY <1>1, RunCreated
<1>2. CASE \/ \E p \in Plans, d \in {"approved", "rejected"}, who \in Actors,
                 e \in 1..Horizon : RecordApproval(p, d, who, e)
           \/ \E f \in Fabrics, x \in Adoptions, d, a \in Actors :
                 RecordAdoptedOwnedState(f, x, d, a)
  <2>1. UNCHANGED <<runs, reservations, plans, now>>
    BY <1>2 DEF RecordApproval, RecordAdoptedOwnedState
  <2> QED
    BY <2>1, QuietTables
<1>3. CASE Tick
  <2>1. UNCHANGED <<runs, reservations, plans>> /\ now' \in 0..MaxTime
    BY <1>3, TimeAssumption DEF Tick, Tables
  <2> QED
    BY <2>1
    DEF Tables, TablesKept, RunShape, ReservationShape, PlanShape,
        SimulationsStay, NothingReserved
<1> QED
  BY <1>1, <1>2, <1>3 DEF GovernNext

-----------------------------------------------------------------------------
(* A step of one handler.                                                   *)

Takes(h, x) == handler' = [handler EXCEPT ![h] = x]

LEMMA HandlerStepShape ==
  ASSUME HandlerShape, NEW h \in Handlers, NEW x, Proper(x), Takes(h, x)
  PROVE  /\ HandlerShape'
         /\ \A g \in Handlers : handler'[g] = IF g = h THEN x ELSE handler[g]
<1>1. /\ handler' = [g \in Handlers |-> handler'[g]]
      /\ \A g \in Handlers : handler'[g] = IF g = h THEN x ELSE handler[g]
  BY DEF HandlerShape, Takes
<1> QED
  BY <1>1 DEF HandlerShape, Proper

AtSimulation(x) == x.pc \in {"simulate", "fail"}

\* The simulation of y goes on in x, or goes on to fail its run.
GoesOn(y, x) == /\ AtSimulation(y) /\ x.run = y.run
                /\ x.pc = "simulate" => y.pc = "simulate"

\* One that does not begin to simulate, while no other simulation is ended.
LEMMA SoleKept ==
  ASSUME HandlerShape, SoleSimulator, SimulationsStay,
         NEW h \in Handlers, NEW x, Proper(x), Takes(h, x),
         AtSimulation(x) => GoesOn(handler[h], x)
  PROVE  SoleSimulator'
<1>1. ASSUME NEW g \in Handlers, NEW r \in Runs, Simulating(g, r)'
      PROVE  Simulating(g, r) /\ (handler[g].pc = "fail" => handler'[g].pc = "fail")
  BY <1>1, HandlerStepShape DEF Simulating, AtSimulation, GoesOn
<1>2. ASSUME NEW g \in Handlers, NEW r \in Runs, Simulating(g, r)'
      PROVE  \/ runs'[r].status = "dry_run_running"
             \/ handler'[g].pc = "fail" /\ runs'[r].status \in Verdicts
  <2>1. \/ runs[r].status = "dry_run_running"
        \/ handler[g].pc = "fail" /\ runs[r].status \in Verdicts
    BY <1>1, <1>2 DEF SoleSimulator
  <2> QED
    BY <1>1, <1>2, <2>1 DEF SimulationsStay
<1> QED
  BY <1>1, <1>2 DEF SoleSimulator

\* One that drops no reservation without its request ending in an error.
LEMMA LeakKept ==
  ASSUME HandlerShape, LeakOnlyByFailure, NothingReserved,
         NEW h \in Handlers, NEW x, Proper(x), Takes(h, x),
         orphaned \subseteq orphaned',
         handler[h].reservation \in Reservations =>
           \/ x.reservation = handler[h].reservation
           \/ handler[h].reservation \in orphaned'
  PROVE  LeakOnlyByFailure'
<1> SUFFICES ASSUME NEW v \in Reservations,
                    reservations'[v].state = "reserved",
                    \A p \in Plans : plans'[p].reservation # v,
                    v \notin orphaned'
             PROVE  \E g \in Handlers : handler'[g].reservation = v
  BY DEF LeakOnlyByFailure
<1>1. PICK g \in Handlers : handler[g].reservation = v
  BY DEF LeakOnlyByFailure, NothingReserved
<1> QED
  BY <1>1, HandlerStepShape

LEMMA QuietHandler ==
  ASSUME ServiceInv, TablesKept, NEW h \in Handlers, NEW x, Proper(x),
         Takes(h, x), orphaned \subseteq orphaned',
         AtSimulation(x) => GoesOn(handler[h], x),
         handler[h].reservation \in Reservations =>
           \/ x.reservation = handler[h].reservation
           \/ handler[h].reservation \in orphaned'
  PROVE  ServiceInv'
<1>1. HandlerShape'
  BY HandlerStepShape DEF ServiceInv
<1>2. SoleSimulator'
  BY SoleKept DEF ServiceInv, TablesKept
<1>3. LeakOnlyByFailure'
  BY LeakKept DEF ServiceInv, TablesKept
<1> QED
  BY <1>1, <1>2, <1>3 DEF ServiceInv, TablesKept

\* The answer to a request whose reservation is none or is accounted for.
LEMMA FreeProper == Proper(Free) /\ ~AtSimulation(Free)
  BY DEF Proper, Free, IsHandler, AtSimulation, PlanningAt

LEMMA AnswerStep ==
  ASSUME ServiceInv, TablesKept, NEW h \in Handlers, Answer(h),
         orphaned \subseteq orphaned',
         \/ handler[h].pc \notin PlanningAt
         \/ handler[h].reservation \in orphaned' \cup {None}
  PROVE  ServiceInv'
<1>1. Takes(h, Free)
  BY DEF Answer, Takes
<1>2. handler[h].reservation \in Reservations =>
        handler[h].reservation \in orphaned'
  BY NoneAssumption DEF ServiceInv, HandlerShape, Proper
<1> QED
  BY <1>1, <1>2, FreeProper, QuietHandler

\* A handler proceeds with the reservation it has.
LEMMA ProceedStep ==
  ASSUME ServiceInv, TablesKept, NEW h \in Handlers, NEW x,
         Proper(x), Takes(h, x), ~AtSimulation(x),
         x.reservation = handler[h].reservation, UNCHANGED orphaned
  PROVE  ServiceInv'
  BY QuietHandler

-----------------------------------------------------------------------------
(* Planning.                                                                *)

LEMMA StoreQuiet ==
  ASSUME ServiceInv, UNCHANGED storeVars
  PROVE  TablesKept
  BY QuietTables DEF ServiceInv, storeVars

\* The state of a handler that got a reservation, or submitted an intent.
Planner(i, v) == [Free EXCEPT !.pc = "validate", !.intent = i, !.reservation = v]

LEMMA PlannerProper ==
  ASSUME NEW i \in Intents, NEW v \in Reservations \cup {None}
  PROVE  /\ Proper(Planner(i, v)) /\ ~AtSimulation(Planner(i, v))
         /\ Planner(i, v).reservation = v
<1> DEFINE a == [Free EXCEPT !.pc = "validate"]
           b == [a EXCEPT !.intent = i]
           c == [b EXCEPT !.reservation = v]
<1>1. a = [pc |-> "validate", intent |-> None, reservation |-> None,
           plan |-> None, artifact |-> None, run |-> None, pos |-> 1,
           since |-> 0]
  BY DEF Free
<1> HIDE DEF a
<1>2. b = [pc |-> "validate", intent |-> i, reservation |-> None,
           plan |-> None, artifact |-> None, run |-> None, pos |-> 1,
           since |-> 0]
  BY <1>1
<1> HIDE DEF b
<1>3. c = [pc |-> "validate", intent |-> i, reservation |-> v,
           plan |-> None, artifact |-> None, run |-> None, pos |-> 1,
           since |-> 0]
  BY <1>2
<1>4. Planner(i, v) = c
  BY DEF Planner, a, b
<1> HIDE DEF c
<1> QED
  BY <1>3, <1>4 DEF Proper, IsHandler, AtSimulation, PlanningAt

LEMMA FreeHolds ==
  ASSUME ServiceInv, NEW h \in Handlers, handler[h] = Free
  PROVE  handler[h].reservation \notin Reservations
  BY NoneAssumption DEF ServiceInv, HandlerShape, Proper, Free, PlanningAt

LEMMA ReserveStep ==
  ASSUME ServiceInv, NEW h \in Handlers, NEW k \in Demands,
         ReserveForDemand(h, k)
  PROVE  ServiceInv'
<1>1. handler[h].reservation \notin Reservations /\ UNCHANGED orphaned
  BY FreeHolds DEF ReserveForDemand, history
<1>2. CASE \E v \in Holding(k) :
             /\ Planning(h, reservations[v].intent, v)
             /\ UNCHANGED <<storeVars, demandOf>>
  <2>1. PICK v \in Reservations :
          /\ ActiveResvn(v) /\ Planning(h, reservations[v].intent, v)
          /\ UNCHANGED storeVars
    BY <1>2 DEF Holding
  <2>3. reservations[v].intent \in Intents
    BY <2>1
    DEF ActiveResvn, ServiceInv, Tables, ReservationShape, IsReservation
  <2>2. Takes(h, Planner(reservations[v].intent, v))
    BY <2>1 DEF Planning, Takes, Planner
  <2> QED
    BY <1>1, <2>1, <2>2, <2>3, PlannerProper, StoreQuiet, QuietHandler
<1>3. CASE \E v \in Reservations :
             ReserveDesign(v, DesignOf[k]) /\ Planning(h, DesignOf[k], v)
  <2>1. PICK v \in Reservations :
          ReserveDesign(v, DesignOf[k]) /\ Planning(h, DesignOf[k], v)
    BY <1>3
  <2> DEFINE x == Planner(DesignOf[k], v)
  <2>2. Takes(h, x) /\ Proper(x) /\ ~AtSimulation(x) /\ x.reservation = v
    BY <2>1, PlannerProper, ServiceAssumption DEF Planning, Takes, Planner
  <2> HIDE DEF x
  <2>3. UNCHANGED <<runs, plans, now>>
    BY <2>1 DEF ReserveDesign
  <2>4. /\ ReservationShape'
        /\ \A u \in Reservations \ {v} : reservations'[u] = reservations[u]
    <3>1. PICK y : IsReservation(y) /\ reservations' = [reservations EXCEPT ![v] = y]
      BY <2>1, ServiceAssumption
      DEF ReserveDesign, IsReservation, ResvStates, ActiveResv
    <3> QED
      BY <3>1 DEF ServiceInv, Tables, ReservationShape
  <2>5. Tables' /\ SimulationsStay
    BY <2>3, <2>4
    DEF ServiceInv, Tables, RunShape, PlanShape, SimulationsStay
  <2>6. /\ HandlerShape'
        /\ \A g \in Handlers : handler'[g] = IF g = h THEN x ELSE handler[g]
    BY <2>2, HandlerStepShape DEF ServiceInv
  <2>7. SoleSimulator'
    BY <2>2, <2>5, SoleKept DEF ServiceInv
  <2>8. LeakOnlyByFailure'
    <3> SUFFICES ASSUME NEW u \in Reservations,
                        reservations'[u].state = "reserved",
                        \A p \in Plans : plans'[p].reservation # u,
                        u \notin orphaned'
                 PROVE  \E g \in Handlers : handler'[g].reservation = u
      BY DEF LeakOnlyByFailure
    <3>1. CASE u = v
      BY <2>2, <2>6, <3>1
    <3>2. CASE u # v
      <4>1. PICK g \in Handlers : handler[g].reservation = u
        BY <1>1, <2>3, <2>4, <3>2 DEF ServiceInv, LeakOnlyByFailure
      <4> QED
        BY <1>1, <2>6, <4>1
    <3> QED
      BY <3>1, <3>2
  <2> QED
    BY <2>5, <2>6, <2>7, <2>8 DEF ServiceInv
<1> QED
  BY <1>2, <1>3 DEF ReserveForDemand

LEMMA SubmitStep ==
  ASSUME ServiceInv, NEW h \in Handlers, NEW i \in Intents, SubmitIntent(h, i)
  PROVE  ServiceInv'
<1>1. Takes(h, Planner(i, None)) /\ handler[h].reservation \notin Reservations
  BY FreeHolds DEF SubmitIntent, Planning, Takes, Planner
<1>2. TablesKept /\ UNCHANGED orphaned
  BY StoreQuiet DEF SubmitIntent, history
<1> QED
  BY <1>1, <1>2, PlannerProper, QuietHandler

LEMMA ValidateStep ==
  ASSUME ServiceInv, NEW h \in Handlers, ValidateAndSaveIntent(h)
  PROVE  ServiceInv'
<1> DEFINE x == [handler[h] EXCEPT !.pc = "plan"]
<1>1. Takes(h, x) /\ UNCHANGED orphaned /\ handler[h].pc = "validate"
  BY DEF ValidateAndSaveIntent, Proceed, Takes, history
<1>2. TablesKept
  <2>1. UNCHANGED <<runs, reservations, plans, now>>
    BY DEF ValidateAndSaveIntent, SaveIntent, storeVars
  <2> QED
    BY <2>1, QuietTables DEF ServiceInv
<1>3. Proper(x) /\ ~AtSimulation(x) /\ x.reservation = handler[h].reservation
  BY <1>1
  DEF ServiceInv, HandlerShape, Proper, IsHandler, AtSimulation, PlanningAt
<1> QED
  BY <1>1, <1>2, <1>3, ProceedStep

\* The state of a handler that rendered the plan.
Rendered(y, p, a) ==
  [y EXCEPT !.pc = "save", !.plan = p, !.artifact = a]

LEMMA RenderedProper ==
  ASSUME NEW y, Proper(y), y.pc = "plan", NEW p \in Plans, NEW a \in Artifacts
  PROVE  /\ Proper(Rendered(y, p, a)) /\ ~AtSimulation(Rendered(y, p, a))
         /\ Rendered(y, p, a).reservation = y.reservation
<1> DEFINE b == [y EXCEPT !.pc = "save"]
           c == [b EXCEPT !.plan = p]
           d == [c EXCEPT !.artifact = a]
<1>1. b = [pc |-> "save", intent |-> y.intent, reservation |-> y.reservation,
           plan |-> y.plan, artifact |-> y.artifact, run |-> y.run,
           pos |-> y.pos, since |-> y.since]
  BY DEF Proper, IsHandler
<1> HIDE DEF b
<1>2. c = [pc |-> "save", intent |-> y.intent, reservation |-> y.reservation,
           plan |-> p, artifact |-> y.artifact, run |-> y.run,
           pos |-> y.pos, since |-> y.since]
  BY <1>1
<1> HIDE DEF c
<1>3. d = [pc |-> "save", intent |-> y.intent, reservation |-> y.reservation,
           plan |-> p, artifact |-> a, run |-> y.run,
           pos |-> y.pos, since |-> y.since]
  BY <1>2
<1>4. Rendered(y, p, a) = d
  BY DEF Rendered, b, c
<1> HIDE DEF d
<1> QED
  BY <1>3, <1>4 DEF Proper, IsHandler, AtSimulation, PlanningAt

LEMMA PlanningStep ==
  ASSUME ServiceInv, NEW h \in Handlers, PlanAndRender(h)
  PROVE  ServiceInv'
<1>1. PICK p \in Plans, a \in Artifacts : Takes(h, Rendered(handler[h], p, a))
  BY DEF PlanAndRender, Takes, Rendered
<1>2. TablesKept /\ UNCHANGED orphaned
  BY StoreQuiet DEF PlanAndRender, history
<1>3. Proper(handler[h]) /\ handler[h].pc = "plan"
  BY DEF ServiceInv, HandlerShape, PlanAndRender
<1> QED
  BY <1>1, <1>2, <1>3, RenderedProper, ProceedStep

\* A plan that is saved binds the reservation of its request and gives up none
\* that is still reserved.
LEMMA PersistStep ==
  ASSUME ServiceInv, NEW h \in Handlers, NEW who, PersistPlan(h, who)
  PROVE  ServiceInv'
<1> DEFINE p == handler[h].plan
           v == handler[h].reservation
<1>1. /\ p \in Plans /\ handler[h].artifact \in Artifacts
      /\ Takes(h, Free) /\ UNCHANGED orphaned
  BY DEF PersistPlan, ServiceInv, HandlerShape, Proper, Answer, Takes, history
<1>2. UNCHANGED <<runs, reservations, now>>
  BY DEF PersistPlan, SavePlan, storeVars
<1>3. /\ PlanShape'
      /\ plans'[p].reservation = v
      /\ \A q \in Plans :
           \/ plans'[q].reservation = plans[q].reservation
           \/ plans[q].reservation = None
           \/ ~ActiveResvn(plans[q].reservation)
  <2>1. CASE ~Saved(p) /\ plans' = [plans EXCEPT ![p] =
               [artifact |-> handler[h].artifact, reservation |-> v,
                created_by |-> who]]
    <3>1. PICK y : /\ y = [artifact |-> handler[h].artifact, reservation |-> v,
                           created_by |-> who]
                   /\ plans' = [plans EXCEPT ![p] = y]
      BY <2>1
    <3>2. IsPlan(y) /\ y.reservation = v
      BY <1>1, <3>1, NoneAssumption DEF IsPlan
    <3>3. plans[p].reservation = None
      BY <1>1, <2>1 DEF ServiceInv, Tables, PlanShape, IsPlan, Saved
    <3> QED
      BY <1>1, <3>1, <3>2, <3>3 DEF ServiceInv, Tables, PlanShape
  <2>2. CASE Resave(p, handler[h].artifact, v)
    <3>1. /\ plans' = [plans EXCEPT ![p].reservation = v]
          /\ plans[p].reservation = None \/ ~ActiveResvn(plans[p].reservation)
          /\ plans[p].artifact # None
      BY <1>1, <2>2, NoneAssumption DEF Resave, PriorActive
    <3>2. ASSUME NEW q \in Plans
          PROVE  /\ IsPlan(plans'[q])
                 /\ plans'[q].reservation =
                      IF q = p THEN v ELSE plans[q].reservation
      BY <1>1, <3>1, <3>2 DEF ServiceInv, Tables, PlanShape, IsPlan
    <3>3. plans' = [q \in Plans |-> plans'[q]]
      BY <3>1 DEF ServiceInv, Tables, PlanShape
    <3> QED
      BY <1>1, <3>1, <3>2, <3>3 DEF PlanShape
  <2>3. CASE StoredAlready(h) /\ UNCHANGED storeVars
    BY <2>3 DEF StoredAlready, storeVars, ServiceInv, Tables, PlanShape
  <2> QED
    BY <2>1, <2>2, <2>3 DEF PersistPlan, SavePlan
<1>4. Tables' /\ SimulationsStay
  BY <1>2, <1>3
  DEF ServiceInv, Tables, RunShape, ReservationShape, SimulationsStay
<1>5. /\ HandlerShape'
      /\ \A g \in Handlers : handler'[g] = IF g = h THEN Free ELSE handler[g]
  BY <1>1, FreeProper, HandlerStepShape DEF ServiceInv
<1>6. SoleSimulator'
  BY <1>1, <1>4, FreeProper, SoleKept DEF ServiceInv
<1>7. LeakOnlyByFailure'
  <2> SUFFICES ASSUME NEW u \in Reservations,
                      reservations'[u].state = "reserved",
                      \A q \in Plans : plans'[q].reservation # u,
                      u \notin orphaned'
               PROVE  \E g \in Handlers : handler'[g].reservation = u
    BY DEF LeakOnlyByFailure
  <2>1. \A q \in Plans : plans[q].reservation # u
    BY <1>2, <1>3, NoneAssumption DEF ActiveResvn, ActiveResv
  <2>2. PICK g \in Handlers : handler[g].reservation = u
    BY <1>1, <1>2, <2>1 DEF ServiceInv, LeakOnlyByFailure
  <2>3. g # h
    BY <1>1, <1>3, <2>2
  <2> QED
    BY <1>5, <2>2, <2>3
<1> QED
  BY <1>4, <1>5, <1>6, <1>7 DEF ServiceInv

LEMMA PlanningFailsStep ==
  ASSUME ServiceInv, NEW h \in Handlers, PlanningFails(h)
  PROVE  ServiceInv'
<1>1. /\ Answer(h)
      /\ orphaned' = orphaned \cup ({handler[h].reservation} \ {None})
  BY DEF PlanningFails
<1>2. TablesKept
  BY StoreQuiet DEF PlanningFails
<1> QED
  BY <1>1, <1>2, AnswerStep

-----------------------------------------------------------------------------
(* Confirming.                                                              *)

\* A local state that holds no reservation and does not simulate.
Idling(x) == x.pc \in {"confirm", "queued"} /\ x.reservation = None

LEMMA RequestStep ==
  ASSUME ServiceInv, TablesKept, NEW h \in Handlers, handler[h] = Free,
         NEW x, Proper(x), Idling(x), Takes(h, x), UNCHANGED orphaned
  PROVE  ServiceInv'
<1>1. ~AtSimulation(x)
  BY DEF Idling, AtSimulation
<1> QED
  BY <1>1, FreeHolds, QuietHandler

LEMMA ConfirmStep ==
  ASSUME ServiceInv, NEW h \in Handlers, NEW p \in Plans, NEW who,
         ConfirmApproves(h, p, who)
  PROVE  ServiceInv'
<1> DEFINE a == [Free EXCEPT !.pc = "confirm"]
           b == [a EXCEPT !.plan = p]
           c == [b EXCEPT !.since = now]
<1>1. a = [pc |-> "confirm", intent |-> None, reservation |-> None,
           plan |-> None, artifact |-> None, run |-> None, pos |-> 1,
           since |-> 0]
  BY DEF Free
<1> HIDE DEF a
<1>2. b = [pc |-> "confirm", intent |-> None, reservation |-> None,
           plan |-> p, artifact |-> None, run |-> None, pos |-> 1,
           since |-> 0]
  BY <1>1
<1> HIDE DEF b
<1>3. c = [pc |-> "confirm", intent |-> None, reservation |-> None,
           plan |-> p, artifact |-> None, run |-> None, pos |-> 1,
           since |-> now]
  BY <1>2
<1>4. Takes(h, c)
  BY DEF ConfirmApproves, Takes, a, b
<1>5. TablesKept /\ UNCHANGED orphaned /\ handler[h] = Free
  <2>1. UNCHANGED <<runs, reservations, plans, now>>
    BY DEF ConfirmApproves, RecordApproval
  <2> QED
    BY <2>1, QuietTables DEF ConfirmApproves, history, ServiceInv
<1> HIDE DEF c
<1>6. Proper(c) /\ Idling(c)
  BY <1>3 DEF Proper, IsHandler, Idling, PlanningAt, ServiceInv, Tables
<1> QED
  BY <1>4, <1>5, <1>6, RequestStep

LEMMA ConfirmEnds ==
  ASSUME ServiceInv, NEW h \in Handlers, ConfirmRuns(h) \/ ConfirmFails(h)
  PROVE  ServiceInv'
<1>1. Answer(h) /\ UNCHANGED orphaned /\ handler[h].pc = "confirm"
  BY DEF ConfirmRuns, ConfirmFails, history
<1>2. TablesKept
  <2>1. CASE UNCHANGED storeVars
    BY <2>1, StoreQuiet
  <2>2. CASE \E r \in Runs :
               CreateRun(r, handler[h].plan, "apply", ConfirmKey[handler[h].plan],
                         handler[h].since, handler[h].since + Window)
    <3>1. handler[h].plan \in Plans
      BY <1>1 DEF ServiceInv, HandlerShape, Proper
    <3> QED
      BY <2>2, <3>1, RunCreated DEF ServiceInv
  <2> QED
    BY <2>1, <2>2 DEF ConfirmRuns, ConfirmFails
<1> QED
  BY <1>1, <1>2, AnswerStep DEF PlanningAt

-----------------------------------------------------------------------------
(* Simulating.                                                              *)

LEMMA ProcessDryRunStep ==
  ASSUME ServiceInv, NEW h \in Handlers, NEW r \in Runs, ProcessDryRun(h, r)
  PROVE  ServiceInv'
<1> DEFINE a == [Free EXCEPT !.pc = "queued"]
           b == [a EXCEPT !.run = r]
           c == [b EXCEPT !.artifact = Rendering[release][runs[r].plan]]
<1>1. a = [pc |-> "queued", intent |-> None, reservation |-> None,
           plan |-> None, artifact |-> None, run |-> None, pos |-> 1,
           since |-> 0]
  BY DEF Free
<1> HIDE DEF a
<1>2. b = [pc |-> "queued", intent |-> None, reservation |-> None,
           plan |-> None, artifact |-> None, run |-> r, pos |-> 1,
           since |-> 0]
  BY <1>1
<1> HIDE DEF b
<1>3. c = [pc |-> "queued", intent |-> None, reservation |-> None,
           plan |-> None, artifact |-> Rendering[release][runs[r].plan],
           run |-> r, pos |-> 1, since |-> 0]
  BY <1>2
<1>4. Takes(h, c)
  BY DEF ProcessDryRun, Takes, a, b
<1>5. TablesKept /\ UNCHANGED orphaned /\ handler[h] = Free
  BY StoreQuiet DEF ProcessDryRun, history
<1> HIDE DEF c
<1>6. Proper(c) /\ Idling(c)
  BY <1>3 DEF ProcessDryRun, Proper, IsHandler, Idling, PlanningAt
<1> QED
  BY <1>4, <1>5, <1>6, RequestStep

\* Who moves a run to dry_run_running finds nobody simulating it.
LEMMA BeginStep ==
  ASSUME ServiceInv, NEW h \in Handlers, BeginSimulation(h)
  PROVE  ServiceInv'
<1>1. UNCHANGED orphaned /\ handler[h].pc = "queued"
  BY DEF BeginSimulation
<1>2. CASE Lose(h)
  <2>1. TablesKept
    BY <1>2, StoreQuiet, RunMoved DEF BeginSimulation, ServiceInv
  <2> QED
    BY <1>1, <1>2, <2>1, AnswerStep DEF Lose, PlanningAt
<1>3. CASE TransitionRun(handler[h].run, "dry_run_running")
             /\ Proceed(h, "simulate")
  <2> DEFINE r == handler[h].run
             x == [handler[h] EXCEPT !.pc = "simulate"]
  <2>1. TablesKept
    BY <1>3, RunMoved DEF ServiceInv
  <2>2. Takes(h, x)
    BY <1>3 DEF Proceed, Takes
  <2>3. x = [pc |-> "simulate", intent |-> handler[h].intent,
             reservation |-> handler[h].reservation, plan |-> handler[h].plan,
             artifact |-> handler[h].artifact, run |-> r,
             pos |-> handler[h].pos, since |-> handler[h].since]
    BY DEF ServiceInv, HandlerShape, Proper, IsHandler
  <2> HIDE DEF x
  <2>4. /\ IsHandler(x) /\ x.run = r /\ x.pc = "simulate"
        /\ x.reservation = handler[h].reservation
    BY <2>3 DEF IsHandler
  <2>5. Proper(x)
    BY <1>1, <2>3, <2>4 DEF ServiceInv, HandlerShape, Proper, PlanningAt
  <2>6. /\ HandlerShape'
        /\ \A g \in Handlers : handler'[g] = IF g = h THEN x ELSE handler[g]
    BY <2>2, <2>5, HandlerStepShape DEF ServiceInv
  <2>7. LeakOnlyByFailure'
    BY <1>1, <2>1, <2>2, <2>4, <2>5, LeakKept DEF ServiceInv, TablesKept
  <2>8. SoleSimulator'
    <3>1. r \in Runs => runs[r].status = "dry_run_queued"
      BY <1>3, DryRunBegins
      DEF TransitionRun, Created, ServiceInv, Tables, RunShape, IsRun
    <3>2. r \in Runs => runs'[r].status = "dry_run_running"
      <4>1. SetStatus(r, "dry_run_running") /\ Created(r)
        BY <1>3 DEF TransitionRun, SetStatus
      <4>2. OnlyStatus(r, "dry_run_running")
        BY <4>1, StatusStep
        DEF ServiceInv, Tables, RunStatus, DryRunActive
      <4> QED
        BY <4>2 DEF OnlyStatus
    <3>3. ASSUME NEW g \in Handlers, NEW q \in Runs, Simulating(g, q)'
          PROVE  \/ g = h /\ q = r
                 \/ q # r /\ Simulating(g, q)
      <4>1. CASE g = h
        <5>1. handler'[g] = x
          BY <2>6, <4>1
        <5>2. handler'[g].run = q
          BY <3>3 DEF Simulating
        <5>3. q = r
          BY <2>4, <5>1, <5>2
        <5> QED
          BY <4>1, <5>3
      <4>2. CASE g # h
        <5>1. Simulating(g, q)
          BY <2>6, <3>3, <4>2 DEF Simulating
        <5> QED
          BY <3>1, <5>1 DEF ServiceInv, SoleSimulator, Verdicts
      <4> QED
        BY <4>1, <4>2
    <3>4. ASSUME NEW g \in Handlers, NEW q \in Runs, Simulating(g, q)'
          PROVE  \/ runs'[q].status = "dry_run_running"
                 \/ handler'[g].pc = "fail" /\ runs'[q].status \in Verdicts
      <4>1. CASE q = r
        BY <3>2, <4>1
      <4>2. CASE q # r
        <5>1. Simulating(g, q) /\ handler'[g] = handler[g]
          BY <2>6, <3>3, <3>4, <4>2 DEF Simulating
        <5> QED
          BY <2>1, <5>1
          DEF ServiceInv, SoleSimulator, TablesKept, SimulationsStay
      <4> QED
        BY <4>1, <4>2
    <3> QED
      BY <3>3, <3>4 DEF ServiceInv, SoleSimulator
  <2> QED
    BY <2>1, <2>6, <2>7, <2>8 DEF ServiceInv, TablesKept
<1> QED
  BY <1>2, <1>3 DEF BeginSimulation

\* The state of a handler that goes on to fail its run.
LEMMA RaisesProper ==
  ASSUME ServiceInv, NEW h \in Handlers, AtSimulation(handler[h]),
         RaiseOnError(h)
  PROVE  \E x : /\ Takes(h, x) /\ Proper(x)
                /\ x.run = handler[h].run /\ x.pc = "fail"
<1> DEFINE r == handler[h].run
           a == [Free EXCEPT !.pc = "fail"]
           b == [a EXCEPT !.run = r]
<1>1. a = [pc |-> "fail", intent |-> None, reservation |-> None,
           plan |-> None, artifact |-> None, run |-> None, pos |-> 1,
           since |-> 0]
  BY DEF Free
<1> HIDE DEF a
<1>2. b = [pc |-> "fail", intent |-> None, reservation |-> None,
           plan |-> None, artifact |-> None, run |-> r, pos |-> 1,
           since |-> 0]
  BY <1>1
<1>3. Takes(h, b)
  BY DEF RaiseOnError, Takes, a
<1> HIDE DEF b
<1>4. r \in Runs
  BY DEF AtSimulation, ServiceInv, HandlerShape, Proper
<1>5. Proper(b) /\ b.run = r /\ b.pc = "fail"
  BY <1>2, <1>4 DEF Proper, IsHandler, PlanningAt
<1> QED
  BY <1>3, <1>5

LEMMA HoldsNone ==
  ASSUME ServiceInv, NEW h \in Handlers, AtSimulation(handler[h])
  PROVE  handler[h].reservation \notin Reservations
  BY NoneAssumption DEF ServiceInv, HandlerShape, Proper, AtSimulation, PlanningAt

LEMMA RaiseOnErrorStep ==
  ASSUME ServiceInv, TablesKept, NEW h \in Handlers, AtSimulation(handler[h]),
         RaiseOnError(h), UNCHANGED orphaned
  PROVE  ServiceInv'
<1>1. PICK x : /\ Takes(h, x) /\ Proper(x)
               /\ x.run = handler[h].run /\ x.pc = "fail"
  BY RaisesProper
<1>2. GoesOn(handler[h], x)
  BY <1>1 DEF GoesOn
<1> QED
  BY <1>1, <1>2, HoldsNone, QuietHandler

\* A verdict, or a failure, ends the simulation of the handler's own run; if the
\* call raised, the handler goes on to fail a run that has its verdict.
LEMMA EndsOwn ==
  ASSUME ServiceInv, NEW h \in Handlers, AtSimulation(handler[h]), NEW s,
         TransitionRun(handler[h].run, s), UNCHANGED orphaned,
         Answer(h) \/ (RaiseOnError(h) /\ s \in Verdicts)
  PROVE  ServiceInv'
<1> DEFINE r == handler[h].run
<1>1. /\ SetStatus(r, s) /\ Created(r) /\ s \in RunMoves[runs[r].status]
      /\ UNCHANGED <<reservations, plans, now>>
  BY DEF TransitionRun, SetStatus
<1>9. r \in Runs
  BY DEF ServiceInv, HandlerShape, Proper, AtSimulation
<1>2. RunShape' /\ OnlyStatus(r, s)
  BY <1>1, <1>9, DryRunBegins, StatusStep
  DEF ServiceInv, Tables, RunShape, IsRun, Created
<1>3. Tables' /\ NothingReserved
  BY <1>1, <1>2
  DEF ServiceInv, Tables, ReservationShape, PlanShape, NothingReserved
<1>4. PICK x : /\ Takes(h, x) /\ Proper(x)
               /\ AtSimulation(x) => /\ x.run = r /\ x.pc = "fail"
                                     /\ s \in Verdicts
  BY FreeProper, RaisesProper DEF Answer, Takes
<1>5. /\ HandlerShape'
      /\ \A g \in Handlers : handler'[g] = IF g = h THEN x ELSE handler[g]
  BY <1>4, HandlerStepShape DEF ServiceInv
<1>7. LeakOnlyByFailure'
  BY <1>3, <1>4, HoldsNone, LeakKept DEF ServiceInv
<1>8. SoleSimulator'
  <2>1. ASSUME NEW g \in Handlers, NEW q \in Runs, Simulating(g, q)'
        PROVE  Simulating(g, q) /\ (q = r => g = h)
    <3>1. Simulating(g, q)
      BY <1>4, <1>5, <2>1 DEF Simulating, AtSimulation
    <3>2. q = r => Simulating(h, q)
      BY DEF Simulating, AtSimulation
    <3> QED
      BY <3>1, <3>2 DEF ServiceInv, SoleSimulator
  <2>2. ASSUME NEW g \in Handlers, NEW q \in Runs, Simulating(g, q)'
        PROVE  \/ runs'[q].status = "dry_run_running"
               \/ handler'[g].pc = "fail" /\ runs'[q].status \in Verdicts
    <3>1. CASE q = r
      <4>1. handler'[g] = x /\ AtSimulation(x)
        BY <1>5, <2>1, <2>2, <3>1 DEF Simulating, AtSimulation
      <4> QED
        BY <1>2, <1>4, <1>9, <3>1, <4>1 DEF OnlyStatus
    <3>2. CASE q # r
      <4>1. handler'[g] = handler[g]
        BY <1>5, <2>1, <2>2, <3>2 DEF Simulating
      <4> QED
        BY <1>2, <2>1, <2>2, <3>2, <4>1
        DEF OnlyStatus, ServiceInv, SoleSimulator
    <3> QED
      BY <3>1, <3>2
  <2> QED
    BY <2>1, <2>2 DEF ServiceInv, SoleSimulator
<1> QED
  BY <1>3, <1>5, <1>7, <1>8 DEF ServiceInv

LEMMA EvidenceStep ==
  ASSUME ServiceInv, NEW h \in Handlers, AddEvidence(h)
  PROVE  ServiceInv'
<1>1. /\ TablesKept /\ UNCHANGED orphaned
      /\ handler[h].pc = "simulate" /\ AtSimulation(handler[h])
  BY StoreQuiet DEF AddEvidence, history, AtSimulation
<1>2. CASE RaiseOnError(h)
  BY <1>1, <1>2, RaiseOnErrorStep
<1>3. CASE handler' = [handler EXCEPT ![h].pos = @ + 1]
  <2> DEFINE n == handler[h].pos + 1
             x == [handler[h] EXCEPT !.pos = n]
  <2>1. Takes(h, x)
    BY <1>3 DEF Takes
  <2> HIDE DEF n
  <2>2. x = [pc |-> handler[h].pc, intent |-> handler[h].intent,
             reservation |-> handler[h].reservation, plan |-> handler[h].plan,
             artifact |-> handler[h].artifact, run |-> handler[h].run,
             pos |-> n, since |-> handler[h].since]
    BY DEF ServiceInv, HandlerShape, Proper, IsHandler
  <2>5. n \in Nat \ {0}
    BY <1>1 DEF n, ServiceInv, HandlerShape, Proper
  <2> HIDE DEF x
  <2>3. /\ IsHandler(x) /\ x.pc = "simulate" /\ x.run = handler[h].run
        /\ x.reservation = handler[h].reservation
    BY <1>1, <2>2 DEF IsHandler
  <2>4. Proper(x)
    BY <1>1, <2>2, <2>3, <2>5 DEF ServiceInv, HandlerShape, Proper, PlanningAt
  <2> QED
    BY <1>1, <2>1, <2>3, <2>4, QuietHandler DEF GoesOn
<1> QED
  BY <1>2, <1>3 DEF AddEvidence

LEMMA EndStep ==
  ASSUME ServiceInv, NEW h \in Handlers,
         EndSimulation(h) \/ FailSimulation(h)
  PROVE  ServiceInv'
<1>1. /\ UNCHANGED orphaned /\ AtSimulation(handler[h])
      /\ handler[h].pc \notin PlanningAt
      /\ Verdict(handler[h].artifact) \in Verdicts
  BY DEF EndSimulation, FailSimulation, FailRun, history, AtSimulation,
         PlanningAt, Verdict, Verdicts
<1>2. CASE RaiseOnError(h) /\ UNCHANGED storeVars
  BY <1>1, <1>2, StoreQuiet, RaiseOnErrorStep
<1>3. CASE Answer(h) /\ UNCHANGED storeVars
  BY <1>1, <1>3, StoreQuiet, AnswerStep
<1>4. CASE /\ TransitionRun(handler[h].run, Verdict(handler[h].artifact))
           /\ Answer(h) \/ RaiseOnError(h)
  BY <1>1, <1>4, EndsOwn
<1>5. CASE TransitionRun(handler[h].run, "dry_run_failed") /\ Answer(h)
  BY <1>1, <1>5, EndsOwn
<1> QED
  BY <1>2, <1>3, <1>4, <1>5 DEF EndSimulation, FailSimulation, FailRun

-----------------------------------------------------------------------------
(* The service and the workers.                                             *)

\* What the handlers do not see.
LEMMA ElsewhereStep ==
  ASSUME ServiceInv, TablesKept, UNCHANGED <<handler, orphaned>>
  PROVE  ServiceInv'
<1>1. HandlerShape' /\ SoleSimulator'
  BY DEF ServiceInv, TablesKept, HandlerShape, SoleSimulator, Simulating,
         SimulationsStay
<1>2. LeakOnlyByFailure'
  BY DEF ServiceInv, TablesKept, LeakOnlyByFailure, NothingReserved
<1> QED
  BY <1>1, <1>2 DEF ServiceInv, TablesKept

LEMMA DiesStep ==
  ASSUME ServiceInv, ServiceDies
  PROVE  ServiceInv'
<1>1. TablesKept
  BY StoreQuiet DEF ServiceDies
<1>2. \A h \in Handlers : handler'[h] = Free
  BY DEF ServiceDies
<1>3. HandlerShape'
  BY <1>2, FreeProper DEF ServiceDies, HandlerShape, Proper
<1>4. SoleSimulator'
  BY <1>2, FreeProper DEF SoleSimulator, Simulating, AtSimulation
<1>5. LeakOnlyByFailure'
  <2> SUFFICES ASSUME NEW v \in Reservations,
                      reservations'[v].state = "reserved",
                      \A p \in Plans : plans'[p].reservation # v,
                      v \notin orphaned'
               PROVE  FALSE
    BY DEF LeakOnlyByFailure
  <2>1. v \notin orphaned
    BY DEF ServiceDies
  <2>2. PICK g \in Handlers : handler[g].reservation = v
    BY <1>1, <2>1 DEF ServiceInv, LeakOnlyByFailure, TablesKept, NothingReserved
  <2>3. handler[g] # Free
    BY <2>2, FreeHolds
  <2> QED
    BY <2>2, <2>3, NoneAssumption DEF ServiceDies
<1> QED
  BY <1>1, <1>3, <1>4, <1>5 DEF ServiceInv, TablesKept

LEMMA InitService == OInit => ServiceInv
<1> SUFFICES ASSUME OInit
             PROVE  ServiceInv
  OBVIOUS
<1>1. RunShape /\ PlanShape
  BY DEF OInit, WInit, Init, RunShape, PlanShape, NoRun, NoPlan, IsRun, IsPlan,
         RunStatus, ApplyActive, DryRunActive, Terminal
<1>2. ReservationShape /\ LeakOnlyByFailure
  BY DEF OInit, WInit, Init, ReservationShape, NoReservation, IsReservation,
         ActiveResv, ResvStates, LeakOnlyByFailure
<1>3. HandlerShape /\ SoleSimulator
  BY FreeProper
  DEF OInit, HandlerShape, Proper, SoleSimulator, Simulating, AtSimulation
<1>4. now \in 0..MaxTime
  BY TimeAssumption DEF OInit, WInit, Init
<1> QED
  BY <1>1, <1>2, <1>3, <1>4 DEF ServiceInv, Tables

LEMMA NextService ==
  ASSUME ServiceInv, [ONext]_allVars
  PROVE  ServiceInv'
<1>1. ASSUME NEW h \in Handlers, Request(h)
      PROVE  ServiceInv'
  BY <1>1, ReserveStep, SubmitStep, ConfirmStep, ProcessDryRunStep DEF Request
<1>2. ASSUME NEW h \in Handlers, HandlerStep(h)
      PROVE  ServiceInv'
  BY <1>2, ValidateStep, PlanningStep, PersistStep, PlanningFailsStep, ConfirmEnds,
     BeginStep, EvidenceStep, EndStep
  DEF HandlerStep
<1>3. CASE SingleRequest
  BY <1>3, GovernTables, ElsewhereStep
  DEF SingleRequest, apiVars, history, ServiceInv
<1>4. CASE Upgrade
  BY <1>4, StoreQuiet, ElsewhereStep DEF Upgrade, history
<1>5. ASSUME NEW w \in Workers, WorkStep(w)
      PROVE  ServiceInv'
  BY <1>5, WorkerTables, ElsewhereStep
  DEF WorkStep, apiVars, history, ServiceInv
<1>6. ASSUME NEW w \in Workers, NEW r \in Runs, StartRun(w, r)
      PROVE  ServiceInv'
  BY <1>6, StoreQuiet, ElsewhereStep DEF StartRun, Start, apiVars, history
<1>7. CASE UNCHANGED allVars
  BY <1>7, StoreQuiet, ElsewhereStep DEF allVars, vars, apiVars, history
<1> QED
  BY <1>1, <1>2, <1>3, <1>4, <1>5, <1>6, <1>7, DiesStep DEF ONext

-----------------------------------------------------------------------------
(* The theorems. *)

\* What the two theorems below rest on: what each handler may hold while the
\* tables change under it.
THEOREM ServiceInvariant == OSpec => []ServiceInv
<1>1. OInit => ServiceInv
  BY InitService
<1>2. ServiceInv /\ [ONext]_allVars => ServiceInv'
  BY NextService
<1> QED
  BY <1>1, <1>2, PTL DEF OSpec

\* However many requests ask for one dry run at a time, one handler simulates
\* it (api.process_dry_run), and as long as it does neither a worker nor
\* another request ends the run.
THEOREM OneSimulates == OSpec => []SoleSimulator
<1>1. ServiceInv => SoleSimulator
  BY DEF ServiceInv
<1> QED
  BY <1>1, ServiceInvariant, PTL

\* Planning handlers leave a reservation without a plan only by an error or
\* the death of the service, whichever requests, retries, rebindings of plans
\* and settlements by workers come between their transactions (api.py).
THEOREM OnlyFailuresLeak == OSpec => []LeakOnlyByFailure
<1>1. ServiceInv => LeakOnlyByFailure
  BY DEF ServiceInv
<1> QED
  BY <1>1, ServiceInvariant, PTL

-----------------------------------------------------------------------------
(* The service is a client of the store beside the workers: what the workers *)
(* and the store guarantee, they guarantee behind this service.              *)

\* What a request does to the tables at a time.
Serves == DesignNext \/ GovernNext \/ SimulateNext \/ UNCHANGED storeVars

LEMMA PlanningServes ==
  ASSUME ServiceInv, NEW h \in Handlers,
         \/ \E k \in Demands : ReserveForDemand(h, k)
         \/ \E i \in Intents : SubmitIntent(h, i)
         \/ ValidateAndSaveIntent(h) \/ PlanAndRender(h)
         \/ \E who \in Planners : PersistPlan(h, who)
         \/ PlanningFails(h)
  PROVE  Serves /\ UNCHANGED workVars
<1>1. ASSUME NEW k \in Demands, ReserveForDemand(h, k)
      PROVE  Serves /\ UNCHANGED workVars
  BY <1>1, ServiceAssumption DEF ReserveForDemand, Serves, DesignNext
<1>2. CASE ValidateAndSaveIntent(h)
  <2>1. handler[h].intent \in Intents
    BY <1>2
    DEF ValidateAndSaveIntent, ServiceInv, HandlerShape, Proper, PlanningAt
  <2> QED
    BY <1>2, <2>1 DEF ValidateAndSaveIntent, Serves, DesignNext
<1>3. ASSUME NEW who \in Planners, PersistPlan(h, who)
      PROVE  Serves /\ UNCHANGED workVars
  <2>1. /\ handler[h].plan \in Plans /\ handler[h].artifact \in Artifacts
        /\ handler[h].reservation \in Reservations \cup {None}
    BY <1>3 DEF PersistPlan, ServiceInv, HandlerShape, Proper, PlanningAt
  <2>2. who \in Actors
    BY ServiceAssumption
  <2> QED
    BY <1>3, <2>1, <2>2 DEF PersistPlan, Serves, DesignNext
<1>4. CASE \/ \E i \in Intents : SubmitIntent(h, i)
           \/ PlanAndRender(h) \/ PlanningFails(h)
  BY <1>4 DEF SubmitIntent, PlanAndRender, PlanningFails, Serves
<1> QED
  BY <1>1, <1>2, <1>3, <1>4

LEMMA ConfirmingServes ==
  ASSUME ServiceInv, NEW h \in Handlers,
         \/ \E p \in Plans, who \in Actors : ConfirmApproves(h, p, who)
         \/ ConfirmRuns(h) \/ ConfirmFails(h)
  PROVE  Serves /\ UNCHANGED workVars
<1>1. ASSUME NEW p \in Plans, NEW who \in Actors, ConfirmApproves(h, p, who)
      PROVE  Serves /\ UNCHANGED workVars
  <2>1. now + Window \in 1..Horizon
    BY ServiceAssumption, TimeAssumption DEF ServiceInv, Tables
  <2> QED
    BY <1>1, <2>1 DEF ConfirmApproves, Serves, GovernNext
<1>2. CASE ConfirmRuns(h)
  <2> DEFINE x == handler[h]
  <2>1. x.plan \in Plans /\ x.since \in 0..MaxTime
    BY <1>2 DEF ConfirmRuns, ServiceInv, HandlerShape, Proper
  <2>2. /\ ConfirmKey[x.plan] \in Keys
        /\ x.since \in 0..Horizon /\ x.since + Window \in 0..Horizon
    BY <2>1, ServiceAssumption, TimeAssumption
  <2> QED
    BY <1>2, <2>1, <2>2 DEF ConfirmRuns, Serves, GovernNext
<1>3. CASE ConfirmFails(h)
  BY <1>3 DEF ConfirmFails, Serves
<1> QED
  BY <1>1, <1>2, <1>3

LEMMA SimulatingServes ==
  ASSUME ServiceInv, NEW h \in Handlers,
         \/ \E r \in Runs : ProcessDryRun(h, r)
         \/ BeginSimulation(h) \/ AddEvidence(h) \/ EndSimulation(h)
         \/ FailSimulation(h)
  PROVE  Serves /\ UNCHANGED workVars
<1>1. CASE (\E r \in Runs : ProcessDryRun(h, r)) \/ AddEvidence(h)
  BY <1>1 DEF ProcessDryRun, AddEvidence, Serves
<1>2. CASE BeginSimulation(h) \/ EndSimulation(h) \/ FailSimulation(h)
  <2>1. handler[h].run \in Runs
    BY <1>2
    DEF BeginSimulation, EndSimulation, FailSimulation, ServiceInv,
        HandlerShape, Proper
  <2>2. /\ "dry_run_running" \in Simulated /\ "dry_run_failed" \in Simulated
        /\ Verdict(handler[h].artifact) \in Simulated
    BY DEF Simulated, Verdict
  <2> QED
    BY <1>2, <2>1, <2>2
    DEF BeginSimulation, EndSimulation, FailSimulation, FailRun, Serves,
        SimulateNext
<1> QED
  BY <1>1, <1>2

LEMMA ServiceStep ==
  ASSUME ServiceInv, [ONext]_allVars
  PROVE  [WNext]_vars
<1>1. ASSUME Serves, UNCHANGED workVars
      PROVE  [WNext]_vars
  BY <1>1 DEF Serves, workVars, WNext, ClientStep, vars
<1>2. ASSUME NEW h \in Handlers, Request(h) \/ HandlerStep(h)
      PROVE  [WNext]_vars
  BY <1>1, <1>2, PlanningServes, ConfirmingServes, SimulatingServes
  DEF Request, HandlerStep
<1>3. CASE SingleRequest
  BY <1>1, <1>3 DEF SingleRequest, Serves
<1>4. CASE ServiceDies \/ Upgrade
  BY <1>1, <1>4 DEF ServiceDies, Upgrade, Serves
<1>5. ASSUME NEW w \in Workers,
             WorkStep(w) \/ \E r \in Runs : StartRun(w, r)
      PROVE  [WNext]_vars
  BY <1>5 DEF WorkStep, StartRun, WNext
<1>6. CASE UNCHANGED allVars
  BY <1>6 DEF allVars
<1> QED
  BY <1>2, <1>3, <1>4, <1>5, <1>6 DEF ONext

\* Orchestrator implements ApplyWorker: no request, interrupted or repeated,
\* does anything to the tables or the fabric that ApplyWorker does not allow
\* its clients (api.py, simulator.py: every change goes through the store).
THEOREM ServiceImplementsWorkers == OSpec => WSpec
<1>1. OInit => WInit
  BY DEF OInit
<1>2. ServiceInv /\ [ONext]_allVars => [WNext]_vars
  BY ServiceStep
<1> QED
  BY <1>1, <1>2, ServiceInvariant, PTL DEF OSpec, WSpec

\* So behind the service as well one process writes to a fabric at a time, the
\* ledger is what the runs say, a run that succeeded is whole, one that was
\* unwound left no trace, and no finished run is touched again.
THEOREM ServiceSafety ==
  ASSUME Recovery \in {"none", "dead"}
  PROVE  OSpec => /\ []SoleWriter
                  /\ []LedgerMatchesOutcome
                  /\ []CommittedIsDeployed
                  /\ UnwindRestores
                  /\ SuccessIsWhole
                  /\ TerminalIsFinal
  BY ServiceImplementsWorkers, SoleWriterHolds, LedgerMatches,
     CommittedDeployed, RunsUnwind, SuccessWhole, WorkerImplementsStore,
     FinishedStays, PTL

-----------------------------------------------------------------------------
(* The record of a simulation. *)

\* What the handler has recorded so far, of the artifact it rendered.
RecordedBy(h) ==
  /\ handler[h].pos - 1 <= Len(ItemsOf(h))
  /\ evidence[handler[h].run] = {ItemsOf(h)[k] : k \in 1..(handler[h].pos - 1)}

\* Nothing is recorded before a handler made the run its own, and while it is
\* running there is nothing but what that handler recorded.
RecordInv ==
  /\ evidence = [r \in Runs |-> evidence[r]]
  /\ \A r \in Runs : runs[r].status \in NotBegun => evidence[r] = {}
  /\ \A h \in Handlers : handler[h].pc = "simulate" => RecordedBy(h)
  /\ SimulationWhole

ItemSet(a, f) ==
  {a} \X (DevicesOf(f) \cup {None})
      \X ({Phases[i] : i \in 1..Len(Phases)} \cup {"dry_run_summary"})

LEMMA ItemsType ==
  ASSUME NEW a, NEW f \in Fabrics
  PROVE  Items(a, f) \in Seq(ItemSet(a, f))
<1> DEFINE T == ItemSet(a, f)
           order == DeviceOrder[f]
<1>1. /\ Len(order) \in Nat /\ Len(Phases) \in Nat
      /\ \A i \in 1..Len(order) : order[i] \in DevicesOf(f)
  BY DeviceAssumption, PhaseAssumption DEF DevicesOf
<1>2. ASSUME NEW d \in DevicesOf(f)
      PROVE  ItemsOn(a, d) \in Seq(T)
  <2>1. ASSUME NEW i \in 1..Len(Phases)
        PROVE  <<a, d, Phases[i]>> \in T
    BY <1>2, <2>1 DEF ItemSet
  <2> HIDE DEF T
  <2> QED
    BY <1>1, <2>1 DEF ItemsOn
<1>3. <<a, None, "dry_run_summary">> \in T
  BY DEF ItemSet
<1> DEFINE all == [i \in 1..Len(order) |-> ItemsOn(a, order[i])]
           summary == <<<<a, None, "dry_run_summary">>>>
<1>4. Items(a, f) = FlattenSeq(all) \o summary
  BY DEF Items
<1> HIDE DEF T, order
<1>5. all \in Seq(Seq(T)) /\ summary \in Seq(T)
  BY <1>1, <1>2, <1>3
<1> HIDE DEF all, summary
<1>6. FlattenSeq(all) \in Seq(T)
  BY <1>5, FlattenGathers
<1> QED
  BY <1>4, <1>5, <1>6 DEF T

\* What a handler that simulates knows of its run.
LEMMA SimulatingFacts ==
  ASSUME ServiceInv, NEW h \in Handlers, handler[h].pc = "simulate"
  PROVE  /\ handler[h].run \in Runs /\ handler[h].artifact \in Artifacts
         /\ handler[h].pos \in Nat \ {0}
         /\ runs[handler[h].run].status = "dry_run_running"
         /\ runs[handler[h].run].fabric \in Fabrics
         /\ ItemsOf(h) \in Seq(ItemSet(handler[h].artifact,
                                       runs[handler[h].run].fabric))
         /\ Len(ItemsOf(h)) \in Nat
<1> DEFINE r == handler[h].run
<1>1. /\ r \in Runs /\ handler[h].artifact \in Artifacts
      /\ handler[h].pos \in Nat \ {0}
  BY DEF ServiceInv, HandlerShape, Proper
<1>2. runs[r].status = "dry_run_running"
  BY <1>1 DEF ServiceInv, SoleSimulator, Simulating
<1>3. runs[r].fabric \in Fabrics
  BY <1>1, <1>2 DEF ServiceInv, Tables, RunShape, IsRun
<1>4. ItemsOf(h) \in Seq(ItemSet(handler[h].artifact, runs[r].fabric))
  BY <1>3, ItemsType DEF ItemsOf
<1> QED
  BY <1>1, <1>2, <1>3, <1>4

\* Steps that neither record anything nor come to a verdict.
LEMMA RecordKept ==
  ASSUME ServiceInv, RecordInv, SimulationsStay, UNCHANGED evidence,
         \A h \in Handlers :
           handler'[h].pc = "simulate" => handler'[h] = handler[h] \/ RecordedBy(h)'
  PROVE  RecordInv'
<1>1. ASSUME NEW r \in Runs, runs'[r].status \in NotBegun
      PROVE  evidence'[r] = {}
  BY <1>1 DEF RecordInv, SimulationsStay
<1>2. ASSUME NEW h \in Handlers, handler'[h].pc = "simulate",
             handler'[h] = handler[h]
      PROVE  RecordedBy(h)'
  <2>1. handler'[h] = handler[h] /\ RecordedBy(h)
    BY <1>2 DEF RecordInv
  <2>2. runs'[handler[h].run].fabric = runs[handler[h].run].fabric
    BY <1>2, <2>1, SimulatingFacts DEF SimulationsStay
  <2>3. ItemsOf(h)' = ItemsOf(h)
    BY <2>1, <2>2 DEF ItemsOf
  <2> QED
    BY <2>1, <2>3 DEF RecordedBy
<1>3. SimulationWhole'
  <2> SUFFICES ASSUME NEW r \in Runs, runs'[r].status \in Verdicts
               PROVE  \E a \in Artifacts :
                        /\ evidence'[r] = ToSet(Items(a, runs'[r].fabric))
                        /\ runs'[r].status = Verdict(a)
    BY DEF SimulationWhole, Verdicts
  <2>1. /\ runs[r].status = runs'[r].status
        /\ runs'[r].fabric = runs[r].fabric
    BY DEF SimulationsStay, Verdicts
  <2> QED
    BY <2>1 DEF RecordInv, SimulationWhole, Verdicts
<1> QED
  BY <1>1, <1>2, <1>3 DEF RecordInv

\* A handler that takes a local state which does not simulate.
LEMMA HandlerRecord ==
  ASSUME ServiceInv, RecordInv, SimulationsStay, UNCHANGED evidence,
         NEW h \in Handlers, NEW x, x.pc # "simulate", Takes(h, x)
  PROVE  RecordInv'
<1>1. \A g \in Handlers : handler'[g] = IF g = h THEN x ELSE handler[g]
  BY DEF ServiceInv, HandlerShape, Takes
<1> QED
  BY <1>1, RecordKept

LEMMA AnswerRecord ==
  ASSUME ServiceInv, RecordInv, SimulationsStay, UNCHANGED evidence,
         NEW h \in Handlers, Answer(h) \/ RaiseOnError(h)
  PROVE  RecordInv'
<1>1. Free.pc = "free" /\ [Free EXCEPT !.pc = "fail", !.run = handler[h].run].pc = "fail"
  BY DEF Free
<1> QED
  BY <1>1, HandlerRecord DEF Answer, RaiseOnError, Takes

LEMMA SameRuns == UNCHANGED runs => SimulationsStay
  BY DEF SimulationsStay

\* Planning and confirming.
LEMMA PlanningRecord ==
  ASSUME ServiceInv, RecordInv, NEW h \in Handlers,
         \/ \E k \in Demands : ReserveForDemand(h, k)
         \/ \E i \in Intents : SubmitIntent(h, i)
         \/ ValidateAndSaveIntent(h) \/ PlanAndRender(h)
         \/ \E who \in Planners : PersistPlan(h, who)
         \/ PlanningFails(h)
  PROVE  RecordInv'
<1>1. UNCHANGED <<runs, evidence>>
  BY DEF ReserveForDemand, ReserveDesign, SubmitIntent, ValidateAndSaveIntent,
         SaveIntent, PlanAndRender, PersistPlan, SavePlan, PlanningFails,
         storeVars
<1>2. SimulationsStay
  BY <1>1, SameRuns
<1>3. ASSUME NEW i, NEW v, Planning(h, i, v)
      PROVE  RecordInv'
  <2>1. Planner(i, v).pc = "validate"
    BY DEF Planner, Free
  <2>2. Takes(h, Planner(i, v))
    BY <1>3 DEF Planning, Planner, Takes
  <2> QED
    BY <1>1, <1>2, <2>1, <2>2, HandlerRecord
<1>4. CASE ValidateAndSaveIntent(h)
  <2> DEFINE x == [handler[h] EXCEPT !.pc = "plan"]
  <2>1. Takes(h, x) /\ x.pc = "plan"
    BY <1>4
    DEF ValidateAndSaveIntent, Proceed, Takes, ServiceInv, HandlerShape,
        Proper, IsHandler
  <2> HIDE DEF x
  <2> QED
    BY <1>1, <1>2, <2>1, HandlerRecord
<1>5. CASE PlanAndRender(h)
  <2>1. PICK p \in Plans, a \in Artifacts : Takes(h, Rendered(handler[h], p, a))
    BY <1>5 DEF PlanAndRender, Takes, Rendered
  <2>2. Rendered(handler[h], p, a).pc = "save"
    BY DEF Rendered, ServiceInv, HandlerShape, Proper, IsHandler
  <2> QED
    BY <1>1, <1>2, <2>1, <2>2, HandlerRecord
<1>6. CASE Answer(h)
  BY <1>1, <1>2, <1>6, AnswerRecord
<1> QED
  BY <1>3, <1>4, <1>5, <1>6
  DEF ReserveForDemand, SubmitIntent, PersistPlan, PlanningFails

LEMMA ConfirmRecord ==
  ASSUME ServiceInv, RecordInv, NEW h \in Handlers,
         \/ \E p \in Plans, who \in Actors : ConfirmApproves(h, p, who)
         \/ ConfirmRuns(h) \/ ConfirmFails(h)
  PROVE  RecordInv'
<1>1. UNCHANGED evidence
  BY DEF ConfirmApproves, ConfirmRuns, ConfirmFails
<1>2. ASSUME NEW p \in Plans, NEW who \in Actors, ConfirmApproves(h, p, who)
      PROVE  RecordInv'
  <2> DEFINE x == [Free EXCEPT !.pc = "confirm", !.plan = p, !.since = now]
  <2>1. Takes(h, x) /\ x.pc = "confirm"
    BY <1>2 DEF ConfirmApproves, Takes, Free
  <2>2. SimulationsStay
    BY <1>2, SameRuns DEF ConfirmApproves, RecordApproval
  <2> HIDE DEF x
  <2> QED
    BY <1>1, <2>1, <2>2, HandlerRecord
<1>3. CASE ConfirmRuns(h) \/ ConfirmFails(h)
  <2>1. SimulationsStay
    <3>1. CASE UNCHANGED storeVars
      BY <3>1, SameRuns DEF storeVars
    <3>2. CASE \E r \in Runs :
                 CreateRun(r, handler[h].plan, "apply",
                           ConfirmKey[handler[h].plan], handler[h].since,
                           handler[h].since + Window)
      <4>1. handler[h].plan \in Plans
        BY <1>3
        DEF ConfirmRuns, ConfirmFails, ServiceInv, HandlerShape, Proper
      <4> QED
        BY <3>2, <4>1, CreateStep DEF ServiceInv, Tables
    <3> QED
      BY <1>3, <3>1, <3>2 DEF ConfirmRuns, ConfirmFails
  <2>2. Answer(h)
    BY <1>3 DEF ConfirmRuns, ConfirmFails
  <2> QED
    BY <1>1, <2>1, <2>2, AnswerRecord
<1> QED
  BY <1>2, <1>3

\* The handler that makes a run its own begins an empty record.
LEMMA BeginRecord ==
  ASSUME ServiceInv, RecordInv, NEW h \in Handlers, BeginSimulation(h)
  PROVE  RecordInv'
<1> DEFINE r == handler[h].run
           x == [handler[h] EXCEPT !.pc = "simulate"]
<1>1. UNCHANGED evidence
  BY DEF BeginSimulation
<1>2. CASE Lose(h)
  <2>1. SimulationsStay
    BY <1>2, SameRuns, TransitionStep
    DEF BeginSimulation, storeVars, ServiceInv, Tables
  <2> QED
    BY <1>1, <1>2, <2>1, AnswerRecord DEF Lose
<1>3. CASE TransitionRun(r, "dry_run_running") /\ Proceed(h, "simulate")
  <2>1. r \in Runs /\ handler[h].artifact \in Artifacts /\ handler[h].pos = 1
    BY DEF BeginSimulation, ServiceInv, HandlerShape, Proper
  <2>2. /\ x.pc = "simulate" /\ x.run = r /\ x.pos = 1
        /\ x.artifact = handler[h].artifact
    BY <2>1 DEF ServiceInv, HandlerShape, Proper, IsHandler
  <2>3. Takes(h, x)
    BY <1>3 DEF Proceed, Takes
  <2> HIDE DEF x
  <2>4. \A g \in Handlers : handler'[g] = IF g = h THEN x ELSE handler[g]
    BY <2>3 DEF ServiceInv, HandlerShape, Takes
  <2>5. SimulationsStay
    BY <1>3, TransitionStep DEF ServiceInv, Tables
  <2>6. runs[r].status = "dry_run_queued"
    BY <1>3, <2>1, DryRunBegins
    DEF TransitionRun, Created, ServiceInv, Tables, RunShape, IsRun
  <2>7. evidence[r] = {}
    BY <2>1, <2>6 DEF RecordInv, NotBegun
  <2>8. RecordedBy(h)'
    <3>1. runs'[r].fabric \in Fabrics
      BY <2>1, <2>5, <2>6
      DEF SimulationsStay, ServiceInv, Tables, RunShape, IsRun
    <3>2. ItemsOf(h)' = Items(x.artifact, runs'[r].fabric)
      BY <2>2, <2>4 DEF ItemsOf
    <3>3. Len(ItemsOf(h)') \in Nat
      BY <3>1, <3>2, ItemsType
    <3> QED
      BY <1>1, <2>2, <2>4, <2>7, <3>3 DEF RecordedBy
  <2> QED
    BY <1>1, <2>4, <2>5, <2>8, RecordKept
<1> QED
  BY <1>2, <1>3 DEF BeginSimulation

LEMMA AddRecord ==
  ASSUME ServiceInv, RecordInv, NEW h \in Handlers, AddEvidence(h)
  PROVE  RecordInv'
<1> DEFINE r == handler[h].run
           n == handler[h].pos
           items == ItemsOf(h)
<1>1. UNCHANGED runs /\ SimulationsStay
  BY SameRuns DEF AddEvidence, storeVars
<1>2. CASE RaiseOnError(h) /\ UNCHANGED evidence
  BY <1>1, <1>2, AnswerRecord
<1>3. CASE /\ evidence' = [evidence EXCEPT ![r] = @ \cup {items[n]}]
           /\ handler' = [handler EXCEPT ![h].pos = @ + 1]
  <2>1. /\ r \in Runs /\ n \in Nat \ {0} /\ Len(items) \in Nat
        /\ n <= Len(items) /\ handler[h].pc = "simulate"
        /\ runs[r].status = "dry_run_running"
    BY SimulatingFacts DEF AddEvidence
  <2>2. \A g \in Handlers : g # h => handler'[g] = handler[g]
    BY <1>3 DEF ServiceInv, HandlerShape
  <2>3. /\ handler'[h].run = r /\ handler'[h].pos = n + 1
        /\ handler'[h].artifact = handler[h].artifact
    BY <1>3 DEF ServiceInv, HandlerShape, Proper, IsHandler
  <2>4. /\ evidence' = [q \in Runs |-> evidence'[q]]
        /\ \A q \in Runs : evidence'[q] = IF q = r THEN evidence[q] \cup {items[n]}
                                                  ELSE evidence[q]
    BY <1>3, <2>1 DEF RecordInv
  <2>5. RecordedBy(h)'
    <3>1. evidence[r] = {items[k] : k \in 1..(n - 1)}
      BY <2>1 DEF RecordInv, RecordedBy
    <3>2. items' = items
      BY <1>1, <2>3 DEF ItemsOf
    <3> HIDE DEF items
    <3>3. evidence'[r] = {items[k] : k \in 1..n}
      <4>1. 1..n = (1..(n - 1)) \cup {n}
        BY <2>1
      <4> QED
        BY <2>1, <2>4, <3>1, <4>1
    <3>4. (n + 1) - 1 = n
      BY <2>1
    <3> QED
      BY <2>1, <2>3, <3>2, <3>3, <3>4 DEF RecordedBy, items
  <2>6. ASSUME NEW g \in Handlers, g # h, handler'[g].pc = "simulate"
        PROVE  RecordedBy(g)'
    <3>1. handler'[g] = handler[g] /\ handler[g].pc = "simulate"
      BY <2>2, <2>6
    <3>2. handler[g].run \in Runs /\ handler[g].run # r
      BY <2>1, <2>6, <3>1, SimulatingFacts DEF ServiceInv, SoleSimulator, Simulating
    <3>3. RecordedBy(g) /\ ItemsOf(g)' = ItemsOf(g)
      BY <1>1, <3>1 DEF RecordInv, ItemsOf
    <3> QED
      BY <2>4, <3>1, <3>2, <3>3 DEF RecordedBy
  <2>7. ASSUME NEW q \in Runs, runs'[q].status \in NotBegun
        PROVE  evidence'[q] = {}
    BY <1>1, <2>1, <2>4, <2>7 DEF RecordInv, NotBegun
  <2>8. SimulationWhole'
    BY <1>1, <2>1, <2>4 DEF RecordInv, SimulationWhole, Verdicts
  <2> QED
    BY <2>4, <2>5, <2>6, <2>7, <2>8 DEF RecordInv
<1> QED
  BY <1>2, <1>3 DEF AddEvidence

\* The verdict is given when every item of the artifact is recorded.
LEMMA EndRecord ==
  ASSUME ServiceInv, RecordInv, NEW h \in Handlers, EndSimulation(h)
  PROVE  RecordInv'
<1> DEFINE r == handler[h].run
           a == handler[h].artifact
           items == ItemsOf(h)
<1>1. UNCHANGED evidence
  BY DEF EndSimulation
<1>2. CASE RaiseOnError(h) /\ UNCHANGED storeVars
  BY <1>1, <1>2, SameRuns, AnswerRecord DEF storeVars
<1>3. CASE TransitionRun(r, Verdict(a)) /\ (Answer(h) \/ RaiseOnError(h))
  <2>1. /\ r \in Runs /\ a \in Artifacts /\ handler[h].pos \in Nat \ {0}
        /\ Len(items) \in Nat /\ items = Items(a, runs[r].fabric)
        /\ handler[h].pc = "simulate" /\ handler[h].pos > Len(items)
        /\ runs[r].status = "dry_run_running"
        /\ items \in Seq(ItemSet(a, runs[r].fabric))
    BY SimulatingFacts DEF EndSimulation, ItemsOf
  <2>2. evidence[r] = ToSet(items)
    <3>1. /\ handler[h].pos - 1 = Len(items)
          /\ evidence[r] = {items[k] : k \in 1..(handler[h].pos - 1)}
      <4>1. RecordedBy(h)
        BY <2>1 DEF RecordInv
      <4>2. handler[h].pos - 1 <= Len(items)
        BY <4>1 DEF RecordedBy
      <4> QED
        BY <2>1, <4>1, <4>2 DEF RecordedBy
    <3>2. DOMAIN items = 1..Len(items)
      BY <2>1
    <3> QED
      BY <3>1, <3>2 DEF ToSet
  <2>3. Verdict(a) \in RunStatus \ (NotBegun \cup {"dry_run_running"})
    BY DEF Verdict, RunStatus, Terminal, NotBegun
  <2>4. OnlyStatus(r, Verdict(a))
    BY <1>3, <2>3, StatusStep
    DEF TransitionRun, SetStatus, ServiceInv, Tables
  <2>5. /\ \A g \in Handlers : g # h => handler'[g] = handler[g]
        /\ handler'[h].pc # "simulate"
    <3>1. PICK x : Takes(h, x) /\ x.pc # "simulate"
      <4>1. [Free EXCEPT !.pc = "fail", !.run = r].pc = "fail" /\ Free.pc = "free"
        BY DEF Free
      <4> QED
        BY <1>3, <4>1 DEF Answer, RaiseOnError, Takes
    <3> QED
      BY <3>1 DEF Takes, ServiceInv, HandlerShape
  <2>6. ASSUME NEW g \in Handlers, handler'[g].pc = "simulate"
        PROVE  RecordedBy(g)'
    <3>1. handler'[g] = handler[g] /\ handler[g].pc = "simulate"
      BY <2>5, <2>6
    <3>2. runs'[handler[g].run].fabric = runs[handler[g].run].fabric
      BY <2>4, <3>1, SimulatingFacts DEF OnlyStatus
    <3>3. RecordedBy(g) /\ ItemsOf(g)' = ItemsOf(g)
      BY <3>1, <3>2 DEF RecordInv, ItemsOf
    <3> QED
      BY <1>1, <3>1, <3>3 DEF RecordedBy
  <2>7. ASSUME NEW q \in Runs, runs'[q].status \in NotBegun
        PROVE  evidence'[q] = {}
    BY <1>1, <2>1, <2>3, <2>4, <2>7 DEF RecordInv, OnlyStatus
  <2>8. SimulationWhole'
    <3> SUFFICES ASSUME NEW q \in Runs, runs'[q].status \in Verdicts
                 PROVE  \E b \in Artifacts :
                          /\ evidence'[q] = ToSet(Items(b, runs'[q].fabric))
                          /\ runs'[q].status = Verdict(b)
      BY DEF SimulationWhole, Verdicts
    <3>1. CASE q = r
      BY <1>1, <2>1, <2>2, <2>4, <3>1 DEF OnlyStatus
    <3>2. CASE q # r
      BY <1>1, <2>4, <3>2 DEF OnlyStatus, RecordInv, SimulationWhole, Verdicts
    <3> QED
      BY <3>1, <3>2
  <2> QED
    BY <1>1, <2>6, <2>7, <2>8 DEF RecordInv
<1> QED
  BY <1>2, <1>3 DEF EndSimulation

LEMMA OtherRecord ==
  ASSUME ServiceInv, RecordInv, NEW h \in Handlers,
         (\E r \in Runs : ProcessDryRun(h, r)) \/ FailSimulation(h)
  PROVE  RecordInv'
<1>1. UNCHANGED evidence
  BY DEF ProcessDryRun, FailSimulation
<1>2. ASSUME NEW r \in Runs, ProcessDryRun(h, r)
      PROVE  RecordInv'
  <2> DEFINE a == Rendering[release][runs[r].plan]
             x == [Free EXCEPT !.pc = "queued", !.run = r, !.artifact = a]
  <2>1. Takes(h, x) /\ x.pc = "queued" /\ SimulationsStay
    BY <1>2, SameRuns DEF ProcessDryRun, Takes, Free, storeVars
  <2> HIDE DEF x
  <2> QED
    BY <1>1, <2>1, HandlerRecord
<1>3. CASE FailSimulation(h)
  <2> DEFINE r == handler[h].run
  <2>1. CASE UNCHANGED storeVars
    BY <1>1, <1>3, <2>1, SameRuns, AnswerRecord
    DEF FailSimulation, FailRun, storeVars
  <2>2. CASE TransitionRun(r, "dry_run_failed")
    <3>1. /\ r \in Runs /\ Answer(h) /\ handler[h].pc = "fail"
      BY <1>3
      DEF FailSimulation, FailRun, ServiceInv, HandlerShape, Proper
    <3>2. "dry_run_failed" \in RunStatus \ (NotBegun \cup Verdicts)
      BY DEF RunStatus, Terminal, NotBegun, Verdicts
    <3>3. OnlyStatus(r, "dry_run_failed")
      BY <2>2, <3>2, StatusStep
      DEF TransitionRun, SetStatus, ServiceInv, Tables
    <3>4. \A g \in Handlers : handler'[g] = IF g = h THEN Free ELSE handler[g]
      BY <3>1 DEF Answer, ServiceInv, HandlerShape
    <3>5. ASSUME NEW g \in Handlers, handler'[g].pc = "simulate"
          PROVE  RecordedBy(g)'
      <4>1. handler'[g] = handler[g] /\ handler[g].pc = "simulate"
        BY <3>4, <3>5 DEF Free
      <4>2. runs'[handler[g].run].fabric = runs[handler[g].run].fabric
        BY <3>3, <4>1, SimulatingFacts DEF OnlyStatus
      <4>3. RecordedBy(g) /\ ItemsOf(g)' = ItemsOf(g)
        BY <4>1, <4>2 DEF RecordInv, ItemsOf
      <4> QED
        BY <1>1, <4>1, <4>3 DEF RecordedBy
    <3>6. ASSUME NEW q \in Runs, runs'[q].status \in NotBegun
          PROVE  evidence'[q] = {}
      BY <1>1, <3>2, <3>3, <3>6 DEF RecordInv, OnlyStatus
    <3>7. SimulationWhole'
      BY <1>1, <3>2, <3>3 DEF OnlyStatus, RecordInv, SimulationWhole, Verdicts
    <3> QED
      BY <1>1, <3>5, <3>6, <3>7 DEF RecordInv
  <2> QED
    BY <1>3, <2>1, <2>2 DEF FailSimulation, FailRun
<1> QED
  BY <1>2, <1>3

LEMMA NextRecord ==
  ASSUME ServiceInv, RecordInv, [ONext]_allVars
  PROVE  RecordInv'
<1>1. ASSUME NEW h \in Handlers, Request(h) \/ HandlerStep(h)
      PROVE  RecordInv'
  BY <1>1, PlanningRecord, ConfirmRecord, BeginRecord, AddRecord, EndRecord,
     OtherRecord
  DEF Request, HandlerStep
<1>2. CASE SingleRequest
  BY <1>2, GovernTables, RecordKept
  DEF SingleRequest, apiVars, ServiceInv, TablesKept
<1>3. CASE ServiceDies
  <2>1. /\ UNCHANGED <<runs, evidence>>
        /\ \A h \in Handlers : handler'[h].pc # "simulate"
    BY <1>3 DEF ServiceDies, storeVars, Free
  <2> QED
    BY <2>1, SameRuns, RecordKept
<1>4. CASE Upgrade
  BY <1>4, SameRuns, RecordKept DEF Upgrade, storeVars
<1>5. ASSUME NEW w \in Workers, WorkStep(w)
      PROVE  RecordInv'
  BY <1>5, WorkerTables, RecordKept
  DEF WorkStep, apiVars, ServiceInv, TablesKept
<1>6. ASSUME NEW w \in Workers, NEW r \in Runs, StartRun(w, r)
      PROVE  RecordInv'
  BY <1>6, SameRuns, RecordKept DEF StartRun, Start, apiVars, storeVars
<1>7. CASE UNCHANGED allVars
  BY <1>7, SameRuns, RecordKept DEF allVars, vars, apiVars, storeVars
<1> QED
  BY <1>1, <1>2, <1>3, <1>4, <1>5, <1>6, <1>7 DEF ONext

\* A dry run that came to a verdict has the whole evidence of one artifact and
\* the verdict of that artifact (simulator.py, process_dry_run), whichever
\* calls failed, whoever asked again and whenever the service died or a new
\* release rendered the plan in another way.
THEOREM DryRunWhole == OSpec => []SimulationWhole
<1>1. OInit => RecordInv
  <2> SUFFICES ASSUME OInit
               PROVE  RecordInv
    OBVIOUS
  <2>1. /\ \A r \in Runs : runs[r].status = "absent"
        /\ \A h \in Handlers : handler[h].pc = "free"
    BY DEF OInit, WInit, Init, NoRun, Free
  <2> QED
    BY <2>1 DEF OInit, RecordInv, SimulationWhole, Verdicts
<1>2. ServiceInv /\ RecordInv /\ [ONext]_allVars => RecordInv'
  BY NextRecord
<1>3. RecordInv => SimulationWhole
  BY DEF RecordInv
<1> QED
  BY <1>1, <1>2, <1>3, ServiceInvariant, PTL DEF OSpec
=============================================================================
