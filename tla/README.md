# Verification of the SDA orchestrator

The orchestrator (`src/orchestrator/`) turns fabric requirements into an intent
with reserved addresses and numbers, a reviewed plan and an approved run, and a
worker applies the run to IOS-XE switches over SSH and to Cisco ISE over ERS.
Its correctness rests less on any single function than on orders: two workers on
one run, an operator who recovers a run while its worker is alive, a request to
ISE whose answer is lost, two reservations out of one pool, a plan saved again
after its approval. This directory models those parts in TLA+, checks them with
TLC on small instances and proves the most important results for every instance
with TLAPS. Around them it models the service that answers requests, and the
checks a design has to pass before anything is written.

## 1. Inventory

| Part (source) | State | Operations | Interacts with |
|---|---|---|---|
| State store (`store.py`, `postgres_store.py`, `migrations/`) | intents, reservations and their allocations, plans, approvals, runs, fabric locks, owned-state manifests, evidence, audit chain | `save_intent`, `reserve_design`, `transition_design_reservation`, `save_plan`, `record_approval`, `create_run`, `transition_run`, `complete_apply`, `record_adopted_owned_state`, `add_evidence`, each one database transaction that ends with an audit event | everything; the only shared memory between processes |
| Allocator (`allocator.py`) | none (a function of requirements, policy and ledger) | `derive_fabric_intent` checks the requirements and reserves prefixes and scalars first fit | runs inside `reserve_design`'s transaction |
| Intent, planner, gates, renderer (`intent.py`, `planner.py`, `gates.py`, `renderer.py`) | none | validate an intent, order phases, build gates, render blocks per device and phase | API, worker |
| HTTP API (`api.py`, `auth.py`) | none that outlives a request | handlers of one or several store transactions: plan, intent, approve, confirm, create run, dry run, adopt | store, allocator, validator, renderer, simulator |
| Apply worker (`worker_runtime.py`, `worker.py`) | one process per run: checkpoints, changed devices, ISE journal | preflight, precheck, checkpoint, blocks, gates, completion, rollback, settlement of the reservation | store, device adapters, ISE adapter |
| Device adapter (`adapters.py`) | checkpoint file on the switch | checkpoint, apply a block, `configure replace` | switches |
| ISE adapter (`ise.py`) | plan of actions and journal, in memory | `prepare`, `apply`, `rollback` over HTTP | ISE, shared with other adapters and administrators |
| Dry-run simulator (`simulator.py`) | none of its own | records the rendered blocks of each device and phase as evidence, then a summary and the verdict | store; runs inside an API handler |
| Reconciliation (`reconciliation.py`) | none | the state an intent owns on each device, what of a baseline is stale, in which order it is removed, absence gates | planner, renderer, store (manifests) |
| Acceptance (`acceptance.py`) | registry file of gates, evidence, sign-offs | is a release ready for production, may the apply be enabled? | release workflow, Meraki manifests |
| POC intake and execution (`poc_intake.py`, `poc_execution.py`) | none | form checks and preview of the guided flow; which worker may consume the one blocker of the pinned proof of concept | API, worker |
| Recovery report (`runtime_recovery.py`), parsers, secrets, workflow packages and audits, tools, admin, deploy | none | read-only reports, parsing, look-ups, document generation | — |

Operators take part as well: `docs/lock-recovery-runbook.md` tells them which
transitions to make at a Python prompt when a worker is gone.

What is hard, and what makes each part correct:

* **Store.** Any client may call any operation at any time. An apply run must own
  its fabric alone; a finished run must stay finished; what is approved is what
  runs; the ledger of owned states records successes only; the audit chain must
  verify at all times. On SQLite a transaction is atomic; on PostgreSQL it is a
  sequence of statements at READ COMMITTED.
* **Allocator and reservations.** No address or number may be held twice, through
  quarantine, release, retries and races.
* **HTTP API and simulator.** A request is several transactions; other requests,
  workers, a restart or an upgrade of the service come between them, and a client
  repeats what it got no answer to. Resources must not be lost unnoticed, one run
  is simulated once, and a verdict speaks of all of one artifact.
* **Worker.** Every call may fail before or after it took effect and the process
  may die anywhere. A run that ends rolled back has restored the fabric; a success
  is whole; nobody else writes meanwhile; the run ends.
* **Checks before anything is written.** The same document is checked in several
  places by different code: the site hierarchy twice, a design by the allocator
  before and by the validator after its resources are reserved, the registry of a
  release by a graph search. They must agree with each other and with what they
  are for.
* **Design and reconciliation.** One design is described four times: by the
  validator, the ownership manifest, the renderer and the gates. They must agree,
  and pruning must remove what an earlier design left and nothing else, in an
  order in which nothing names what is gone.
* **ISE adapter.** No transactions, no preconditions on writes, lost answers,
  concurrent edits. What the adapter wrote it must be able to take back, and it
  must not touch what is not its own.

`PROJECT.json` lists each hazard at its line with the properties that cover it.

## 2. Modules

| Module | Models | Abstract specification it implements |
|---|---|---|
| `RunStore` | the store; every operation one atomic action, clients unrestricted | — (three of the modules below implement it) |
| `ApplyWorker` | worker processes, devices, ISE as one object set, clients, operator, crashes | `RunStore` (it extends it; proved) |
| `Orchestrator` | HTTP handlers, simulator, upgrades and restarts of the service, beside the workers | extends `ApplyWorker`, so its store is `RunStore` |
| `IseTransaction` | `prepare`/`apply`/`rollback` of `ise.py` request by request | — |
| `StoreSessions` | run transactions statement by statement on both databases | `RunStore` (refinement mapping; checked and proved) |
| `AllocationLedger` | reservation transactions and the allocator on both databases | `RunStore` (refinement mapping; checked and proved) |
| `MulticastDesign` | what an intent means: validity, owned state, removals, blocks and gates, as operators | — |
| `Reconcile` | planning on a baseline and applying, step by step on the configurations | — |
| `SiteHierarchy` | the walks over the site hierarchy in the allocator and in the validator, as operators | a definition of a tree (checked and proved) |
| `DesignDerivation`, `IntentValidation` | from requirements to an intent or an error; the issues of an intent | list of what only the validator sees (checked and proved) |
| `Acceptance` | assessment of a release registry | what a gate waits for, as the least closed set (checked and proved) |
| `DocumentChecks` | a document drafted, revised and opened, and the four properties of the checks | — |
| `MC…` | instances of each for TLC | |
| `…Proofs` | theorems and proofs, one module per component (the store's are in `ApplyWorkerProofs`) | |
| `FlattenLemmas` | what loops over sequences and sets return and that recursions on numbers exist, as theorems | |

How they fit: `ApplyWorker` treats a store operation as one step. That is exact
on SQLite (`SqliteSerial`), and on PostgreSQL it is what `StoreSessions` and
`AllocationLedger` establish, except for one kind of commit: a transition whose
row was changed by another session between its SELECT and its UPDATE. Such a
commit is marked `stale`; section 6 says what it can do. `ApplyWorker` takes the
ISE transaction as one step that may fail with any part of its writes done;
`IseTransaction` opens that step.

Definitions whose comment says *Fault* are not part of any specification. Each is
a bug this code could plausibly have, used in place of the definition after it to
see that a property notices.

### RunStore

State: one variable per table. A plan identifier is the hash of its document, so
an element of `Plans` also stands for plan hash, intent and intent version. An
artifact hash is a separate value: another release of the renderer may render
one plan differently, which is why `save_plan` compares them. Every operation
takes its guard from the code's checks and is absent when the code raises.
`reserve_design` is abstract here (which resources: `AllocationLedger`);
evidence and read-only queries are left out; `now` is the clock of every client.

### ApplyWorker

State: `worker` (program counter, run, position in the program, checkpoints,
changed devices, ISE journal, failure flag), `config` and `ise` (what is on the
fabric), `flash` (checkpoint files), `before` (history). A block is the triple
artifact, phase, number, and a failed call leaves it accepted or not. The program
of an artifact is built by the same loops as `process_apply`: per phase the ISE
transaction, then the devices in sorted order, then the gates. One action per
step: `Start`, `RefuseBlocked`, `PreflightFails`, `Begin`, `Precheck`,
`Checkpoint`, `ApplyBlock`, `ApplyIse`, `CheckGate`, `Complete`,
`CommitReservation`, and in the handler `Handle`, `RollBackDevice`,
`RollBackIse`, `Finish`, `Settle`. `Crash` and the operator's actions interleave
with all of them. A store error other than a refused transition ends the process
and is the same as `Crash`.

### Orchestrator

State: `handler` (where each request is, and what it holds of the rows it has
read), `demandOf` (the key a reservation was made under), `evidence`, `release`
(the installed release), and as history the reservations of failed requests
(`orphaned`) and the dry runs left running because the service died under them or
the store raised where nothing catches it (`stranded`). A handler is a thread; each
call of it to the store is one step. Planning is `ReserveForDemand` or `SubmitIntent`,
`ValidateAndSaveIntent`, `PlanAndRender`, `PersistPlan`; confirming is
`ConfirmApproves`, `ConfirmRuns`; simulating is `ProcessDryRun`,
`BeginSimulation`, `AddEvidence` for each device and phase, `EndSimulation`. Each
of these may raise (`PlanningFails`, `ConfirmFails`, `RaiseOnError`,
`FailSimulation`), and one that commits may raise afterwards, when its answer is
lost. Two calls of the simulator are outside its `try`: the move to
`dry_run_running` (`simulator.py:22`), where an exception is the answer (`Lose`),
and the move to `dry_run_failed` in the handler of exceptions (`:69`), which may
raise in its turn (`FailRun`). Evidence is recorded for every device and phase, with
or without blocks. `ServiceDies` drops every handler, `Upgrade` changes what the
renderer makes of a plan. The other state-changing requests are one transaction
each (`SingleRequest`). Workers start as `worker_runtime.py` allows it: the
release must render the plan as it was saved, and a worker that may consume the
blocker of the proof of concept runs nothing but the pinned design
(`Authorised`). Death of a worker and recovery are left to `ApplyWorker`'s run.

### IseTransaction

State: `server` (each object's incarnation and comparable value), each adapter's
plan and journal, `author` (history: who wrote an object last). Every GET, POST,
PUT and DELETE is a step; a request may fail before or after ISE carried it out;
a write that lands after the adapter has gone on is not modelled. An object with
references cannot be deleted, and a name exists once: that is how `ise.py` and
the tests use ISE (external in the map). That a manifest names an object once
(`ManifestAssumption`) is checked by `_validate_manifest` for tags and ACLs and
follows from the renderer's hashed identifiers for cells.

### StoreSessions

State: committed tables, and for each session where it is in its transaction.
`transition_run`, `complete_apply` and `create_run` with their SELECT, writes,
fabric lock, audit lock and COMMIT. Row locks, unique keys and advisory locks are
modelled by waiting (`Waits` names whom a statement waits for, `OnlyLocksBlock`
checks that nothing else holds it up); READ COMMITTED by reading the committed tables. Plans and
approvals are fixed. The second SELECT of `complete_apply` belongs to the step of
the first. An audit event is known by its position; sequence numbers are taken
under the audit lock, so their order is the order of commits.

### AllocationLedger

State: reservations with their allocations, and the sessions. A pool is a range
of integers; a design is a sequence of items to reserve in the order of
`derive_fabric_intent` (first free block, requested number, number derived from
the one before). The constraints are those of the schema: partial unique indexes
on both databases, the exclusion and scalar constraints on PostgreSQL only. The
INSERTs of one transaction are one step that waits for clashing writers. The
policy does not change, and the audit event is left to `StoreSessions`.

### MulticastDesign and Reconcile

`MulticastDesign` translates four sources side by side so that they can be held
against each other: `intent.py` (`Valid…`), `reconciliation.py`
(`…Resources`, `OwnedState`, `Stale`, `Removals`, `Absent`), `renderer.py`
(`…Blocks`) and `gates.py` (`…Gates`). A running configuration is a set of lines
in sections; a block negates sections and lines and enters others. Intents are
of schema 1.2 with an explicit RP list. Of the unicast
configuration only what shares a section with multicast is kept, because that is
what a removal could take along. An intent stands for its manifest, which is a
function of it; hashes are equality. How a switch carries out a block is external.

State of `Reconcile`: the configuration of every node, the newest manifest, a
plan being made, saved plans with their embedded baseline, the run with its
checkpoints. `Request` and `SavePlan` are the two ends of a planning handler;
`Confirm` queues a run and takes the fabric lock; `Start` and `Refuse` look at
the blockers of the artifact; `SendBlock` and `PassGate` go through the phases;
`Fail` restores every checkpoint, in one step because `ApplyWorker` has shown how;
`Complete` is `complete_apply`. `Adopt` is a correct discovery of a fabric that
was configured by hand; it looks at no other actor except a run, which the code
leaves to the people who approve it (section 6). The gates that read a
configuration are modelled, those on operational state are a `Fail` that may
happen. `Accepted` are the blockers the worker was told to accept: the shipped
authorisation accepts only the local DHCP attachment, so a production worker
refuses native multicast today; the model shows what happens once it may run.

### SiteHierarchy, DesignDerivation, IntentValidation

Operators only. `SiteHierarchy` translates the two walks, each with the depths it
remembers, next to `IsHierarchy`, the definition of a tree of allowed types: it
walks nowhere and remembers nothing, but takes the least set of nodes above a
node (`Above`) and counts it.
`DesignDerivation` has the checks of `derive_fabric_intent`, one operator
per section of the requirements, and `DeriveIntent`, the intent it makes; how a
pool is searched and what runs out is `AllocationLedger`'s subject.
`IntentValidation` gives the issues of severity error of an intent, one operator
per section. `Requirement` is the type of what the JSON schema of requirements lets
through, schema 1.1 or 1.2, with lists of any length: there are networks, and
shared services and a policy plane just in 1.2. What the allocator takes from the
policy guardrails is a constant: the redundancy minimums (`Minimum`) and whether
fusion nodes must be fully meshed (`MeshRequired`). `Upper` and `Words` stand for the
functions on text that decide whether two names are one.

`Defective` lists what the validator refuses and the allocator does not look for, or
puts up with when its guardrails do. `Ambiguous`: host names (whatever their case),
management or dashboard addresses, identifiers or pool names that occur twice;
`Unfit`: a role that nobody has, a link from a device to itself, a VLAN between 1002
and 1005; `Unconnected`: a border, a VRF or a fusion node that no peer reaches;
`Thin`: in production fewer than two borders, control planes or fusion nodes, a
border with a single fusion node in a VRF, fewer than two SXP speakers or listeners.
`LateRejection` says that this list is complete and that nothing in it is refused
without reason. It ranges over the rules these modules translate. Left out, and so
outside that statement, are types, formats and numeric ranges of fields (the JSON
schema, the MTU, the ranges of VLANs and SGTs, the URL of the ISE API), guardrail
pools that overlap, schema 1.0, fields that the derivation makes up by itself (route
distinguishers, L2 instances, names of SGACLs) and the derivation of multicast,
whose validation is in `MulticastDesign`.

### Acceptance

`validate_production_acceptance`: each gate with its evidence, the search for
dependency cycles as the code does it (`Visits` is `visit`, nested at most so deep), the sign-offs, the lock on the apply, and
the state that results. It is held against `Below`, the least set of gates that a
gate waits for, and from it `RestsOn` and `Circular`.

### DocumentChecks

One variable, the document: drafted, revised within its kind, opened. The
properties speak of an opened document, whatever it is.

## 3. Runs

| Run | Instance | Checks |
|---|---|---|
| RunStore | 2 intents on 2 fabrics, 1 plan with 2 renderings, 2 runs, 2 keys, 2 actors, 2 reservations, 1 adoption, clock to 1, requests that name times to 2, lock lease 1 | `TypeOK`, `LockHeldIffActive`, `OneActiveApplyPerFabric`, `LedgerOnlyFromSuccess`, `RunBoundToPlan`, `ApprovalIndependent`, `PlanReservationMatches`, `ActiveBindingKept` |
| ApplyWorker | 2 workers, 2 runs, 2 devices and ISE in two phases, 1 reservation, crashes, recovery of dead runs | `SoleWriter`, `LedgerMatchesOutcome`, `CommittedIsDeployed`, `UnwindRestores`, `SuccessIsWhole` |
| Orchestrator | 2 handlers, 1 worker, 1 demand, intent, plan, run and reservation, 2 devices, 2 releases that render differently, failing calls, restarts; weak fairness | `SoleSimulator`, `SimulationWhole`, `LeakOnlyByFailure`, `RunEnds`, `QuarantineFollows`, `DryRunEnds` |
| Ise | 2 adapters, one with tag + ACL + cell and one with the tag, servers that are empty or hold objects of others, 2 failing requests, 1 edit; weak fairness | `NothingLeft`, `AllOrNothing`, `ForeignKept`, `RollbackWorks`, `TxnEnds` |
| StoreSessions | 2 sessions, 2 runs, 2 keys, 1 fabric, both databases | `ChainVerifies`, `NoDeadlock`, `OnlyLocksBlock`, `ImplementsStore` |
| AllocationLedger | 2 sessions, 2 reservations, 3 designs, 2 domains, 3 small pools, both databases | `LedgerTypeOK`, `NoOverlap`, `OneActivePerKey`, `ImplementsReservations` |
| Reconcile | 2 borders, 1 edge, 1 fusion node, 2 networks, 6 intents (one with the networks' identifiers exchanged, one smaller, one invalid, one disabled, one head-end) | `LedgerIsReality`, `OnlyOwnedRemoved`, `GatesHold`, `NothingDangles` |
| DocumentChecks | campuses of 5 nodes, 3 of any type under any node; 4 good requirements with any two sections changed, guardrails that ask for less than validation; registries of 3 gates with every dependency relation and one thing wrong | `HierarchyMatchesTree`, `LateRejection`, `CyclesFound`, `ReadyMeansProven` |
| LiveRelease (violation) | 2 workers, 2 runs of one plan | `ReleasedIsClean` |
| IseLostEdit (violation) | 1 adapter, 1 edit, no failing request | `ChangesSurviveRollback` |
| PgLedger (violation) | 2 sessions on PostgreSQL | `LedgerOnlyFromSuccess` of `StoreSessions` |
| StaleBaseline (violation) | as Reconcile | `CleanupNotOmitted` |

Bounds, and why they are enough for the question asked. Two of a kind is the
least that lets actors interfere; the code treats runs, keys, sessions and
reservations alike, so these are symmetric and declared so where no liveness is
checked. In `RunStore` time goes up to `MaxTime`, one step, and requests name
times up to `Horizon`, one further: an approval can be valid, not yet valid and
expired, and a lock outlives its lease while its run goes on. No step of a worker
reads the clock, so the runs of `ApplyWorker` keep it still. `MaxPlans` bounds saved and coming plans; the plan
of an active run may have expired, so that another is made beside it. The intents
of `Reconcile` are chosen to differ in every way a resource can become stale: same
key and new state, other key and same addresses, a border retired, a network
removed, a list that keeps its name and gets another range, multicast disabled. The two ISE faults let a write and its rollback both fail.
In `Orchestrator` two handlers suffice for a retry to meet its first attempt, and
the first release is the one whose artifact is that of the proof of concept, so
that an upgrade changes the verdict of a simulation and the right to start. The
walks of `DocumentChecks` need three levels below the root to remember a depth
that a longer path contradicts; two changed sections let a defect of one section
hide behind, or depend on, another. Its guardrails ask for one of everything but SXP
listeners, of which they ask for two, so that the allocator lets through what
`Thin` describes; one run has one setting of them, the theorem covers all.
The pools hold two or three blocks so that designs compete and exhaust them; 3 reservations and, separately,
3 sessions were checked once more (about 1.5 and 1.2 million states) and are
covered for good by the proofs. `CHECK_DEADLOCK FALSE` is everywhere right:
finished runs, used keys and the bounded clock let the system stop; that sessions
never wait for each other in a circle is the property `NoDeadlock`.

Fairness. Only `Orchestrator` and `Ise` assume any: weak fairness of the
steps of a request that is being served, of a worker that is running and of an
adapter that has begun. The code justifies it because every SSH and
HTTP call has a timeout (`adapters.py` connect and command timeouts, the
`timeout` of every `ise.py` request) and no loop waits for another process. A
SQLite transaction that cannot get the database within ten seconds raises, and on
PostgreSQL no sessions wait for each other in a circle (`NoDeadlock`). Nobody has
to send a request, to start a process, to install a release, to edit an object or
to let time pass. `RunEnds` holds without crashes of workers only; a dead worker
leaves its run to an operator, which is the runbook's subject. `DryRunEnds` excepts
the runs in `stranded`: those whose handler died with the service, and those for
which the store raised at `simulator.py:22` or `:69`. Nothing resumes either
(section 6). All other calls may raise as often as they like.

## 4. What is proved

All theorems are for arbitrary sets and constants subject to the named
assumptions in the modules. Most of them fix types or say that `None` (SQL NULL)
is not an identifier. The others:

* `DeviceAssumption` (`ApplyWorker`): an intent has devices and a device belongs to
  one fabric. The second half is not checked by the code: it is left to the
  people who write the intents, and the lock of a fabric protects its devices only
  as far as they keep to it.
* `PhaseAssumption`: a plan is a sequence of phases with a number of blocks for
  each device and a number of gates.
* `ManifestAssumption`, `MarkerAssumption`, `LinkAssumption` (`IseTransaction`): a
  manifest names an object once; what is wanted carries the ownership marker, which
  `ise.py` puts in every description; what a cell refers to is there.
* `NodeAssumption`, `CandidateAssumption`, `AcceptedAssumption` (`Reconcile`): the
  loop over the nodes visits all of them; an intent lists its own devices and fusion
  nodes, finitely many; no worker is told to accept a missing baseline or the
  transport that is not implemented. The intents need not be valid: that an invalid
  one is never planned is part of the proof.
* `LoopbackAssumption` (`Reconcile`): the loopback of an RP is not also the segment
  loopback of a network. The code leaves this to the operator (section 6); where it
  fails, the removal of an RP takes a segment's address from under LISP.

The arguments, module by module:

* **ApplyWorkerProofs**, first part, about the store alone. `LockInv` is the inductive invariant behind the fabric
  lock: the lock table names exactly the active apply runs. It needs `RunComplete`
  (an existing run has a fabric), or an active run without a fabric would hold no
  lock. From it `TypeCorrect`, `LockCorrect`, `MutualExclusion`. `StoreInv` adds
  the bindings; its hidden part is `PlanReservationExists`, without which a new
  reservation could change the intent of one that a plan already names. From it
  `LedgerSound`, `RunsBound`, `DutiesSeparate`, `KeysUnique`, `BindingsMatch`, and
  the action properties `FinishedStays`, `BindingKept`.
* **ApplyWorkerProofs**, the workers. `WorkerImplementsStore`: every step of every process,
  client or operator is a step of `RunStore`, so the store's theorems hold of the
  whole system. `WorkerInvariant`: the program counter of a process determines
  which statuses its run may have, and two processes past `Begin` never share a
  run. With `LockInv` that gives `SoleWriterHolds`, under the hypothesis that only runs
  without a live worker are recovered, which all theorems of this module share.
  `LedgerMatches` and `CommittedDeployed` need that a process about to commit a
  reservation has itself completed the run, and that no operation takes a run out of
  `apply_succeeded`. The rest is about the fabric. `UnwindInv` says what a process
  with an unsettled run knows (`Kept`): the checkpoint of every device that may have
  changed is what the device had when the run began, a device not in `changed` still
  has it, and the journal holds exactly what was added on ISE. Its own steps keep
  that one field at a time (`OwnKeeps`); the steps of others because two unsettled
  runs are on two fabrics (`Apart`, from `LockInv`) and an operator restores only what
  a dead worker left (`OperatorKeeps`). Hence `RunsUnwind`. `DeliveryInv` is its
  counterpart: every block and every ISE object that a process has behind it in its
  program is in place. `SuccessWhole` follows since the program, flattened from the
  loops of `process_apply`, has every block of the artifact (`FlattenLemmas`).
* **OrchestratorProofs.** `ServiceInv` joins `SoleSimulator` and
  `LeakOnlyByFailure` with what they need to be inductive: only a handler that is
  planning holds a reservation, one about to save has a plan and an artifact
  (`HandlerShape`), and each table has its schema. Hence `OneSimulates` and
  `OnlyFailuresLeak`. `ServiceImplementsWorkers`: each step of a handler is one that
  `ApplyWorker` allows its clients, a refinement without a mapping, which carries
  every theorem about workers and store over to the whole service
  (`ServiceSafety`). `DryRunWhole` rests on `RecordInv`: the record of a run is empty
  until the one handler that simulates it has made it its own, and from then on holds
  exactly the items that this handler has behind it, all of the artifact it read.
* **IseTransactionProofs.** `IseInv`: as long as an adapter has not ended, each
  object it wrote last is covered by a journal entry (*covered*), which recognises
  it in the form it has on the server (*faithful*); ids not yet issued are not in
  any journal (*fresh*). Hence `NothingLeftHolds`, for any number of adapters, faults
  and edits. `KeptInv`: nobody decides to write an object that lacks the ownership
  marker; hence `ForeignKeptHolds`. `TraceInv`: an adapter that is alone finds on the
  server what it decided on, and leaves behind it what its manifest wants; with
  `NothingLeft` that gives `AllOrNothingHolds`. `SoloInv`: if ISE answers as well,
  every entry knows exactly what was written, and the entry of a cell comes after
  those of what it refers to, so that rollback, which goes backwards, never deletes
  what is still referred to: `RollbackWorksHolds`.
* **StoreSessionsProofs.** `SessInv`: rows, keys, fabrics and the chain have one
  writer at a time, and a check made by SELECT still holds unless the session is
  stale. Hence `AuditChainHolds`, `SqliteSerial`,
  `SessionsImplementStore`, and `SessionsNeverDeadlock`: who waits, waits for a session
  that is further, since row, key, fabric and chain are taken in one order; so those
  that are furthest do not wait (`FurthestFree`).
* **AllocationLedgerProofs.** `LedgerInv`: what a session read covers every active
  row it could collide with (SQLite: because nobody else writes; PostgreSQL: the
  constraints catch what the snapshot missed), and two writers never hold
  clashing rows. Hence `LedgerTypeCorrect`, `NothingHeldTwice`, `KeysNameOne`,
  `LedgerImplementsStore`.
* **ReconcileProofs.** Four layers. First one design: the renderer enters what the
  ownership manifest owns, no more (`EnteredOwned`) and no less (`OwnedEntered`),
  although the two are written in different files; a removal takes its own lines and
  no unicast line (`Sound`); a block that makes a section anew enters again what
  other blocks put there (`AnewComplete`); the LISP lines of two resources
  differ (`LispUnique`, from the uniqueness checks of `validate_intent`), which is
  what lets an absence gate read the whole of `router lisp`. Then the steps of a run:
  a first part removes, a second proves, a third enters, the last observes
  (`Phases`). Then the run: after any number of steps each line has an origin, the
  baseline or the new design, what was sent is there, and the unicast lines
  are kept (`Progress`). `ReconcileInv` adds that the run began on nodes that held
  what the ledger owns, which is `LedgerIsReality` itself and why it is inductive
  only together with the run. Hence `LedgerHolds`, `OnlyOwnedRemovedHolds`,
  `GatesHoldAlways`, for any intents that `create_plan` accepts. Last the order:
  whatever is gone was killed by a block that was sent (`RunTraced`); the list that a
  policy names, or the loopback that LISP announces, is killed by the removal of its
  own resource only (`OwnTaker`), by then the line that names it has gone
  (`RemovedBefore`), and what is new is entered after it (`AddressBefore`); a
  mapping that both designs own has its loopback in both (`MappingKept`). Hence
  `NothingDanglesHolds`, which alone needs `LoopbackAssumption`.
* **DocumentChecksProofs.** The walks and the search are loops that remember, held
  against definitions that do not. *The search* (`SearchFindsCycles`): marks are
  `Sound` when a reported cycle is there and, as long as none is reported, what was
  left waits only for what was left, and never for itself. A call of `visit` keeps
  that and the stack, and leaves its gate, provided that every gate on the stack
  waits for this one and that the gates not yet entered are fewer than the calls
  that may still be nested (`VisitsWell`, by induction on that number). *The
  assessment* (`ReadyIsProven`): the passed gates are closed under what they wait
  for, so they contain all that the release rests on. *The walks*
  (`HierarchyIsTree`): where every node but the one global node has a parent that is
  there (`Shape`), climbing passes no node twice, hence ends, at a node of known depth
  or at one of its own trail (`Climbing`); going down gives each node of the trail one
  more than its parent (`Labelled`), which is the number of nodes above it
  (`LabelledCounts`); and a cycle has no way to the root (`CycleBelow`). So a walk
  accepts just when each node has the root above it and few enough others. Both checks
  establish that shape by their other conditions, the validator also with names that
  occur twice, as it raises an issue for these. `DescendsMeansAbove` does the same for
  zones. *The design* (`RejectionIsExact`): for each group of issues a lemma says when
  `validate_intent` raises none for what the allocator derived. Four groups, of devices,
  links, networks and pools, are empty exactly without the defects of `Ambiguous` and
  `Unfit` and with two of each node that production wants two of (`DevicesChecked`,
  `LinksChecked`, `NetworksChecked`, `PoolsChecked`). These
  taken away, a name stands for one network and one pool, and it is shown that the
  values which the allocator computed and the validator computes again are equal:
  the pool of an attachment (`PoolFound`), the tags of a contract (`TagsDerived`), the
  multihoming groups (`GroupsExpected`), the VRFs over which a border peers
  (`PeersMeet`), the source of an SXP connection (`SourcesFound`), the depth and the
  site of a zone (`CampusDerived`). First fit gives no number twice (`FirstFits`,
  `GivenOut`), and no two prefixes of the address plan overlap (`PlanDistinct`). Of all
  that remains only the peers and SXP can raise an issue: the peers exactly when they
  leave something unconnected or on a single path (`PeersChecked`), SXP exactly when
  there are too few speakers or listeners (`SxpChecked`). None of this depends on what
  the guardrails ask for. `DocumentInvariant` gives the types. All hold for any number, order and names
  of nodes and gates, dangling references and dependencies included. The assumptions
  are `DepthAssumption` (the allocator refuses guardrails above the fixed limit,
  `allocator.py:277`), `NoneAssumption` and `SectionAssumption` (a missing value is
  told apart from every number and from every section), `FreeAssumption` (numbers are
  free within a finite range), `GuardrailAssumption` (the minimums are integers, the
  mesh is required or not) and `DraftsAssumption` (a revision is of the kind of its
  draft and of the type that the schema allows).
* **FlattenLemmas.** What `FlattenSeq` and the fold over a set return: all the
  elements, nothing else, and in which order; that a recursion on numbers or on the
  finite subsets of a set has the values its equation says; and what runs of a fold
  of functions keep. The functions are recursive functions; the
  induction theorems of the library cannot be used (they take an operator), so each
  proof looks at the least counterexample, which exists by `WFMin`.

Only model-checked: the liveness properties and `OnlyLocksBlock` (ENABLED), which the
proof system does not handle. Every invariant of every passing run but that one is
proved.

## 5. Findings

* **PgLedger.** `complete_apply` and `transition_run` read a run with a plain
  SELECT and then UPDATE it by its identifier. On PostgreSQL two of them can both
  pass their check; the later one overwrites the status. A run may so end
  `apply_failed` with its manifest in the ledger.
* **LiveRelease.** A rolled-back run frees the fabric lock (`worker.py:394`)
  before it releases the plan's reservation (`worker.py:402`). A second run of
  the plan can put the design back in between and lose its resources.
* **IseLostEdit.** `post_hash` is taken from the GET after a PUT before that is
  compared with what was sent. A change seen by that GET passes as the
  transaction's own and rollback overwrites it; so does a change between
  rollback's GET and PUT.
* **StaleBaseline.** A plan embeds the baseline that was the newest when it was
  made, and nothing compares it with the newest one later: not `create_run`, not
  the worker (which renders again from the plan's own baseline), not
  `complete_apply`. If another run succeeds in between, what that run put on the
  devices is not pruned, and the new manifest no longer owns it, so no later run
  will remove it either. `docs/owned-state-reconciliation.md` says that
  decommission cleanup cannot be silently omitted. `LedgerIsReality` shows that
  this is the only way: runs on a current baseline leave exactly what is owned.

## 6. Observed while modelling

Differences between documents and code that the models reproduce and no run
singles out:

* A verified rollback releases the reservation (`worker.py:404`);
  `docs/poc-end-to-end-blueprint.md:50` says it is quarantined, never released.
* A queued run starts although its reservation was released (`worker.py:210`;
  the master guide, line 610, lists the reservations among the checks before any
  write), and although its window has ended (line 626): the window is compared
  with the clock only in `create_run`.
* A worker never reads its run again before it sends a block. If an operator
  recovers the run of a worker that only hangs (`Recovery = "presumed"`), two
  processes write to one fabric; the runbook (lines 164 and 298) calls that transition safe.
* A create whose id was never learnt is looked up by name in rollback
  (`ise.py:868`), which may delete the identical object of another run
  (`docs/ise-ers-executor.md:66` says only its own).
* An update that ISE carried out but did not answer has no `post_hash`;
  rollback refuses it (`ise.py:921`), although `docs/policy-plane-renderer.md:120` says a failed
  call restores every resource. `NothingLeft` still holds: the run ends `rollback_failed`.
* A stale transition on PostgreSQL can reactivate a released reservation
  (`store.py:642`). `NoOverlap` holds even then, because the constraints apply to the reactivated rows.
* `create_plan` handlers commit a reservation before validation and rendering,
  which may fail; nothing releases it then (`api.py:265`). `LeakOnlyByFailure`
  says that this is the only way to lose one. The guided workflow answers an
  identical demand with the same reservation and calls itself one that never
  needs a manual release (`api.py:593`); after a design that validation refuses,
  or once the reservation is quarantined, each repetition gets that one again.
* Two plans may name one reservation, one for each baseline it was planned on.
* `process_dry_run` simulates the artifact that the installed release renders and
  does not compare it with the artifact of the run (`api.py:906`), so that after an
  upgrade the evidence and the verdict may be those of another artifact than the
  one that was planned. `SimulationWhole` therefore says *one* artifact.
* A worker that may consume the blocker of the proof of concept leaves its run
  queued, with the fabric locked, when the approval has expired meanwhile.
* A worker that refuses a blocked artifact moves `apply_running` to `apply_failed`
  too, since it does not look at the status again (`worker.py:174`). Workers of
  one queue are configured alike; if they were not, the refusing one could end
  the run of the other.
* The allocator refuses satisfiable documents: a group or site without a number of
  its own gets the first free one, even if a later one asks for just that.
* Legacy VLANs (1002-1005) are handed out by first fit and refused by the validator
  (`intent.py:893`), after the design was reserved; so are two pools whose names,
  joined by dashes, coincide. `Defective` lists such late refusals: two equal
  dashboard addresses, which the allocator copies without comparing them
  (`allocator.py:606`, `intent.py:564`), and a production design with one border, one
  control plane or one fusion node, which guardrails may allow
  (`allocator.py:1575`) and the validator never does (`intent.py:657`, `:671`), among them.
* A store error in the move to `dry_run_running`, or in the one to `dry_run_failed`
  that follows another error, leaves a dry run `dry_run_running`: no request moves it
  on, since `process_dry_run` takes queued runs only (`simulator.py:19`), and the Meraki
  workflow polls it until its budget is spent. `docs/master-output-contract.md:39`
  speaks of terminal states only. A run that began and met no such error ends, unless
  the service dies (`DryRunEnds`).
* Explicit `border_handoff.peers` of a schema before 1.2 always raise: the schema
  allows no `remote_as` in them and `allocator.py:1846` converts it.
* Sign-offs are to be independent (`acceptance.py:4`), but nothing compares the
  people behind them, and evidence that does not start with `evidence://` is
  accepted unread. `ReadyMeansProven` is about the records, not the people.
* The segment loopback (order 700) is removed before the policy lines (600), one
  of which, `register-source`, names it; `docs/owned-state-reconciliation.md`
  calls the order dependency-safe. `NothingDangles` is stated without that line.
* Whether a resource is stale is decided for each by itself (`reconciliation.py:713`).
  If only the range of an access list changes, the list is removed in the first phase
  while the policy that names it stays, until the last phase makes the list anew.
  `NothingDangles` is therefore about lines that go or come, not about policy lines
  that both designs have (`Retained`).
* The loopback of an RP and the loopback of a segment, which bears the number of its
  L3 instance, share one range of numbers, and nothing compares them (`intent.py:502`,
  `intent.py:780`). The default of 60000 is a legal instance. With equal numbers two
  blocks and two owned resources would be one interface; the model gives the RP
  a number of its own (`LoopbackAssumption`).
* System-wide PIM lines, among them `ip pim rp-address` (`renderer.py:79`), and in
  head-end transport the RP loopback and MSDP lines are rendered but not owned: a
  change of them leaves the old ones on the device. The model leaves the first
  out and starts no fabric in the second state.
* Two peers of one fusion node with equal network and VLAN pass `validate_intent`,
  and then `create_plan` raises `ReconciliationError` (`reconciliation.py:429`).
* `record_adopted_owned_state` does not look at the fabric lock: an adoption
  during a run makes a baseline that the run's success replaces.
* A confirmed apply uses the plan hash as its idempotency key (`api.py:671`), so
  that after a rollback confirming the same plan again returns the finished run,
  although the guided workflow is to be "freely repeatable" (`api.py:598`).

## 7. Plan

Done, in the order of importance:

1. `RunStore`, abstract specification of the store, with proofs.
2. `ApplyWorker` on top of it, with proofs.
3. `IseTransaction`, with proofs.
4. `StoreSessions`, refinement to `RunStore` on both databases, with proofs.
5. `AllocationLedger`, refinement to `RunStore`, with proofs.
6. `Orchestrator`, requests of several transactions and the simulator, composed
   with the workers, with proofs.
7. `MulticastDesign` and `Reconcile`: owned state, pruning and rendering, with proofs.
8. `SiteHierarchy`, `DesignDerivation`, `IntentValidation` and `Acceptance`:
   the checks of documents, each against a definition, composed in
   `DocumentChecks`, with proofs.

Left:

* A write to ISE that lands after its request timed out, in `IseTransaction`.
* The policy plane in `Reconcile`; it has no owned state in the code either.
* The derivation of multicast in `DesignDerivation`.

Not modelled, and why:

* Schema validation, field types and formats, the templates of the renderer that
  share nothing with multicast, and the parsing of show commands are functions on
  text without state. Gates on operational state are checks that may fail.
* The Meraki workflow packages, their export and their audit
  (`meraki_workflow_package.py`, `meraki_native_export.py`, `workflow_audit.py`)
  build and check fixed documents for an external engine, one field at a time; nothing in them depends on an earlier step.
* The guided form (`poc_intake.py`) and the preview (`poc_execution.py`) are field
  checks; what they decide, whether an artifact is the pinned one, is a constant of
  `Orchestrator`.
* Authentication and secret look-up are checks that succeed or fail; the recovery
  report only reads; shell scripts and service units are deployment.
* The contents of evidence are left out; what it was collected for is kept.
