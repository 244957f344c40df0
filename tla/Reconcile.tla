----------------------------- MODULE Reconcile -----------------------------
(***************************************************************************)
(* Plans of one fabric that carry the owned-state baseline they were made  *)
(* from, and the runs that apply them: stale owned state is removed and    *)
(* proved absent, then the new design is entered and its gates are read    *)
(* (planner.py, reconciliation.py, renderer.render_configuration,          *)
(* worker.process_apply, the ownership ledger of store.py).                *)
(*                                                                         *)
(* Runs are serial (the fabric lock, module RunStore), a failed run is     *)
(* rolled back whole (module ApplyWorker), and both are taken from there.  *)
(* A fabric that a failed rollback left damaged is repaired before it is   *)
(* planned again.  An intent stands for its owned-state manifest, which is *)
(* a function of it.                                                       *)
(***************************************************************************)
EXTENDS MulticastDesign


CONSTANTS
  Candidates,    \* the intents clients submit, valid or not
  Accepted,      \* allowed_blocker_codes of the worker
  MaxPlans       \* bound: plans that exist at once

\* Nobody allows an apply without a baseline, or one in head-end transport,
\* which the renderer does not implement.
ASSUME AcceptedAssumption ==
  Accepted \cap {"baseline_missing", "head_end_pending"} = {}

\* What the form of an intent document guarantees.
ASSUME CandidateAssumption ==
  \A i \in Candidates :
    /\ i.devices \subseteq Devices /\ i.fusion \subseteq FusionNodes
    /\ i.devices \cap i.fusion = {}
    /\ i.transport \in {"native", "head_end"}
    /\ \A S \in {i.rps, i.pools, i.peers, Networks(i)} : IsFiniteSet(S)

\* The loopback of the RP bears a number that no network's segment loopback
\* does; operators see to it, nothing in the code compares the two.
ASSUME LoopbackAssumption == \A i \in Candidates : "rp" \notin Networks(i)

VARIABLES
  config,        \* the running configuration of each node
  ledger,        \* the intent of the newest owned-state manifest
  request,       \* the plan a handler is about to save
  plans,         \* saved plans: an intent and the baseline embedded
  run,           \* the active run, or none; at position 0 it is queued
  clean          \* history: every run since the last adoption was planned
                 \* from the baseline that was the newest when it ended

vars == <<config, ledger, request, plans, run, clean>>

\* What create_plan does not refuse.
Plannable ==
  {i \in Candidates : ValidIntent(i) /\ NoDuplicateKeys(i) /\ ValidManifest(i)}

-----------------------------------------------------------------------------
(* The steps of a run. *)

BlockSteps(d, blocks) ==
  [n \in 1..Len(blocks) |-> [kind |-> "block", node |-> d, what |-> blocks[n]]]

\* A phase goes through the nodes in their order, then through its gates.
ForEachNode(steps) ==
  FlattenSeq([n \in 1..Len(NodeOrder) |-> steps[NodeOrder[n]]])

ReconciliationPhase(base, i) ==
  LET stale == [d \in Nodes |-> Removals(base, i, d)]
      remove == [d \in Nodes |->
        BlockSteps(d, [n \in 1..Len(stale[d]) |-> stale[d][n].remove])]
      absent == [d \in Nodes |->
        [n \in 1..Len(stale[d]) |->
          [kind |-> "absent", node |-> d, what |-> stale[d][n]]]]
  IN ForEachNode(remove) \o ForEachNode(absent)

DesignPhase(blocks) ==
  ForEachNode([d \in Nodes |-> BlockSteps(d, blocks[d])])

HandoffPhase(i) ==
  DesignPhase([d \in Nodes |-> BorderHandoffBlocks(i, d) \o FusionHandoffBlocks(i, d)])

MulticastPhase(i) ==
  LET lines == [d \in Nodes |-> ConfigGates(i, d)]
      gates == [d \in Nodes |->
        [n \in 1..Len(lines[d]) |->
          [kind |-> "present", node |-> d, what |-> lines[d][n]]]]
  IN DesignPhase([d \in Nodes |-> MulticastBlocks(i, d)]) \o ForEachNode(gates)

StepsOf(base, i) ==
  ReconciliationPhase(base, i)
    \o DesignPhase([d \in Nodes |-> UnderlayBlocks(i, d)])
    \o DesignPhase([d \in Nodes |-> EdgeOverlayBlocks(i, d)])
    \o HandoffPhase(i) \o MulticastPhase(i)

Program == [base \in Plannable |-> [i \in Plannable |-> StepsOf(base, i)]]

NoRun    == [plan |-> None, pos |-> 0, before |-> None]
Steps    == Program[run.plan.base][run.plan.intent]
Step     == Steps[run.pos]
Locked   == run.plan # None
Running  == Locked /\ run.pos > 0
Finished == run.pos > Len(Steps)

GatePasses(step) ==
  \/ step.kind = "absent"  /\ Absent(step.what, config[step.node])
  \/ step.kind = "present" /\ step.what \subseteq config[step.node]

-----------------------------------------------------------------------------
(* The fabric has been deployed by hand before the orchestrator knows it. *)

\* What an intent puts on a node that held nothing.
Deployed(i, d) ==
  LET lines(blocks) == UNION {blocks[n].add : n \in 1..Len(blocks)} IN
  lines(UnderlayBlocks(i, d)) \cup lines(EdgeOverlayBlocks(i, d))
    \cup lines(BorderHandoffBlocks(i, d)) \cup lines(FusionHandoffBlocks(i, d))
    \cup lines(MulticastBlocks(i, d))

RInit ==
  /\ \E i \in Plannable : /\ ~(i.enabled /\ i.transport = "head_end")
                          /\ config = [d \in Nodes |-> Deployed(i, d)]
  /\ ledger = None
  /\ request = None
  /\ plans = {}
  /\ run = NoRun
  /\ clean = TRUE

\* Lines of a kind that owned state may have.
Manageable(d) == UNION {OwnedLines(i, d) : i \in Plannable}
ManageableOn == [d \in Nodes |-> Manageable(d)]
OwnedOn == [i \in Plannable |-> [d \in Nodes |-> OwnedLines(i, d)]]

Matches(i) == \A d \in Nodes : config[d] \cap ManageableOn[d] = OwnedOn[i][d]

\* record_adopted_owned_state: the discovery is accurate, and nothing runs
\* between it and its approval.
Adopt(i) ==
  /\ ~Locked
  /\ Matches(i)
  /\ ledger' = i
  /\ clean' = TRUE
  /\ UNCHANGED <<config, request, plans, run>>

\* A planning handler has read the newest baseline and made the plan; it is
\* saved by a later transaction, or the request is lost before.
Request(i) ==
  /\ request = None
  /\ Cardinality(plans) < MaxPlans
  /\ i \in Plannable
  /\ request' = [intent |-> i, base |-> ledger]
  /\ UNCHANGED <<config, ledger, plans, run, clean>>

SavePlan ==
  /\ request # None
  /\ plans' = plans \cup {request}
  /\ request' = None
  /\ UNCHANGED <<config, ledger, run, clean>>

LoseRequest ==
  /\ request # None
  /\ request' = None
  /\ UNCHANGED <<config, ledger, plans, run, clean>>

\* The approval of a plan runs out; a run of it that was queued goes on.
Expire(p) ==
  /\ plans' = plans \ {p}
  /\ UNCHANGED <<config, ledger, request, run, clean>>

\* workflow_action_poc_confirm_apply: approval, then a queued run, which takes
\* the lock of the fabric.
Confirm(p) ==
  /\ ~Locked
  /\ run' = [plan |-> p, pos |-> 0, before |-> None]
  /\ UNCHANGED <<config, ledger, request, plans, clean>>

\* The artifact, rendered from the plan's own baseline, has a blocker left.
Refuse ==
  /\ Locked /\ ~Running
  /\ ~(Blockers(run.plan.intent, run.plan.base) \subseteq Accepted)
  /\ run' = NoRun
  /\ UNCHANGED <<config, ledger, request, plans, clean>>

Start ==
  /\ Locked /\ ~Running
  /\ Blockers(run.plan.intent, run.plan.base) \subseteq Accepted
  /\ run' = [plan |-> run.plan, pos |-> 1, before |-> config]
  /\ UNCHANGED <<config, ledger, request, plans, clean>>

SendBlock ==
  /\ Running /\ ~Finished /\ Step.kind = "block"
  /\ config' = [config EXCEPT ![Step.node] = Effect(Step.what, @)]
  /\ run' = [run EXCEPT !.pos = @ + 1]
  /\ UNCHANGED <<ledger, request, plans, clean>>

PassGate ==
  /\ Running /\ ~Finished /\ Step.kind # "block"
  /\ GatePasses(Step)
  /\ run' = [run EXCEPT !.pos = @ + 1]
  /\ UNCHANGED <<config, ledger, request, plans, clean>>

\* A call, a gate or the last transaction fails: every checkpoint is restored and verified.
Fail ==
  /\ Running
  /\ config' = run.before
  /\ run' = NoRun
  /\ UNCHANGED <<ledger, request, plans, clean>>

\* complete_apply: the artifact's owned state becomes the newest manifest.
Complete ==
  /\ Running /\ Finished
  /\ ledger' = run.plan.intent
  /\ clean' = (clean /\ run.plan.base = ledger)
  /\ run' = NoRun
  /\ UNCHANGED <<config, request, plans>>

RNext ==
  \/ \E i \in Plannable : Adopt(i) \/ Request(i)
  \/ \E p \in plans : Expire(p) \/ Confirm(p)
  \/ SavePlan \/ LoseRequest \/ Refuse \/ Start
  \/ SendBlock \/ PassGate \/ Fail \/ Complete

RSpec == RInit /\ [][RNext]_vars

-----------------------------------------------------------------------------
\* As long as plans were applied on the baseline they were made from, the
\* nodes hold between runs exactly the multicast lines of the newest manifest:
\* what the renderer enters is what the manifest says, and pruning leaves
\* nothing of an earlier design.
LedgerIsReality ==
  ~Running /\ clean /\ ledger # None => Matches(ledger)

Current == Running /\ clean /\ run.plan.base = ledger

\* A run removes no line that the baseline of its plan does not own: neither
\* the unicast side of shared interfaces nor anything else.
OnlyOwnedRemoved ==
  Current => \A d \in Nodes : run.before[d] \ OwnedOn[ledger][d] \subseteq config[d]

\* No gate of a run on a current baseline fails because of the configuration:
\* a removed line is not in the gate's output on behalf of another resource.
GatesHold ==
  Current /\ ~Finished => Step.kind = "block" \/ GatePasses(Step)

\* What a line of a policy or of LISP names: the access list, or the loopback
\* that has the segment address.
Named(l) ==
  CASE l.text[1] = "ssm range"  -> {Header(Acl(l.text[3]))}
    [] l.text[1] = "rp-address" -> {Header(Acl(l.text[4]))}
    [] l.text[1] = "mapping"    -> {Line(Loopback(l.sec[2]), <<"address", l.text[2]>>)}
    [] OTHER -> {}

\* A line of a resource that the baseline owns and the new design keeps.
Retained(d, l) ==
  \E r \in OwnedState(ledger, d) \cap OwnedState(run.plan.intent, d) : l \in r.lines

\* At no step of such a run does a policy name an access list that is not
\* there, or LISP announce a segment address that no loopback has: a line that
\* is to go has gone before what it names, and a new one comes after it.  Only
\* a line that both designs have may wait for its list to be made anew.
NothingDangles ==
  Current => \A d \in Nodes : \A l \in config[d] :
    (Retained(d, l) => l.text[1] = "mapping") => Named(l) \subseteq config[d]

\* What the documentation says without the condition: between runs no node
\* holds multicast state that the newest manifest does not own.
CleanupNotOmitted ==
  ~Running /\ ledger # None =>
    \A d \in Nodes : config[d] \cap ManageableOn[d] \subseteq OwnedOn[ledger][d]
=============================================================================
