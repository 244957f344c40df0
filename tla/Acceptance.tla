----------------------------- MODULE Acceptance -----------------------------
(***************************************************************************)
(* validate_production_acceptance (src/orchestrator/acceptance.py): what a *)
(* registry of release gates, evidence and sign-offs, and the manifest of  *)
(* the workflows, say about whether the apply may be enabled.              *)
(*                                                                         *)
(* Data abstraction.  The file an evidence record refers to is "verified", *)
(* "missing", "changed" (its hash differs), outside the root ("escapes")   *)
(* or not a file of the repository at all ("elsewhere": any scheme but     *)
(* evidence://).  A sign-off is decided when it has its four fields.  The  *)
(* JSON schema and the search for secrets are left out.                    *)
(***************************************************************************)
EXTENDS Naturals, SequencesExt

CONSTANTS
  Names,  \* identifiers of gates and of evidence
  Roles   \* who signs off

-----------------------------------------------------------------------------
(* A registry.                                                              *)
(*   gates      [id, required, status, deps, evidence, rationale], evidence *)
(*              being a list of [id, result, file]                          *)
(*   roles      required_signoff_roles                                      *)
(*   signoffs   [role, status, decided]                                     *)
(*   requested, claims     controls: apply_authorization_requested; the     *)
(*              apply workflow is present or device writes are permitted    *)
(*   manifest   [supplied, apply, workflow, steps]                          *)

EvidenceRecord ==
  [id : Names, result : {"pending", "passed", "failed"},
   file : {"verified", "missing", "changed", "escapes", "elsewhere"}]
GateRecord ==
  [id : Names, required : BOOLEAN,
   status : {"pending", "passed", "failed", "not_applicable"},
   deps : Seq(Names), evidence : Seq(EvidenceRecord), rationale : BOOLEAN]
SignoffRecord ==
  [role : Roles, status : {"pending", "approved", "rejected"}, decided : BOOLEAN]

Registry ==
  [kind : {"registry"}, gates : Seq(GateRecord), roles : SUBSET Roles,
   signoffs : Seq(SignoffRecord), requested : BOOLEAN, claims : BOOLEAN,
   manifest : [supplied : BOOLEAN, apply : BOOLEAN, workflow : BOOLEAN,
               steps : BOOLEAN]]

GateIds(reg) == {g.id : g \in ToSet(reg.gates)}

\* gates_by_id: of gates with one identifier the first counts.
Gate(reg, id) == reg.gates[SelectInSeq(reg.gates, LAMBDA g : g.id = id)]

\* The gates that a gate names, of those that there are.
DependsOn(reg, gate) == ToSet(gate.deps) \cap GateIds(reg)

-----------------------------------------------------------------------------
(* _detect_dependency_cycles: a depth first search that marks a gate when   *)
(* it enters it and again when it leaves it.                                *)

Searches(reg) == [entered : SUBSET GateIds(reg), left : SUBSET GateIds(reg),
                  cyclic : BOOLEAN]

\* One call of visit; deeper says what the calls that it makes itself return.
\* What there is no gate for is not visited.
Visit(reg, deeper) ==
  [id \in Names |-> [s \in Searches(reg) |->
     IF id \notin GateIds(reg) \/ id \in s.left THEN s
     ELSE IF id \in s.entered THEN [s EXCEPT !.cyclic = TRUE]
     ELSE LET below == FoldLeft(LAMBDA t, d : deeper[d][t],
                                [s EXCEPT !.entered = @ \cup {id}],
                                Gate(reg, id).deps)
          IN [below EXCEPT !.left = @ \cup {id}]]]

\* visit, nested at most that deep.
Visits(reg) ==
  LET visit[depth \in Nat] ==
        IF depth = 0 THEN [id \in Names |-> [s \in Searches(reg) |-> s]]
        ELSE Visit(reg, visit[depth - 1])
  IN visit

\* Each call within a call has entered one gate more.
SearchFrom(reg, ids) ==
  LET visit == Visits(reg)[Len(reg.gates) + 1] IN
  FoldLeft(LAMBDA s, id : visit[id][s],
           [entered |-> {}, left |-> {}, cyclic |-> FALSE], ids)

GateColumn(gates) == [i \in DOMAIN gates |-> gates[i].id]

\* Fault: only what the required gates depend on is searched.
SearchRequired(reg) ==
  SearchFrom(reg, GateColumn(SelectSeq(reg.gates, LAMBDA g : g.required)))

Search(reg) == SearchFrom(reg, GateColumn(reg.gates))

-----------------------------------------------------------------------------
Twice(values) == \E i, j \in DOMAIN values : i # j /\ values[i] = values[j]
When(condition, issue) == IF condition THEN {issue} ELSE {}

EvidenceIssues(reg) ==
  LET all == FlattenSeq([i \in DOMAIN reg.gates |-> reg.gates[i].evidence])
      file(f, issue) == When(\E e \in ToSet(all) : e.file = f, issue)
  IN UNION {When(Twice([i \in DOMAIN all |-> all[i].id]), "evidence.duplicate"),
            file("escapes", "evidence.path_escape"),
            file("missing", "evidence.missing"),
            file("changed", "evidence.hash_mismatch")}

Results(gate) == [i \in DOMAIN gate.evidence |-> gate.evidence[i].result]

WithoutEvidence(gate) ==
  gate.status = "passed" /\ (gate.evidence = <<>> \/ ToSet(Results(gate)) # {"passed"})

\* Fault: a dependency that is not required itself is not looked at.
OptionalIgnored(reg, gate) ==
  /\ gate.status = "passed"
  /\ \E d \in DependsOn(reg, gate) :
       Gate(reg, d).status # "passed" /\ Gate(reg, d).required

\* A passed gate needs each of its dependencies to have passed.
NotPassedBelow(reg, gate) ==
  /\ gate.status = "passed"
  /\ \E d \in DependsOn(reg, gate) : Gate(reg, d).status # "passed"

GateIssues(reg) ==
  LET gates == ToSet(reg.gates) IN
  UNION {
    When(Twice([i \in DOMAIN reg.gates |-> reg.gates[i].id]), "gate.duplicate"),
    When(\E g \in gates : WithoutEvidence(g), "gate.passed_without_evidence"),
    When(\E g \in gates : g.status = "failed" /\ "failed" \notin ToSet(Results(g)),
         "gate.failed_without_evidence"),
    When(\E g \in gates : g.status = "not_applicable" /\ ~g.rationale,
         "gate.not_applicable_rationale"),
    When(\E g \in gates : g.status = "not_applicable" /\ g.required,
         "gate.not_applicable_required"),
    When(\E g \in gates : ~(ToSet(g.deps) \subseteq GateIds(reg)),
         "gate.dependency_missing"),
    When(\E g \in gates : NotPassedBelow(reg, g), "gate.dependency_not_passed"),
    When(Search(reg).cyclic, "gate.dependency_cycle")}

SignoffIssues(reg) ==
  LET list == reg.signoffs IN
  UNION {
    When(Twice([i \in DOMAIN list |-> list[i].role]), "signoff.duplicate"),
    When(\E s \in ToSet(list) : s.status \in {"approved", "rejected"} /\ ~s.decided,
         "signoff.decision_evidence"),
    When(~(reg.roles \subseteq {s.role : s \in ToSet(list)}), "signoff.missing")}

-----------------------------------------------------------------------------
\* signoffs_by_role: the last record of a role counts.
StatusOfRole(reg, role) ==
  LET i == SelectLastInSeq(reg.signoffs, LAMBDA s : s.role = role)
  IN IF i = 0 THEN "absent" ELSE reg.signoffs[i].status

Required(reg) == {id \in GateIds(reg) : Gate(reg, id).required}

Complete(reg, issues) ==
  /\ \A id \in Required(reg) : Gate(reg, id).status = "passed"
  /\ \A r \in reg.roles : StatusOfRole(reg, r) = "approved"
  /\ issues = {}

Executable(manifest) == manifest.apply \/ manifest.workflow \/ manifest.steps

\* Nothing may ask for, claim or expose the apply before acceptance.
ApplyIssues(reg, complete) ==
  IF complete THEN {}
  ELSE UNION {When(reg.requested, "apply.request_before_acceptance"),
              When(reg.claims, "apply.write_before_acceptance"),
              When(Executable(reg.manifest), "apply.manifest_fail_open")}

Assess(reg) ==
  LET found    == UNION {EvidenceIssues(reg), GateIssues(reg), SignoffIssues(reg)}
      complete == Complete(reg, found)
      issues   == found \cup ApplyIssues(reg, complete)
  IN
  [valid |-> issues = {}, issues |-> issues, complete |-> complete,
   enable |-> complete /\ reg.requested,
   ready  |-> /\ complete /\ reg.requested /\ reg.claims
              /\ reg.manifest.supplied /\ reg.manifest.apply
              /\ reg.manifest.workflow /\ reg.manifest.steps]

-----------------------------------------------------------------------------
(* What an assessment is for.                                               *)

Closed(reg, S) == \A id \in S : DependsOn(reg, Gate(reg, id)) \subseteq S

\* Each gate that a gate waits for, however indirectly.
Below(reg, id) ==
  {x \in GateIds(reg) :
     \A S \in SUBSET GateIds(reg) :
       DependsOn(reg, Gate(reg, id)) \subseteq S /\ Closed(reg, S) => x \in S}

\* Each gate a release rests on.
RestsOn(reg) == Required(reg) \cup UNION {Below(reg, id) : id \in Required(reg)}

\* A gate that passed on evidence that passed, in files that are what they were.
Proven(gate) ==
  /\ gate.status = "passed" /\ gate.evidence # <<>>
  /\ \A e \in ToSet(gate.evidence) :
       e.result = "passed" /\ e.file \in {"verified", "elsewhere"}

\* Some gate waits for itself.
Circular(reg) == \E id \in GateIds(reg) : id \in Below(reg, id)
=============================================================================
