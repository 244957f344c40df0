--------------------------- MODULE DocumentChecks ---------------------------
(***************************************************************************)
(* The checks of documents, each against a definition of what it is for:   *)
(* SiteHierarchy (the campus), DesignDerivation and IntentValidation       *)
(* (requirements), Acceptance (the registry of a release).                 *)
(*                                                                         *)
(* A document is drafted, the draft is revised, and the result is opened;  *)
(* there is nothing else to do.                                            *)
(***************************************************************************)
EXTENDS IntentValidation, Acceptance

CONSTANTS
  Campuses, Requirements, Registries, \* the drafts, by kind
  Revisions(_)                        \* what a draft may be opened as

VARIABLE doc

\* A draft is revised into a document of its own kind.
ASSUME DraftsAssumption ==
  /\ \A d \in Campuses     : Revisions(d) \subseteq Campus
  /\ \A d \in Requirements : Revisions(d) \subseteq Requirement
  /\ \A d \in Registries   : Revisions(d) \subseteq Registry

-----------------------------------------------------------------------------
Nothing == [kind |-> "none"]

Draft ==
  /\ doc = Nothing
  /\ \/ \E d \in Campuses     : doc' = [kind |-> "draft", draft |-> d]
     \/ \E d \in Requirements : doc' = [kind |-> "draft", draft |-> d]
     \/ \E d \in Registries   : doc' = [kind |-> "draft", draft |-> d]

Open == doc.kind = "draft" /\ doc' \in Revisions(doc.draft)

DocInit == doc = Nothing
DocNext == Draft \/ Open
DocSpec == DocInit /\ [][DocNext]_doc

-----------------------------------------------------------------------------
(* The properties.                                                          *)

\* allocator.py:239-309 and intent.py:321-423: each walk, with the depths it
\* remembers, accepts exactly the trees of the allowed types within its limit,
\* whatever the names of the nodes and wherever a cycle hangs; and a zone that
\* both accept lies below the node of its site (allocator.py 399-447, intent.py 806-863).
HierarchyMatchesTree ==
  doc.kind = "campus" =>
    LET nodes == doc.nodes IN
    /\ (NodesAccepted(nodes) /\ DepthsAccepted(nodes)) <=> IsHierarchy(nodes, MaxDepth)
    /\ NodeIssues(nodes) = {} <=> IsHierarchy(nodes, MaxHierarchyDepth)
    /\ CampusAccepted(doc, doc.used, doc.networks) => ZonesInside(doc)
    /\ CampusIssues(doc, doc.used, doc.networks) = {} => ZonesInside(doc)

\* Requirements the allocator derives an intent from, reserving the design, are
\* refused by validate_intent exactly when they have one of the defects that
\* the allocator does not look for or that its guardrails put up with; everything
\* else it derives is valid.  This ranges over the rules of DesignDerivation and
\* IntentValidation; their headers name those that are left out.
LateRejection ==
  doc.kind = "requirements" /\ Accepted(doc) =>
    (Issues(DeriveIntent(doc)) # {} <=> Defective(doc))

\* acceptance.py:90-120: the search finds a cycle exactly when some gate waits
\* for itself, also among gates that are not required, and takes no gate that
\* is reached on two ways for one.
CyclesFound ==
  doc.kind = "registry" => (Search(doc).cyclic <=> Circular(doc))

\* acceptance.py:343-446: a release is ready only when every gate it rests on,
\* however indirectly and required or not, passed on evidence that passed and
\* is unchanged, none of them waits for itself, and every role approved.
ReadyMeansProven ==
  doc.kind = "registry" /\ Assess(doc).ready =>
    /\ \A id \in RestsOn(doc) : Proven(Gate(doc, id))
    /\ ~Circular(doc)
    /\ \A role \in doc.roles : StatusOfRole(doc, role) = "approved"
=============================================================================
