--------------------------- MODULE SiteHierarchy ---------------------------
(***************************************************************************)
(* Where a fabric is: the hierarchy of areas, buildings and floors, the    *)
(* sites attached to its nodes and the zones inside the sites.  It is      *)
(* checked twice, by the allocator when a design is derived from           *)
(* requirements (src/orchestrator/allocator.py) and again by the validator *)
(* of intents (intent.py), each with a walk of its own that remembers the  *)
(* depths it found.                                                        *)
(*                                                                         *)
(* Data abstraction.  Identifiers are numbers in the order of the names,   *)
(* which is the order of both walks.  A list is a sequence, so that an     *)
(* identifier may occur twice.                                             *)
(***************************************************************************)
EXTENDS Naturals, SequencesExt


CONSTANTS
  MaxHierarchyDepth,  \* MAX_HIERARCHY_DEPTH
  MaxDepth,           \* hierarchy.max_depth of the guardrails
  Profiles,           \* site_profiles, smallest first: [id, endpoints, aps]
  None

ASSUME DepthAssumption == MaxHierarchyDepth \in Nat /\ MaxDepth \in 1..MaxHierarchyDepth
ASSUME NoneAssumption == None \notin Nat

-----------------------------------------------------------------------------
(* A campus: the part of a document that says where its fabric is.          *)
(*   model     "single_site" or "distributed_campus"                        *)
(*   nodes     [id, type, parent], parent None when the key is absent       *)
(*   sites     [id, node, endpoints, aps, profile, group], profile and      *)
(*             group (lisp_multihoming_id) None when absent                 *)
(*   zones     [id, site, node, networks]                                   *)

NodeRecord ==
  [id : Nat, type : {"global", "area", "building", "floor"}, parent : Nat \cup {None}]
SiteRecord ==
  [id : Nat, node : Nat, endpoints : Nat, aps : Nat,
   profile : STRING \cup {None}, group : Nat \cup {None}]
ZoneRecord == [id : Nat, site : Nat, node : Nat, networks : SUBSET Nat]

\* A campus by itself: used are the sites that the devices and the virtual
\* networks name, networks the virtual networks.
Campus ==
  [kind : {"campus"}, model : {"single_site", "distributed_campus"},
   nodes : Seq(NodeRecord), sites : Seq(SiteRecord), zones : Seq(ZoneRecord),
   used : SUBSET Nat, networks : SUBSET Nat]

Ids(list)   == {list[i].id : i \in DOMAIN list}
Column(list) == [i \in DOMAIN list |-> list[i].id]

\* The numbers of a set in their order.
Ranked(S) ==
  [i \in 1..Cardinality(S) |-> CHOOSE n \in S : Cardinality({m \in S : m < n}) = i - 1]

\* The same value at two places.
Repeated(values) ==
  \E i, j \in DOMAIN values : i # j /\ values[i] = values[j]

Entry(list, id) == list[CHOOSE i \in DOMAIN list : list[i].id = id]

AllowedChildren ==
  [global |-> {"area", "building"}, area |-> {"area", "building"},
   building |-> {"floor"}, floor |-> {}]

Globals(nodes) == {n \in ToSet(nodes) : n.type = "global"}

\* parents: of an identifier that occurs twice the last entry counts.
Parents(nodes) ==
  LET below == {i \in DOMAIN nodes : nodes[i].type # "global" /\ nodes[i].parent # None}
  IN [id \in {nodes[i].id : i \in below} |->
        nodes[Max({i \in below : nodes[i].id = id})].parent]

-----------------------------------------------------------------------------
(* The walk.  From every node in turn it climbs until it meets a node whose *)
(* depth is known, then goes back down the trail.                           *)

\* One turn of the loop.
Up(ids, parents, known, climb) ==
  LET n == climb.at
      Stop(why) == [climb EXCEPT !.end = why]
  IN
  IF climb.end # "none"              THEN climb
  ELSE IF n \in known                THEN Stop("known")
  ELSE IF n \in ToSet(climb.trail)   THEN Stop("cycle")
  ELSE IF n \notin ids               THEN Stop("lost")
  ELSE IF n \notin DOMAIN parents    THEN Stop("top")
  ELSE [climb EXCEPT !.at = parents[n], !.trail = Append(@, n)]

\* The trail holds no node twice: the loop ends after a turn for each node.
Climb(ids, parents, known, start) ==
  LET after[turns \in Nat] ==
        IF turns = 0 THEN [end |-> "none", at |-> start, trail |-> <<>>]
        ELSE Up(ids, parents, known, after[turns - 1])
  IN after[Cardinality(ids) + 1]

\* Fault: the trail is gone through in the order it was climbed.
DescendForward(depths, climb) ==
  LET base == IF climb.end = "top" THEN 0 ELSE depths[climb.at]
      trail == climb.trail
  IN [n \in DOMAIN depths |->
        IF depths[n] # None THEN depths[n]
        ELSE IF n = climb.at THEN base
        ELSE IF n \in ToSet(trail) THEN base + (CHOOSE i \in DOMAIN trail : trail[i] = n)
        ELSE None]

Descend(depths, climb) ==
  LET base == IF climb.end = "top" THEN 0 ELSE depths[climb.at]
      trail == Reverse(climb.trail)
  IN [n \in DOMAIN depths |->
        IF depths[n] # None THEN depths[n]
        ELSE IF n = climb.at THEN base
        ELSE IF n \in ToSet(trail) THEN base + (CHOOSE i \in DOMAIN trail : trail[i] = n)
        ELSE None]

\* What a walk knows: the depths of the nodes, None where there is none yet, and
\* whether it met a cycle.
Walks(ids) == [depths : [ids -> Nat \cup {None}], cyclic : BOOLEAN]

Measured(depths) == {n \in DOMAIN depths : depths[n] # None}

WalkFrom(ids, parents) ==
  [start \in ids |-> [walk \in Walks(ids) |->
     LET climb == Climb(ids, parents, Measured(walk.depths), start) IN
     CASE climb.end = "cycle" -> [walk EXCEPT !.cyclic = TRUE]
       [] climb.end = "lost"  -> walk
       [] OTHER -> [walk EXCEPT !.depths = Descend(@, climb)]]]

Walk(ids, parents, top) ==
  LET from == WalkFrom(ids, parents) IN
  FoldLeft(LAMBDA walk, start : from[start][walk],
           [depths |-> [n \in ids |-> IF n \in top THEN 0 ELSE None], cyclic |-> FALSE],
           Ranked(ids))

Deeper(walk, limit) == \E n \in Measured(walk.depths) : walk.depths[n] > limit

\* is_descendant, hierarchy_descends_from: up the parents until there is none
\* or one was met before.
Onward(parents, ancestor, search) ==
  LET n == search.at IN
  IF search.end # "none" THEN search
  ELSE IF n = ancestor THEN [search EXCEPT !.end = "found"]
  ELSE IF n \in search.visited \/ n \notin DOMAIN parents
       THEN [search EXCEPT !.end = "ended"]
  ELSE [search EXCEPT !.at = parents[n], !.visited = @ \cup {n}]

DescendsFrom(parents, node, ancestor) ==
  LET after[turns \in Nat] ==
        IF turns = 0 THEN [end |-> "none", at |-> node, visited |-> {}]
        ELSE Onward(parents, ancestor, after[turns - 1])
  IN after[Cardinality(DOMAIN parents) + 1].end = "found"

-----------------------------------------------------------------------------
(* The allocator: whether _derive_site_context accepts a campus.            *)

NodesAccepted(nodes) ==
  /\ ~Repeated(Column(nodes))
  /\ Cardinality(Globals(nodes)) = 1
  /\ \A n \in Globals(nodes) : n.parent = None
  /\ \A n \in ToSet(nodes) \ Globals(nodes) :
       /\ n.parent \in Ids(nodes)
       /\ n.type \in AllowedChildren[Entry(nodes, n.parent).type]

DepthsAccepted(nodes) ==
  LET top  == {n.id : n \in Globals(nodes)}
      walk == Walk(Ids(nodes), Parents(nodes), top)
  IN ~walk.cyclic /\ ~Deeper(walk, MaxDepth)

Fits(site, profile) ==
  site.endpoints <= profile.endpoints /\ site.aps <= profile.aps

Recommended(site) == SelectInSeq(Profiles, LAMBDA profile : Fits(site, profile))

\* The profile that is asked for, or the smallest that fits.
ProfileAccepted(site) ==
  /\ Recommended(site) # 0
  /\ site.profile # None => site.profile \in Ids(Profiles) /\ Fits(site, Entry(Profiles, site.profile))

SitesAccepted(campus) ==
  LET sites == campus.sites IN
  /\ ~Repeated(Column(sites))
  /\ ~Repeated([i \in DOMAIN sites |-> sites[i].node])
  /\ \A s \in ToSet(sites) :
       /\ s.node \in Ids(campus.nodes)
       /\ Entry(campus.nodes, s.node).type # "global"
       /\ ProfileAccepted(s)
  /\ campus.model = "single_site" => Len(sites) = 1
  /\ campus.model = "distributed_campus" => Len(sites) >= 2

ZonesAccepted(campus, networks) ==
  LET parents == Parents(campus.nodes) IN
  /\ ~Repeated(Column(campus.zones))
  /\ \A z \in ToSet(campus.zones) :
       /\ z.site \in Ids(campus.sites)
       /\ z.node \in Ids(campus.nodes)
       /\ DescendsFrom(parents, z.node, Entry(campus.sites, z.site).node)
       /\ z.networks \subseteq networks

\* used: the sites that the devices and the virtual networks name.
CampusAccepted(campus, used, networks) ==
  /\ NodesAccepted(campus.nodes)
  /\ DepthsAccepted(campus.nodes)
  /\ SitesAccepted(campus)
  /\ used \subseteq Ids(campus.sites)
  /\ ZonesAccepted(campus, networks)

-----------------------------------------------------------------------------
(* The validator: the issues validate_intent raises for a campus.           *)

\* An issue, raised on a condition.
Raise(condition, issue) == IF condition THEN {issue} ELSE {}

\* hierarchy_types: here too the last entry counts.
TypeIn(nodes, id) == nodes[SelectLastInSeq(nodes, LAMBDA n : n.id = id)].type

NodeIssues(nodes) ==
  LET parents == Parents(nodes)
      ids     == Ids(nodes)
      globals == {i \in DOMAIN nodes : nodes[i].type = "global"}
      walk    == Walk(ids, parents, {id \in ids : TypeIn(nodes, id) = "global"})
  IN
  UNION {
    Raise(Repeated(Column(nodes)), "duplicate hierarchy node id"),
    Raise(Cardinality(globals) # 1, "hierarchy.global_count"),
    Raise(\E i \in globals : nodes[i].parent # None, "hierarchy.global_parent"),
    Raise(\E i \in DOMAIN nodes \ globals : nodes[i].parent = None, "required.string"),
    Raise(\E n \in DOMAIN parents : parents[n] \notin ids, "reference.hierarchy_parent"),
    Raise(\E n \in DOMAIN parents :
            /\ parents[n] \in ids
            /\ TypeIn(nodes, n) \notin AllowedChildren[TypeIn(nodes, parents[n])],
          "hierarchy.parent_type"),
    Raise(walk.cyclic, "hierarchy.cycle"),
    Raise(Deeper(walk, MaxHierarchyDepth), "hierarchy.too_deep")}

SiteIssues(campus) ==
  LET sites == campus.sites
      known == {i \in DOMAIN sites : sites[i].node \in Ids(campus.nodes)}
  IN
  UNION {
    Raise(Repeated(Column(sites)), "duplicate fabric site id"),
    Raise(known # DOMAIN sites, "reference.hierarchy_node"),
    Raise(\E i, j \in known : i # j /\ sites[i].node = sites[j].node,
          "duplicate fabric-site hierarchy node"),
    Raise(\E i \in known : TypeIn(campus.nodes, sites[i].node) = "global",
          "site.global_node"),
    Raise(\/ campus.model = "single_site" /\ Len(sites) # 1
          \/ campus.model = "distributed_campus" /\ Len(sites) < 2,
          "site.count")}

\* fabric_site_nodes: of a site that occurs twice the last entry counts.
ZoneIssues(campus, networks) ==
  LET zones == campus.zones
      NodeOfSite(id) ==
        campus.sites[SelectLastInSeq(campus.sites, LAMBDA s : s.id = id)].node
  IN
  UNION {
    Raise(Repeated(Column(zones)), "duplicate fabric zone id"),
    Raise(\E z \in ToSet(zones) : z.site \notin Ids(campus.sites),
          "reference.fabric_site"),
    Raise(\E z \in ToSet(zones) : z.node \notin Ids(campus.nodes),
          "reference.hierarchy_node"),
    Raise(\E z \in ToSet(zones) :
            /\ z.site \in Ids(campus.sites) /\ z.node \in Ids(campus.nodes)
            /\ ~DescendsFrom(Parents(campus.nodes), z.node, NodeOfSite(z.site)),
          "zone.outside_site"),
    Raise(\E z \in ToSet(zones) : ~(z.networks \subseteq networks),
          "reference.virtual_network")}

CampusIssues(campus, used, networks) ==
  UNION {NodeIssues(campus.nodes), SiteIssues(campus),
         Raise(~(used \subseteq Ids(campus.sites)), "reference.fabric_site"),
         ZoneIssues(campus, networks)}

-----------------------------------------------------------------------------
(* What both checks are for.                                                *)

\* The nodes that a node names as its parent, of those that there are.
Under(nodes, id) == {n.parent : n \in {m \in ToSet(nodes) : m.id = id}} \cap Ids(nodes)

\* Each node that a node lies in, however indirectly.
Above(nodes, id) ==
  {a \in Ids(nodes) :
     \A S \in SUBSET Ids(nodes) :
       Under(nodes, id) \subseteq S /\ (\A x \in S : Under(nodes, x) \subseteq S) => a \in S}

\* The nodes form a tree under one global node, in which every node is of a
\* type its parent may hold and no node is deeper than the limit; the nodes
\* above a node are counted, nothing is walked or remembered.
IsHierarchy(nodes, limit) ==
  LET ids == Ids(nodes)
      set == ToSet(nodes)
  IN
  /\ ~Repeated(Column(nodes))
  /\ \E root \in set :
       /\ root.type = "global" /\ root.parent = None
       /\ \A n \in set \ {root} :
            /\ n.type # "global"
            /\ n.parent \in ids
            /\ n.type \in AllowedChildren[Entry(nodes, n.parent).type]
            /\ root.id \in Above(nodes, n.id)
            /\ Cardinality(Above(nodes, n.id)) <= limit

\* Every zone lies at the node that its site is attached to, or in it.
ZonesInside(campus) ==
  \A z \in ToSet(campus.zones) :
    LET node == Entry(campus.sites, z.site).node
    IN z.node = node \/ node \in Above(campus.nodes, z.node)
=============================================================================
