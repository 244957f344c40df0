-------------------------- MODULE MulticastDesign --------------------------
(***************************************************************************)
(* What a fabric intent means for multicast: when it is valid              *)
(* (src/orchestrator/intent.py), the state it owns on every node           *)
(* (reconciliation.py), and the configuration and gates of its artifact    *)
(* (renderer.py, gates.py, planner.py).                                    *)
(*                                                                         *)
(* Data abstraction.  A running configuration is a set of lines; a line is *)
(* a text in a section.  A virtual network stands for its name, VRF and L3 *)
(* instance, an endpoint pool for its identifier, VLAN and L2 instance, a  *)
(* node for its Loopback0.  Of the unicast configuration only the lines    *)
(* that share a section with multicast are kept.  The system-wide PIM      *)
(* lines, which no manifest owns, are left out.                            *)
(***************************************************************************)
EXTENDS SequencesExt


CONSTANTS
  Devices,      \* fabric devices
  FusionNodes,
  NodeOrder,    \* devices and fusion nodes, sorted by identifier
  Roles,        \* roles of a device: "border", "fabric_edge"
  NetworkOf,    \* the virtual network of an endpoint pool
  None

Nodes == Devices \cup FusionNodes

ASSUME NodeAssumption ==
  /\ NodeOrder \in Seq(Nodes)
  /\ \A d \in Nodes : \E n \in 1..Len(NodeOrder) : NodeOrder[n] = d

-----------------------------------------------------------------------------
(* Lines and sections.                                                      *)
Global         == <<"global">>
Loopback(n)    == <<"loopback", n>>
LispPort(vn)   == <<"lisp_interface", vn>>
Vlan(n)        == <<"vlan", n>>
Acl(a)         == <<"acl", a>>
Lisp(n)        == <<"lisp", n>>

Line(sec, text) == [sec |-> sec, text |-> text]
Header(sec)     == Line(sec, <<"header">>)

\* A block of commands: sections negated as a whole, lines negated one by
\* one, lines entered.
Block(drop, minus, add) == [drop |-> drop, minus |-> minus, add |-> add]
Enter(add)              == Block({}, {}, add)

Effect(block, lines) ==
  {l \in lines : l.sec \notin block.drop /\ l \notin block.minus} \cup block.add

-----------------------------------------------------------------------------
(* Intents.                                                                 *)
(*   devices, fusion     nodes of the fabric                                *)
(*   enabled, transport  "native" or "head_end"                             *)
(*   rpMode, rps, rpAddress   "anycast", "static" or "none"                 *)
(*   policies            for each multicast network its mode ("asm", "ssm"),*)
(*                       access list, group range, RP, core groups, and the *)
(*                       segment address of each device                     *)
(*   pools, bum          endpoint pools and their broadcast groups          *)
(*   peers               handoffs: border, fusion node, network, VLAN       *)

HasRole(i, role) == {d \in i.devices : role \in Roles[d]}
Borders(i) == HasRole(i, "border")
Edges(i)   == HasRole(i, "fabric_edge")
Native(i)  == i.enabled /\ i.transport = "native"
Networks(i) == DOMAIN i.policies
Segments(i, vn) == DOMAIN i.policies[vn].segment
PoolsOf(i, vn) == {p \in i.pools : NetworkOf[p] = vn}
PeersOf(i, vn) == {p \in i.peers : p.vn = vn}
FusionOf(i, vn) == {p.fusion : p \in PeersOf(i, vn)}

ValidRp(i) ==
  /\ i.rps \subseteq Borders(i)
  /\ i.enabled /\ i.rpMode \in {"anycast", "static"} => i.rpAddress # None
  /\ i.enabled /\ i.rpMode = "anycast" => Cardinality(i.rps) >= 2
  /\ (\E vn \in Networks(i) : i.policies[vn].mode = "asm") => i.rpMode # "none"

\* A network has one policy, with an RP exactly in ASM, and an access list of
\* its own.
ValidModes(i) ==
  /\ ~i.enabled => Networks(i) = {}
  /\ \A vn \in Networks(i) :
       i.policies[vn].mode = "asm" <=> i.policies[vn].rp # None
  /\ \A vn, wn \in Networks(i) :
       i.policies[vn].acl = i.policies[wn].acl => vn = wn

\* One segment address on every border and edge, and none twice.
ValidSegments(i) ==
  /\ \A vn \in Networks(i) : Segments(i, vn) = Borders(i) \cup Edges(i)
  /\ \A vn, wn \in Networks(i) : \A d \in Segments(i, vn), e \in Segments(i, wn) :
       i.policies[vn].segment[d] = i.policies[wn].segment[e] => <<vn, d>> = <<wn, e>>

\* Core groups exactly in native transport, and apart from each other.
ValidCoreGroups(i) ==
  \A vn, wn \in Networks(i) :
    IF i.transport = "native"
    THEN /\ i.policies[vn].core # None
         /\ i.policies[vn].core = i.policies[wn].core => vn = wn
    ELSE i.policies[vn].core = None

\* Fault: two pools may flood to one group.
ValidBumShared(i) == DOMAIN i.bum = IF Native(i) THEN i.pools ELSE {}

ValidBum(i) ==
  /\ DOMAIN i.bum = IF Native(i) THEN i.pools ELSE {}
  /\ IsInjective(i.bum)

ValidPeers(i) ==
  /\ \A p \in i.peers : p.device \in Borders(i) /\ p.fusion \in i.fusion
  /\ \A d \in Borders(i) : \E p \in i.peers : p.device = d
  /\ \A p, q \in i.peers :
       p.device = q.device /\ p.vlan = q.vlan => p = q

ValidIntent(i) ==
  /\ ValidRp(i) /\ ValidModes(i) /\ ValidSegments(i) /\ ValidCoreGroups(i)
  /\ ValidBum(i) /\ ValidPeers(i)

-----------------------------------------------------------------------------
(* Owned state.  A resource is known by its key; order ranks removals.      *)

\* A section removed as a whole.  The absence gate of an interface looks for
\* its header, that of an access list for every line.
WholeSection(key, order, sec, texts) ==
  [key |-> key, order |-> order,
   lines |-> {Header(sec)} \cup {Line(sec, t) : t \in texts},
   remove |-> Block({sec}, {}, {}),
   forbidden |-> {Header(sec)}
                   \cup IF sec[1] = "acl" THEN {Line(sec, t) : t \in texts} ELSE {}]

ExactLines(key, order, lines) ==
  [key |-> key, order |-> order, lines |-> lines,
   remove |-> Block({}, lines, {}), forbidden |-> lines]

RpResources(i, d) ==
  LET peers == i.rps \ {d} IN
  IF d \notin i.rps \/ i.rpAddress = None THEN {}
  ELSE {WholeSection(<<"rp_loopback">>, 200, Loopback("rp"),
                     {<<"address", i.rpAddress>>})}
       \cup IF i.rpMode # "anycast" \/ peers = {} THEN {}
            ELSE {ExactLines(<<"msdp_peer", p>>, 300,
                             {Line(Global, <<"msdp", "peer", p>>)}) : p \in peers}
                 \cup {ExactLines(<<"msdp", x>>, 250, {Line(Global, <<"msdp", x>>)}) :
                         x \in {"cache", "originator"}}

PolicyLines(i, d, vn) ==
  LET policy == i.policies[vn] IN
  {Line(Global, t) : t \in
     IF policy.mode = "ssm" THEN {<<"ssm range", vn, policy.acl>>}
     ELSE {<<"rp-address", vn, policy.rp, policy.acl>>}
          \cup IF d \in Segments(i, vn) THEN {<<"register-source", vn>>} ELSE {}}

\* Fault: the access list is removed before the policy that names it.
PolicyResourcesSwapped(i, d, vn) ==
  {ExactLines(<<"routing", vn>>, 400, {Line(Global, <<"routing", vn>>)}),
   WholeSection(<<"acl", vn>>, 600, Acl(i.policies[vn].acl),
                {<<"permit", i.policies[vn].group>>}),
   ExactLines(<<"policy", vn>>, 500, PolicyLines(i, d, vn))}

\* Routing, access list and policy of a network, on devices and fusion nodes.
PolicyResources(i, d, vn) ==
  {ExactLines(<<"routing", vn>>, 400, {Line(Global, <<"routing", vn>>)}),
   WholeSection(<<"acl", vn>>, 500, Acl(i.policies[vn].acl),
                {<<"permit", i.policies[vn].group>>}),
   ExactLines(<<"policy", vn>>, 600, PolicyLines(i, d, vn))}

SegmentResources(i, d, vn) ==
  LET policy == i.policies[vn] IN
  {WholeSection(<<"segment_loopback", vn>>, 700, Loopback(vn),
                {<<"address", policy.segment[d]>>}),
   WholeSection(<<"lisp_interface", vn>>, 750, LispPort(vn),
                {<<"transport">>, <<"core", policy.core>>}),
   ExactLines(<<"lisp_mapping", vn>>, 800,
              {Line(Lisp(vn), <<"mapping", policy.segment[d]>>)})}

SviLines(pool) ==
  {Line(Vlan(pool), <<t>>) : t \in {"pim passive", "igmp version", "igmp tracking"}}

\* Fault: the whole gateway interface is removed with its multicast lines.
SviResourcesWhole(i, d, vn) ==
  IF d \notin Edges(i) THEN {}
  ELSE {[ExactLines(<<"edge_svi", p>>, 900, SviLines(p)) EXCEPT
           !.remove = Block({Vlan(p)}, {}, {})] : p \in PoolsOf(i, vn)}

SviResources(i, d, vn) ==
  IF d \notin Edges(i) THEN {}
  ELSE {ExactLines(<<"edge_svi", p>>, 900, SviLines(p)) : p \in PoolsOf(i, vn)}

SparseMode(vlan) == Line(Vlan(vlan), <<"sparse-mode">>)

HandoffResources(i, d, vn) ==
  {ExactLines(<<"border_handoff", vn, p.vlan>>, 900, {SparseMode(p.vlan)}) :
     p \in {q \in PeersOf(i, vn) : q.device = d}}
  \cup
  {ExactLines(<<"fusion_handoff", vn, p.vlan>>, 900, {SparseMode(p.vlan)}) :
     p \in {q \in PeersOf(i, vn) : q.fusion = d}}

BumResources(i, d) ==
  IF d \notin Edges(i) THEN {}
  ELSE {ExactLines(<<"bum", p>>, 850, {Line(Lisp(p), <<"underlay", i.bum[p]>>)}) :
          p \in DOMAIN i.bum}

\* build_multicast_owned_state raises ReconciliationError when two peers of a
\* fusion node give one key.
NoDuplicateKeys(i) ==
  Native(i) => \A vn \in Networks(i) : \A p, q \in PeersOf(i, vn) :
                 p.fusion = q.fusion /\ p.vlan = q.vlan => p = q

\* The resources an intent owns on a node.
OwnedState(i, d) ==
  IF ~Native(i) THEN {}
  ELSE RpResources(i, d) \cup BumResources(i, d)
       \cup (UNION {PolicyResources(i, d, vn) :
                      vn \in {v \in Networks(i) :
                                d \in Segments(i, v) \cup FusionOf(i, v)}})
       \cup (UNION {SegmentResources(i, d, vn) \cup SviResources(i, d, vn) :
                      vn \in {v \in Networks(i) : d \in Segments(i, v)}})
       \cup (UNION {HandoffResources(i, d, vn) : vn \in Networks(i)})

\* validate_owned_state: a key names one resource of a node, and each resource
\* has lines, something to negate and something to prove absent.  Hashes and
\* the syntax of commands are left out.
ValidResource(r) ==
  r.lines # {} /\ r.forbidden # {} /\ r.remove.drop \cup r.remove.minus # {}

ValidManifest(i) ==
  \A d \in Nodes : \A r \in OwnedState(i, d) :
    /\ ValidResource(r)
    /\ \A s \in OwnedState(i, d) : s.key = r.key => s = r

OwnedLines(i, d) == UNION {r.lines : r \in OwnedState(i, d)}

-----------------------------------------------------------------------------
(* Reconciliation with the baseline of an earlier intent.                   *)

\* Fault: a resource whose key is still there is not stale.
StaleByKey(base, i, d) ==
  {r \in OwnedState(base, d) : \A s \in OwnedState(i, d) : s.key # r.key}

\* Not owned any more, or owned in another state: key and state_hash.
Stale(base, i, d) == OwnedState(base, d) \ OwnedState(i, d)

Ordered(S) == FoldSet(LAMBDA x, s : Append(s, x), <<>>, S)

RemoveOrders == <<900, 850, 800, 750, 700, 600, 500, 400, 300, 250, 200>>

Removals(base, i, d) ==
  FlattenSeq([n \in 1..Len(RemoveOrders) |->
    Ordered({r \in Stale(base, i, d) : r.order = RemoveOrders[n]})])

\* verify_config_lines_absent on the output of the gate's command: the
\* section of the resource, for LISP the whole of "router lisp".
Absent(r, lines) ==
  \A f \in r.forbidden, l \in lines :
    (f.sec[1] = "lisp" /\ l.sec[1] = "lisp") \/ f.sec = l.sec => l.text # f.text

Blockers(i, base) ==
  (IF base = None THEN {"baseline_missing"} ELSE {})
  \cup (IF base # None /\ \E d \in Nodes : Stale(base, i, d) # {}
        THEN {"reconciliation_pending"} ELSE {})
  \cup (IF Native(i) THEN {"native_pending"}
        ELSE IF i.enabled THEN {"head_end_pending"} ELSE {})

-----------------------------------------------------------------------------
(* Rendered blocks, in the order they are sent to a node in a phase.        *)

\* Also rendered, though not owned, when the transport is head-end.
UnderlayBlocks(i, d) ==
  LET peers == i.rps \ {d} IN
  IF ~i.enabled \/ d \notin i.rps \/ i.rpAddress = None THEN <<>>
  ELSE <<Enter({Header(Loopback("rp")),
                Line(Loopback("rp"), <<"address", i.rpAddress>>)})>>
       \o IF i.rpMode # "anycast" \/ peers = {} THEN <<>>
          ELSE <<Enter({Line(Global, <<"msdp", "peer", p>>) : p \in peers}
                   \cup {Line(Global, <<"msdp", x>>) : x \in {"cache", "originator"}})>>

EdgeOverlayBlocks(i, d) ==
  LET svi(p)  == Enter({Header(Vlan(p)), Line(Vlan(p), <<"gateway", NetworkOf[p]>>)})
      lisp(p) == Enter({Line(Lisp(p), <<"eid-table">>)}
                   \cup IF p \in DOMAIN i.bum
                        THEN {Line(Lisp(p), <<"underlay", i.bum[p]>>)} ELSE {})
      pools == Ordered(IF d \in Edges(i) THEN i.pools ELSE {})
  IN FlattenSeq([n \in 1..Len(pools) |-> <<svi(pools[n]), lisp(pools[n])>>])

UnicastHandoff(peers) ==
  LET at == Ordered(peers) IN
  [n \in 1..Len(at) |->
     Enter({Header(Vlan(at[n].vlan)), Line(Vlan(at[n].vlan), <<"vrf", at[n].vn>>)})]

BorderHandoffBlocks(i, d) == UnicastHandoff({p \in i.peers : p.device = d})
FusionHandoffBlocks(i, d) == UnicastHandoff({p \in i.peers : p.fusion = d})

\* The access list is made anew within the block.
PolicyBlock(i, d, vn) ==
  LET acl == Acl(i.policies[vn].acl) IN
  Block({acl}, {},
        {Line(Global, <<"routing", vn>>), Header(acl),
         Line(acl, <<"permit", i.policies[vn].group>>)} \cup PolicyLines(i, d, vn))

SegmentBlocks(i, d, vn) ==
  LET policy == i.policies[vn] IN
  <<Enter({Header(Loopback(vn)), Line(Loopback(vn), <<"address", policy.segment[d]>>)}),
    Enter({Header(LispPort(vn)), Line(LispPort(vn), <<"transport">>),
           Line(LispPort(vn), <<"core", policy.core>>)}),
    Enter({Line(Lisp(vn), <<"mapping", policy.segment[d]>>)})>>

SviBlocks(i, d, vn) ==
  LET pools == Ordered(IF d \in Edges(i) THEN PoolsOf(i, vn) ELSE {}) IN
  [n \in 1..Len(pools) |-> Enter(SviLines(pools[n]))]

SparseModeBlocks(peers) ==
  LET at == Ordered(peers) IN [n \in 1..Len(at) |-> Enter({SparseMode(at[n].vlan)})]

MulticastOverlayBlocks(i, d) ==
  LET vns == Ordered({v \in Networks(i) : d \in Segments(i, v)}) IN
  FlattenSeq([n \in 1..Len(vns) |->
    <<PolicyBlock(i, d, vns[n])>> \o SegmentBlocks(i, d, vns[n])
      \o SviBlocks(i, d, vns[n])
      \o SparseModeBlocks({p \in PeersOf(i, vns[n]) : p.device = d})])

FusionMulticastBlocks(i, d) ==
  LET vns == Ordered({v \in Networks(i) : d \in FusionOf(i, v)}) IN
  FlattenSeq([n \in 1..Len(vns) |->
    <<PolicyBlock(i, d, vns[n])>>
      \o SparseModeBlocks({p \in PeersOf(i, vns[n]) : p.fusion = d})])

MulticastBlocks(i, d) ==
  IF ~Native(i) THEN <<>>
  ELSE IF d \in i.devices THEN MulticastOverlayBlocks(i, d)
  ELSE IF d \in i.fusion THEN FusionMulticastBlocks(i, d) ELSE <<>>

\* exact_config_lines gates of the multicast phase; those on operational state
\* (PIM interfaces, RP route) are not told apart.
PolicyGates(i, d, vns) ==
  {PolicyLines(i, d, vn) \cup {Line(Global, <<"routing", vn>>)} : vn \in vns}
  \cup {{Header(Acl(i.policies[vn].acl)),
         Line(Acl(i.policies[vn].acl), <<"permit", i.policies[vn].group>>)} : vn \in vns}

DeviceGates(i, d) ==
  PolicyGates(i, d, {v \in Networks(i) : d \in Segments(i, v)})
  \cup {{Header(Vlan(p))} \cup SviLines(p) :
          p \in {q \in i.pools : d \in Edges(i) /\ NetworkOf[q] \in Networks(i)}}

FusionGates(i, d) ==
  PolicyGates(i, d, {v \in Networks(i) : d \in FusionOf(i, v)})

ConfigGates(i, d) ==
  IF ~Native(i) THEN <<>>
  ELSE Ordered(IF d \in i.devices THEN DeviceGates(i, d) ELSE FusionGates(i, d))
=============================================================================
