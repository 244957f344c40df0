-------------------------- MODULE IntentValidation --------------------------
(***************************************************************************)
(* validate_intent (src/orchestrator/intent.py): the issues of severity    *)
(* error that a fabric intent has.  It knows nothing of the requirements   *)
(* the intent was derived from; an intent may also be submitted as it is.  *)
(*                                                                         *)
(* An issue is the code it is raised with; a duplicate is told apart by    *)
(* what there are two of.  An intent is a record of the fields of          *)
(* DeriveIntent: that a field is there, of its type, in its format and     *)
(* within its range is left out, as are the rules of multicast, of schema  *)
(* 1.0 and of fields that derivation fills in by itself, such as the route *)
(* distinguisher and the name of an SGACL.                                 *)
(***************************************************************************)
EXTENDS DesignDerivation


HasRole(int, d, role) == \E x \in ToSet(int.devices) : x.id = d /\ role \in x.roles
BordersOf(int) == {d.id : d \in {x \in ToSet(int.devices) : "border" \in x.roles}}
VrfsOf(int)    == {n.vrf : n \in ToSet(int.networks)}
SiteOf(int, d) == int.devices[SelectLastInSeq(int.devices, LAMBDA x : x.id = d)].site

Count(int, role) == Cardinality({i \in DOMAIN int.devices : role \in int.devices[i].roles})

\* _check_duplicate passes over what is not there.
GivenTwice(list) ==
  \E i, j \in DOMAIN list : i # j /\ list[i] # None /\ list[i] = list[j]

-----------------------------------------------------------------------------
DeviceIssues(int) ==
  LET nodes == int.devices \o int.fusion IN
  UNION {
    Raise(Repeated(Column(int.devices)), "duplicate device id"),
    Raise(\/ Repeated(Column(int.fusion))
          \/ Ids(int.devices) \cap Ids(int.fusion) # {}, "duplicate fusion node id"),
    Raise(Repeated([i \in DOMAIN nodes |-> nodes[i].hostname]), "duplicate hostname"),
    Raise(Repeated([i \in DOMAIN nodes |-> nodes[i].mgmt]), "duplicate management IP"),
    Raise(GivenTwice([i \in DOMAIN nodes |-> nodes[i].dashboard]),
          "duplicate Dashboard management IP"),
    Raise(Repeated([i \in DOMAIN int.devices |-> int.devices[i].loopback]),
          "duplicate loopback IP"),
    Raise(int.schema = "1.2" /\ int.env = "production" /\ Len(int.fusion) < 2,
          "ha.fusion"),
    Raise(Count(int, "fabric_edge") = 0, "roles.fabric_edge.required"),
    Raise(Count(int, "control_plane") = 0, "roles.control_plane.required"),
    Raise(Count(int, "border") = 0, "roles.border.required"),
    Raise(int.env = "production" /\ Count(int, "control_plane") < 2, "ha.control_plane"),
    Raise(int.env = "production" /\ Count(int, "border") < 2, "ha.border")}

LinkIssues(int) ==
  UNION {
    Raise(Repeated(Column(int.links)), "duplicate link id"),
    Raise(\E l \in ToSet(int.links) : Len(l.ends) # 2, "link.endpoints.count"),
    Raise(\E l \in ToSet(int.links) : \E e \in ToSet(l.ends) :
            e.device \notin Ids(int.devices), "reference.device"),
    Raise(\E l \in ToSet(int.links) :
            Len(l.ends) = 2 /\ l.ends[1].device = l.ends[2].device, "link.self"),
    Raise(\E l \in ToSet(int.links) :
            Repeated([i \in DOMAIN l.ends |-> l.ends[i].ip]),
          "duplicate link endpoint IP")}

NetworkIssues(int) ==
  UNION {
    Raise(Repeated(Column(int.networks)), "duplicate virtual-network name"),
    Raise(Repeated([i \in DOMAIN int.networks |-> int.networks[i].vrf]),
          "duplicate VRF name"),
    Raise(Repeated([i \in DOMAIN int.networks |-> int.networks[i].l3]),
          "duplicate L3 instance id")}

\* VLANs that switches keep for FDDI and Token Ring.
LegacyVlans == 1002..1005

PoolIssues(int) ==
  LET pools == int.pools IN
  UNION {
    Raise(pools = <<>>, "endpoint_pools.empty"),
    Raise(Repeated(Column(pools)), "duplicate endpoint-pool id"),
    Raise(\E p \in ToSet(pools) : p.site \notin Ids(int.campus.sites),
          "reference.fabric_site"),
    Raise(\E p \in ToSet(pools) : p.network \notin Ids(int.networks),
          "reference.virtual_network"),
    Raise(\E p \in ToSet(pools) : p.vlan \in LegacyVlans, "vlan.reserved"),
    Raise(Repeated([i \in DOMAIN pools |-> <<pools[i].site, pools[i].vlan>>]),
          "duplicate VLAN in site"),
    Raise(\E p \in ToSet(pools) : p.server # None /\ ~HasRole(int, p.server, "border"),
          "dhcp.server.role")}

\* pool_context: of pools with one identifier the last one counts.
AttachmentIssues(int) ==
  LET list  == int.attachments
      ends  == UNION {{<<e.device, e.interface>> : e \in ToSet(l.ends)} :
                        l \in ToSet(int.links)}
      known == {a \in ToSet(list) : a.pool \in Ids(int.pools)}
      PoolNamed(id) == int.pools[SelectLastInSeq(int.pools, LAMBDA p : p.id = id)]
  IN
  UNION {
    Raise(Repeated(Column(list)), "duplicate endpoint attachment id"),
    Raise(Repeated([i \in DOMAIN list |-> <<list[i].device, list[i].interface>>]),
          "duplicate endpoint attachment interface"),
    Raise(\E a \in ToSet(list) : ~HasRole(int, a.device, "fabric_edge"),
          "attachment.device.role"),
    Raise(\E a \in ToSet(list) :
            a.device \notin Ids(int.devices) \/ SiteOf(int, a.device) # a.site,
          "attachment.site"),
    Raise(\E a \in ToSet(list) : <<a.device, a.interface>> \in ends,
          "attachment.interface.fabric_link"),
    Raise(known # ToSet(list), "reference.endpoint_pool"),
    Raise(\E a \in known : PoolNamed(a.pool).site # a.site, "attachment.pool.site"),
    Raise(\E a \in known : PoolNamed(a.pool).network # a.network,
          "attachment.pool.virtual_network"),
    Raise(\E a \in known : PoolNamed(a.pool).vlan # a.vlan, "attachment.pool.vlan")}

-----------------------------------------------------------------------------
HandoffIssues(int) ==
  LET peers == int.peers IN
  UNION {
    Raise(peers = <<>>, "bgp.peers.empty"),
    Raise(\E p \in ToSet(peers) : p.border \notin Ids(int.devices), "reference.device"),
    Raise(\E p \in ToSet(peers) :
            p.border \in Ids(int.devices) /\ ~HasRole(int, p.border, "border"),
          "bgp.peer.not_border"),
    Raise(\E p \in ToSet(peers) : p.vrf \notin VrfsOf(int), "reference.vrf"),
    Raise(Repeated([i \in DOMAIN peers |-> <<peers[i].border, peers[i].vrf,
                                             peers[i].neighborIp>>]),
          "duplicate BGP peer"),
    Raise(Repeated([i \in DOMAIN peers |-> <<peers[i].border, peers[i].vlan>>]),
          "duplicate handoff VLAN on device"),
    Raise(\E b \in BordersOf(int) : \A p \in ToSet(peers) : p.border # b,
          "bgp.border_without_peer")}

\* Schema 1.2: the fusion nodes the peers are at.
FusionPeerIssues(int) ==
  LET peers == int.peers
      over(b, v) == {p.fusion : p \in {x \in ToSet(peers) : x.border = b /\ x.vrf = v}}
      pairs == BordersOf(int) \X VrfsOf(int)
  IN
  UNION {
    Raise(\E p \in ToSet(peers) : p.fusion \notin Ids(int.fusion),
          "reference.fusion_node"),
    Raise(\E p \in ToSet(peers), f \in ToSet(int.fusion) :
            p.fusion = f.id /\ p.asn # f.asn, "bgp.remote_as.mismatch"),
    Raise(\E f \in Ids(int.fusion) : \A p \in ToSet(peers) : p.fusion # f,
          "bgp.fusion_without_peer"),
    Raise(\E q \in pairs : over(q[1], q[2]) = {}, "bgp.border_vrf_without_peer"),
    Raise(/\ int.env = "production"
          /\ \E q \in pairs : Cardinality(over(q[1], q[2])) = 1,
          "bgp.border_vrf.insufficient_fusion_redundancy")}

ServiceIssues(int) ==
  LET shared == int.services
      fusion == [i \in DOMAIN shared.attachments |-> shared.attachments[i].fusion]
  IN
  UNION {
    Raise(shared.vrf \notin VrfsOf(int), "reference.shared_services_vrf"),
    Raise(Repeated(Column(shared.attachments)), "duplicate shared-service attachment id"),
    Raise(~(ToSet(fusion) \subseteq Ids(int.fusion)), "reference.fusion_node"),
    Raise(Repeated(fusion), "duplicate fusion shared-service attachment"),
    Raise(int.env = "production" /\ ~(Ids(int.fusion) \subseteq ToSet(fusion)),
          "shared_service.attachment.missing"),
    Raise(Repeated(Column(shared.services)), "duplicate shared service id"),
    Raise(\E s \in ToSet(shared.services), p \in ToSet(int.pools) : p.prefix \in s.prefixes,
          "shared_service.prefix.overlap"),
    Raise(\E s \in ToSet(shared.services) : \E a \in s.addresses :
            <<a[1], a[2]>> \notin s.prefixes, "shared_service.address.outside_prefix"),
    Raise(\E s \in ToSet(shared.services) : ~(s.consumers \subseteq Ids(int.networks)),
          "reference.virtual_network")}

-----------------------------------------------------------------------------
PlaneIssues(int) ==
  LET policy == int.policy
      edges  == {d.id : d \in {x \in ToSet(int.devices) : "fabric_edge" \in x.roles}}
  IN
  UNION {
    Raise(policy.mode # "none" /\ policy.enforcers # edges, "policy.enforcement.devices"),
    Raise(policy.mode # "none" /\ policy.vlans # {p.vlan : p \in ToSet(int.pools)},
          "policy.enforcement.vlans"),
    Raise(policy.mode \in {"ise", "hybrid"} /\ policy.ise = None, "policy.ise.required"),
    Raise(policy.mode \in {"sxp", "hybrid"} /\ int.sxp = None, "policy.sxp.required"),
    Raise(policy.mode \notin {"ise", "hybrid"} /\ policy.ise # None,
          "policy.ise.unexpected"),
    Raise(policy.mode \notin {"sxp", "hybrid"} /\ int.sxp # None,
          "policy.sxp.unexpected")}

GroupIssues(int) ==
  LET groups == int.policy.groups
      list   == int.policy.contracts
      TagOf(g) == IF g \in Ids(groups)
                  THEN groups[SelectLastInSeq(groups, LAMBDA x : x.id = g)].tag ELSE None
  IN
  UNION {
    Raise(Repeated(Column(groups)), "duplicate security group name"),
    Raise(Repeated([i \in DOMAIN groups |-> groups[i].tag]),
          "duplicate security group tag"),
    Raise(\E c \in ToSet(list) : ~({c.from, c.to} \subseteq Ids(groups)),
          "reference.security_group"),
    Raise(Repeated([i \in DOMAIN list |-> <<list[i].from, list[i].to, list[i].protocol>>]),
          "duplicate policy contract"),
    Raise(\E c \in ToSet(list) : c.fromTag # TagOf(c.from), "policy.contract.source_tag"),
    Raise(\E c \in ToSet(list) : c.toTag # TagOf(c.to),
          "policy.contract.destination_tag"),
    Raise(\E c \in ToSet(list) : c.action = "deny" /\ c.protocol # "ip",
          "policy.contract.deny_scope")}

IseIssues(int) ==
  LET nodes == int.policy.ise.nodes
      pans  == {n.id : n \in Pans(int.policy.ise)}
  IN
  UNION {
    Raise(Repeated(Column(nodes)), "duplicate ISE node ID"),
    Raise(Repeated([i \in DOMAIN nodes |-> nodes[i].address]),
          "duplicate ISE node address"),
    Raise(int.policy.ise.writer \notin pans, "policy.ise.write_node"),
    Raise(int.env = "production" /\ Cardinality(pans) < 2, "ha.ise_pan")}

\* Where a connection may come from.
ExpectedSources(int, c) ==
  IF c.vrf = "global"
  THEN {d.loopback : d \in {x \in ToSet(int.devices) : x.id = c.speaker}}
  ELSE IF int.peers = None THEN {}
  ELSE {p.localIp : p \in {x \in ToSet(int.peers) : x.border = c.speaker /\ x.vrf = c.vrf}}

SxpIssues(int) ==
  LET list    == int.sxp
      withIse == int.policy.mode \in {"ise", "hybrid"}
      prefixes == UNION {s.prefixes : s \in {x \in ToSet(int.services.services) :
                                               x.type = "ise"}}
  IN
  UNION {
    Raise(\E c \in ToSet(list) : c.speaker \notin Ids(int.devices),
          "reference.sxp_speaker"),
    Raise(\E c \in ToSet(list) :
            /\ c.speaker \in Ids(int.devices)
            /\ ~HasRole(int, c.speaker, "border")
            /\ ~HasRole(int, c.speaker, "fabric_edge"), "policy.sxp.speaker_role"),
    Raise(\E c \in ToSet(list) : c.vrf \notin VrfsOf(int) \cup {"global"},
          "reference.sxp_transport_vrf"),
    Raise(\E c \in ToSet(list) : c.source \notin ExpectedSources(int, c),
          "policy.sxp.source_ip"),
    Raise(\E c \in ToSet(list) : <<c.listener[1], c.listener[2]>> # c.prefix,
          "policy.sxp.listener_prefix"),
    Raise(withIse /\ \E c \in ToSet(list) : c.prefix \notin prefixes,
          "policy.sxp.listener_service_prefix"),
    Raise(withIse /\ \E c \in ToSet(list) : c.vrf # int.services.vrf,
          "policy.sxp.transport_vrf"),
    Raise(/\ withIse /\ int.policy.ise # None
          /\ \E c \in ToSet(list) :
               c.listener \notin {n.address : n \in ToSet(int.policy.ise.nodes)},
          "reference.sxp_listener"),
    Raise(\E c, x \in ToSet(list) : c.speaker = x.speaker /\ c.password # x.password,
          "policy.sxp.password_scope"),
    Raise(\E c, x \in ToSet(list) : c.speaker = x.speaker /\ c.vrf # x.vrf,
          "policy.sxp.transport_scope"),
    Raise(Repeated([i \in DOMAIN list |-> <<list[i].speaker, list[i].listener, list[i].vrf>>]),
          "duplicate SXP connection"),
    Raise(int.env = "production" /\ Cardinality({c.speaker : c \in ToSet(list)}) < 2,
          "ha.sxp_speakers"),
    Raise(int.env = "production" /\ Cardinality({c.listener : c \in ToSet(list)}) < 2,
          "ha.sxp_listeners")}

-----------------------------------------------------------------------------
LispIssues(int) ==
  UNION {
    Raise(int.lisp.servers = {}, "lisp.map_servers.empty"),
    Raise(~(int.lisp.servers \subseteq Ids(int.devices)), "reference.map_server")}

\* The borders among the subscribers of a site with two of them or more.
ExpectedGroups(int) ==
  LET borders(site) == {b \in BordersOf(int) \cap int.lisp.subscribers :
                          SiteOf(int, b) = site}
  IN {<<site, borders(site)>> : site \in {d.site : d \in
        {x \in ToSet(int.devices) : Cardinality(borders(x.site)) >= 2}}}

PubsubIssues(int) ==
  LET lisp   == int.lisp
      groups == {<<g.site, g.borders>> : g \in ToSet(lisp.groups)}
      sites  == {g[1] : g \in ExpectedGroups(int)}
  IN
  UNION {
    Raise(lisp.publishers # lisp.servers, "lisp.pubsub.publishers"),
    Raise(\E d \in lisp.publishers : ~HasRole(int, d, "control_plane"),
          "lisp.publisher.not_control_plane"),
    Raise(\E d \in lisp.subscribers : ~HasRole(int, d, "border"),
          "lisp.subscriber.not_border"),
    Raise(lisp.subscribers # BordersOf(int), "lisp.pubsub.subscribers"),
    Raise(Repeated([i \in DOMAIN lisp.groups |-> lisp.groups[i].site]),
          "duplicate LISP multihoming site"),
    Raise(Repeated([i \in DOMAIN lisp.groups |-> lisp.groups[i].number]),
          "duplicate LISP multihoming id"),
    Raise(\E g \in ToSet(lisp.groups) : \E b \in g.borders : ~HasRole(int, b, "border"),
          "lisp.multihoming.member.not_border"),
    Raise(\E g \in ToSet(lisp.groups) : \E b \in g.borders :
            HasRole(int, b, "border") /\ SiteOf(int, b) # g.site,
          "lisp.multihoming.member.wrong_site"),
    Raise(\E s \in sites : \A g \in ToSet(lisp.groups) : g.site # s,
          "lisp.multihoming.group.missing"),
    Raise(\E g \in groups : g[1] \in sites /\ g \notin ExpectedGroups(int),
          "lisp.multihoming.group.membership"),
    Raise(\E g \in groups : g[1] \notin sites, "lisp.multihoming.group.unexpected")}

\* Every prefix of the fabric, to be compared with every other.
AddressPlan(int) ==
  LET of(list) == [i \in DOMAIN list |-> list[i].prefix] IN
  [i \in DOMAIN int.devices |-> int.devices[i].loopback]
    \o [i \in DOMAIN int.links |-> int.links[i].subnet] \o of(int.pools)
    \o (IF int.peers = None THEN <<>> ELSE of(int.peers))
    \o (IF int.services = None THEN <<>> ELSE of(int.services.attachments))

Issues(int) ==
  LET used == {d.site : d \in ToSet(int.devices)} IN
  UNION {
    CampusIssues(int.campus, used, Ids(int.networks)),
    DeviceIssues(int), LinkIssues(int), NetworkIssues(int), PoolIssues(int),
    AttachmentIssues(int), LispIssues(int),
    IF Pubsub(int) THEN PubsubIssues(int) ELSE {},
    IF int.peers = None
    THEN Raise(int.env = "production", "bgp.handoff.required")
    ELSE HandoffIssues(int) \cup (IF int.schema = "1.2" THEN FusionPeerIssues(int) ELSE {}),
    Raise(Repeated(AddressPlan(int)), "address.overlap"),
    IF int.schema # "1.2" THEN {}
    ELSE UNION {ServiceIssues(int), PlaneIssues(int), GroupIssues(int),
                IF int.policy.ise = None THEN {} ELSE IseIssues(int),
                IF int.sxp = None THEN {} ELSE SxpIssues(int)}}

-----------------------------------------------------------------------------
(* What derivation leaves to validation: the defects of requirements that   *)
(* only validate_intent notices, when the design is reserved already.       *)

\* Names, addresses and identifiers nobody compares before.
Ambiguous(req) ==
  LET names == [i \in DOMAIN req.devices |-> Upper[NameOf(req.devices[i])]]
                 \o [i \in DOMAIN req.fusion |-> Upper[req.fusion[i].name]]
      addresses == [i \in DOMAIN req.devices |-> req.devices[i].mgmt]
                     \o [i \in DOMAIN req.fusion |-> req.fusion[i].mgmt]
      dashboards == [i \in DOMAIN req.devices |-> req.devices[i].dashboard]
                      \o [i \in DOMAIN req.fusion |-> req.fusion[i].dashboard]
      places == NetworkSites(req)
  IN
  \/ Repeated(names) \/ Repeated(addresses) \/ GivenTwice(dashboards)
  \/ Repeated(Column(req.links)) \/ Repeated(Column(req.networks))
  \/ Repeated([i \in DOMAIN req.networks |-> req.networks[i].vrf])
  \/ Repeated([i \in DOMAIN places |-> Words[places[i].site] \o Words[places[i].network]])

\* A fabric that cannot forward: a role nobody has, a link that leads nowhere,
\* a VLAN no switch takes.
Unfit(req) ==
  \/ WithRole(req.devices, "fabric_edge") = {} \/ WithRole(req.devices, "border") = {}
  \/ \E l \in ToSet(req.links) : l.ends[1][1] = l.ends[2][1]
  \/ \E i \in DOMAIN NetworkSites(req) : FirstFit(VlanFree, i) \in LegacyVlans

\* No handoff in production, or one that leaves a border, one of its VRFs or a
\* fusion node alone.
Unconnected(req) ==
  LET met == {<<p.border, p.vrf>> : p \in ToSet(Peerings(req))} IN
  IF ~req.handoff.bgp THEN Production(req)
  ELSE \/ ~(WithRole(req.devices, "border") \X Vrfs(req) \subseteq met)
       \/ /\ req.schema = "1.2"
          /\ ~(Ids(req.fusion) \subseteq {p.fusion : p \in ToSet(Peerings(req))})

\* What validation wants two of in production, whatever the guardrails are
\* content with: borders, control planes and fusion nodes,
FewNodes(req) ==
  \/ Cardinality(WithRole(req.devices, "border")) < 2
  \/ Cardinality(WithRole(req.devices, "control_plane")) < 2
  \/ req.schema = "1.2" /\ Len(req.fusion) < 2

\* fusion nodes behind a border in a VRF,
LonePaths(req) ==
  LET over(b, v) == {p.fusion : p \in {x \in ToSet(Peerings(req)) :
                                          x.border = b /\ x.vrf = v}}
  IN
  /\ req.schema = "1.2" /\ req.handoff.bgp
  /\ \E b \in WithRole(req.devices, "border"), v \in Vrfs(req) :
       Cardinality(over(b, v)) = 1

\* SXP speakers and listeners.
FewConnections(req) ==
  LET sxp == IF req.policy = None THEN None ELSE req.policy.sxp IN
  /\ sxp # None
  /\ \/ Cardinality({c.speaker : c \in ToSet(sxp)}) < 2
     \/ Cardinality({c.listener : c \in ToSet(sxp)}) < 2

Thin(req) ==
  Production(req) /\ (FewNodes(req) \/ LonePaths(req) \/ FewConnections(req))

Defective(req) == Ambiguous(req) \/ Unfit(req) \/ Unconnected(req) \/ Thin(req)
=============================================================================
