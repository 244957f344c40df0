-------------------------- MODULE DesignDerivation --------------------------
(***************************************************************************)
(* derive_fabric_intent (src/orchestrator/allocator.py): from requirements *)
(* to the intent of a fabric, or to an AllocationError.                    *)
(*                                                                         *)
(* Data abstraction.  Lists come in the order in which the code sorts them *)
(* and identifiers are numbers in that order.  A prefix is a pair of its   *)
(* pool and a number, so that two of them overlap when they are equal (the *)
(* pools of the guardrails are taken to be disjoint); an address is a      *)
(* prefix and the number of a host.  A VLAN is its number.  Formats and    *)
(* ranges of fields, such as the URL of an ISE node or the MTU, are left   *)
(* out, and so is schema 1.0.  What runs out and what an earlier           *)
(* reservation holds is the subject of AllocationLedger; multicast is the  *)
(* subject of MulticastDesign.                                             *)
(***************************************************************************)
EXTENDS SiteHierarchy, Integers

CONSTANTS
  VlanFree,       \* vlan_id: the VLANs that no reservation and no policy holds
  SharedVlanFree, \* the same for shared_service_vlan_id
  HandoffVlanFree,\* the same for handoff_vlan_id
  SgtFree,        \* the same for sgt
  GroupFree,      \* the same for lisp_multihoming_id
  Words,          \* Words[n]: the words of the name n, which dashes separate,
                  \* in lower case
  Upper,          \* Upper[n]: the name n in upper case
  Minimum,        \* redundancy.min_*_production, as the guardrails set them
  MeshRequired    \* fusion.require_full_mesh_production

-----------------------------------------------------------------------------
(* Requirements: a record of sections.                                      *)
(*   schema, env, mode   "1.1" or "1.2"; environment; control plane mode    *)
(*   campus              as in SiteHierarchy                                *)
(*   devices, fusion     [id, name, site, roles, mgmt, dashboard, approved],*)
(*                       [id, name, mgmt, dashboard, asn, approved];        *)
(*                       dashboard is dashboard_management_ip, or None, and *)
(*                       approved whether _platform_guardrail lets it pass  *)
(*   links               [id, ends]; an end is <<device, interface>>        *)
(*   networks            [id, vrf, sites], with sites [site, server], where *)
(*                       server None stands for external DHCP helpers       *)
(*   attachments         [id, device, interface, site, network]             *)
(*   services            [vrf, attachments, services], with [id, fusion],   *)
(*                       [id, type, prefixes, addresses, consumers]         *)
(*   policy              [mode, groups, contracts, ise, sxp], with          *)
(*                       [id, tag], [id, from, to, protocol, action],       *)
(*                       [nodes, writer] and [id, address, roles], and      *)
(*                       [id, speaker, listener, prefix, vrf, password]     *)
(*   handoff             [bgp, adjacencies, remoteAs, peers], with          *)
(*                       [border, fusion, networks] and [border, vrf]       *)
(*   domainId            lisp_domain_id, or None                            *)

Prefix  == STRING \X Nat
Address == STRING \X Nat \X Nat

DeviceRoles == {"border", "control_plane", "fabric_edge", "fusion", "underlay"}
DeviceRecord ==
  [id : Nat, name : Nat \cup {None}, site : Nat, roles : SUBSET DeviceRoles,
   mgmt : Nat, dashboard : Nat \cup {None}, approved : BOOLEAN]
FusionRecord ==
  [id : Nat, name : Nat, mgmt : Nat, dashboard : Nat \cup {None}, asn : Nat,
   approved : BOOLEAN]
LinkRecord == [id : Nat, ends : Seq(Nat \X Nat)]
NetworkRecord ==
  [id : Nat, vrf : STRING, sites : Seq([site : Nat, server : Nat \cup {None}]) \ {<<>>}]
AttachmentRecord == [id : Nat, device : Nat, interface : Nat, site : Nat, network : Nat]

ServiceRecord ==
  [id : Nat, type : STRING, prefixes : SUBSET Prefix, addresses : SUBSET Address,
   consumers : SUBSET Nat]
SharedRecord ==
  [vrf : STRING, attachments : Seq([id : Nat, fusion : Nat]), services : Seq(ServiceRecord)]

IseRecord ==
  [nodes : Seq([id : Nat, address : Address, roles : SUBSET {"pan", "psn", "pxgrid"}]),
   writer : Nat]
SxpRecord ==
  [id : Nat, speaker : Nat, listener : Address, prefix : Prefix, vrf : STRING,
   password : STRING]
PolicyRecord ==
  [mode : {"none", "ise", "sxp", "hybrid"},
   groups : Seq([id : Nat, tag : Nat \cup {None}]),
   contracts : Seq([from : Nat, to : Nat, protocol : STRING, action : {"permit", "deny"}]),
   ise : IseRecord \cup {None}, sxp : Seq(SxpRecord) \cup {None}]

HandoffRecord ==
  [bgp : BOOLEAN,
   adjacencies : Seq([border : Nat, fusion : Nat, networks : SUBSET Nat \cup {None}]),
   remoteAs : Nat \cup {None}, peers : Seq([border : Nat, vrf : STRING])]

\* What the schema lets through: there are networks, and fusion nodes, shared
\* services and a policy plane in schema 1.2 only.
Requirement ==
  {r \in [kind : {"requirements"}, schema : {"1.1", "1.2"}, env : STRING,
          mode : {"lisp_bgp", "lisp_pubsub"},
          campus : [model : {"single_site", "distributed_campus"},
                    nodes : Seq(NodeRecord), sites : Seq(SiteRecord),
                    zones : Seq(ZoneRecord)],
          devices : Seq(DeviceRecord), fusion : Seq(FusionRecord),
          links : Seq(LinkRecord), networks : Seq(NetworkRecord),
          attachments : Seq(AttachmentRecord), services : SharedRecord \cup {None},
          policy : PolicyRecord \cup {None}, handoff : HandoffRecord,
          domainId : STRING \cup {None}] :
     /\ r.networks # <<>>
     /\ r.fusion # <<>> => r.schema = "1.2"
     /\ r.schema = "1.2" <=> r.services # None
     /\ r.schema = "1.2" <=> r.policy # None}

\* What is derived of sections that may be missing, its prefixes out of these pools.
PrefixPools == {"loopbacks", "border_handoff", "shared_service_handoff"}
PeerRecord ==
  [border : Nat, fusion : Nat \cup {None}, vrf : STRING, asn : Nat \cup {None},
   vlan : Nat, prefix : PrefixPools \X Nat, localIp : PrefixPools \X Nat \X Nat,
   neighborIp : PrefixPools \X Nat \X Nat]
ConnectionRecord ==
  [speaker : Nat, listener : Address, prefix : Prefix, vrf : STRING, password : STRING,
   source : (PrefixPools \X Nat) \cup (PrefixPools \X Nat \X Nat)]
SharedDesign ==
  [vrf : STRING,
   attachments : Seq([id : Nat, fusion : Nat, vlan : Nat, prefix : PrefixPools \X Nat]),
   services : Seq(ServiceRecord)]

\* A missing section is told apart from every other.
ASSUME SectionAssumption ==
  None \notin Seq(PeerRecord) /\ None \notin Seq(ConnectionRecord) /\ None \notin SharedDesign

\* Numbers are free within a range.
ASSUME FreeAssumption ==
  \A free \in {VlanFree, SharedVlanFree, HandoffVlanFree, SgtFree, GroupFree} :
    free \subseteq Nat /\ IsFiniteSet(free)

\* A guardrail is any number: nothing checks the policy they are read from.
ASSUME GuardrailAssumption ==
  /\ Minimum \in [borders : Int, servers : Int, fusion : Int, ise : Int,
                  speakers : Int, listeners : Int, perVrf : Int]
  /\ MeshRequired \in BOOLEAN

WithRole(devices, role) == {d.id : d \in {x \in ToSet(devices) : role \in x.roles}}

Production(req) == req.env = "production"
Pubsub(req)     == req.schema = "1.2" /\ req.mode = "lisp_pubsub"

-----------------------------------------------------------------------------
(* Devices, fusion nodes and links.                                         *)

DevicesAccepted(req) ==
  /\ Len(req.devices) >= 2
  /\ ~Repeated(Column(req.devices))
  /\ \A d \in ToSet(req.devices) : d.approved

FusionAccepted(req) ==
  /\ ~Repeated(Column(req.fusion))
  /\ Ids(req.fusion) \cap Ids(req.devices) = {}
  /\ \A f \in ToSet(req.fusion) : f.approved

LinksAccepted(req) ==
  \A l \in ToSet(req.links) :
    Len(l.ends) = 2 /\ \A i \in DOMAIN l.ends : l.ends[i][1] \in Ids(req.devices)

\* A device that asks for no name is called by its identifier.
NameOf(d) == IF d.name = None THEN d.id ELSE d.name

DeriveDevices(req) ==
  [i \in DOMAIN req.devices |->
     LET d == req.devices[i] IN
     [id |-> d.id, hostname |-> Upper[NameOf(d)],
      site |-> d.site, roles |-> d.roles, mgmt |-> d.mgmt, dashboard |-> d.dashboard,
      loopback |-> <<"loopbacks", i>>]]

DeriveFusion(req) ==
  [i \in DOMAIN req.fusion |->
     LET f == req.fusion[i] IN
     [id |-> f.id, hostname |-> Upper[f.name], mgmt |-> f.mgmt,
      dashboard |-> f.dashboard, asn |-> f.asn]]

DeriveLinks(req) ==
  [i \in DOMAIN req.links |->
     LET l == req.links[i] IN
     [id |-> l.id, subnet |-> <<"underlay_p2p", i>>,
      ends |-> [j \in DOMAIN l.ends |->
                  [device |-> l.ends[j][1], interface |-> l.ends[j][2],
                   ip |-> <<"underlay_p2p", i, j>>]]]]

-----------------------------------------------------------------------------
(* Virtual networks and their endpoint pools: one for each site of each.    *)

\* The n-th number that first fit gives out.
FirstFit(free, n) == Ranked(free)[n]

NetworkSites(req) ==
  FlattenSeq([i \in DOMAIN req.networks |->
                [j \in DOMAIN req.networks[i].sites |->
                   [network |-> req.networks[i].id,
                    site |-> req.networks[i].sites[j].site,
                    server |-> req.networks[i].sites[j].server]]])

NetworksAccepted(req) ==
  /\ \A s \in ToSet(NetworkSites(req)) :
       s.server # None => s.server \in WithRole(req.devices, "border")
  /\ Len(NetworkSites(req)) <= Cardinality(VlanFree)

\* The identifier of a pool is the site and the network in lower case, joined by
\* a dash.
DerivePools(req) ==
  LET places == NetworkSites(req) IN
  [i \in DOMAIN places |->
     [id |-> Words[places[i].site] \o Words[places[i].network],
      site |-> places[i].site, network |-> places[i].network,
      vlan |-> FirstFit(VlanFree, i), prefix |-> <<"overlay_hosts", i>>,
      server |-> places[i].server]]

\* endpoint_pools_by_key: of two pools of a place the last one counts.
PoolAt(pools, site, network) ==
  pools[SelectLastInSeq(pools, LAMBDA p : p.site = site /\ p.network = network)]

PoolVlans(req) == {p.vlan : p \in ToSet(DerivePools(req))}

PoolKeys(req) == {<<s.site, s.network>> : s \in ToSet(NetworkSites(req))}

LinkInterfaces(req) == UNION {ToSet(l.ends) : l \in ToSet(req.links)}

\* Fault: where the device of an attachment stands is not looked at.
AttachmentsUnplaced(req) ==
  LET list == req.attachments IN
  /\ ~Repeated(Column(list))
  /\ ~Repeated([i \in DOMAIN list |-> <<list[i].device, list[i].interface>>])
  /\ \A a \in ToSet(list) :
       /\ a.device \in WithRole(req.devices, "fabric_edge")
       /\ <<a.device, a.interface>> \notin LinkInterfaces(req)
       /\ <<a.site, a.network>> \in PoolKeys(req)

AttachmentsAccepted(req) ==
  LET list == req.attachments IN
  /\ ~Repeated(Column(list))
  /\ ~Repeated([i \in DOMAIN list |-> <<list[i].device, list[i].interface>>])
  /\ \A a \in ToSet(list) :
       /\ a.device \in WithRole(req.devices, "fabric_edge")
       /\ Entry(req.devices, a.device).site = a.site
       /\ <<a.device, a.interface>> \notin LinkInterfaces(req)
       /\ <<a.site, a.network>> \in PoolKeys(req)

DeriveAttachments(req) ==
  [i \in DOMAIN req.attachments |->
     LET a == req.attachments[i]
         pool == PoolAt(DerivePools(req), a.site, a.network)
     IN [id |-> a.id, device |-> a.device, interface |-> a.interface,
         site |-> a.site, network |-> a.network,
         pool |-> pool.id, vlan |-> pool.vlan]]

-----------------------------------------------------------------------------
(* Shared services (schema 1.2).                                            *)

NetworkIds(req) == Ids(req.networks)
Vrfs(req)       == {n.vrf : n \in ToSet(req.networks)}
VrfOf(req, network) ==
  req.networks[SelectLastInSeq(req.networks, LAMBDA n : n.id = network)].vrf

ServicesAccepted(req) ==
  LET shared == req.services
      pools  == DerivePools(req)
      fusion == [i \in DOMAIN shared.attachments |-> shared.attachments[i].fusion]
  IN
  /\ shared.vrf \in Vrfs(req)
  /\ ~Repeated(Column(shared.attachments))
  /\ ~Repeated(fusion)
  /\ Len(fusion) <= Cardinality(SharedVlanFree \ PoolVlans(req))
  /\ ToSet(fusion) \subseteq Ids(req.fusion)
  /\ Production(req) => Ids(req.fusion) \subseteq ToSet(fusion)
  /\ ~Repeated(Column(shared.services))
  /\ \A s \in ToSet(shared.services) :
       /\ s.prefixes \cap {p.prefix : p \in ToSet(pools)} = {}
       /\ \A a \in s.addresses : <<a[1], a[2]>> \in s.prefixes
       /\ s.consumers \subseteq NetworkIds(req)
       /\ \A c \in s.consumers : \E p \in ToSet(pools) : p.network = c

DeriveServices(req) ==
  LET shared == req.services
      free   == SharedVlanFree \ PoolVlans(req)
  IN
  [vrf |-> shared.vrf,
   attachments |->
     [i \in DOMAIN shared.attachments |->
        [id |-> shared.attachments[i].id, fusion |-> shared.attachments[i].fusion,
         vlan |-> FirstFit(free, i), prefix |-> <<"shared_service_handoff", i>>]],
   services |-> shared.services]

-----------------------------------------------------------------------------
(* The policy plane (schema 1.2).                                           *)

\* Numbers are given out one after the other: one that is asked for must still
\* be free, and who asks for none gets the first that is.
GiveOut(free, wanted) ==
  LET Left(numbers) == free \ ToSet(numbers)
      Give(numbers, want) ==
        IF want # None THEN want
        ELSE IF Left(numbers) = {} THEN None ELSE FirstFit(Left(numbers), 1)
      given[n \in Nat] ==
        IF n = 0 THEN <<>> ELSE Append(given[n - 1], Give(given[n - 1], wanted[n]))
  IN
  [numbers |-> given[Len(wanted)],
   refused |-> \E n \in 1..Len(wanted) :
                 Give(given[n - 1], wanted[n]) \notin Left(given[n - 1])]

Tags(groups) == GiveOut(SgtFree, [i \in DOMAIN groups |-> groups[i].tag])

GroupsAccepted(policy) ==
  ~Repeated(Column(policy.groups)) /\ ~Tags(policy.groups).refused

ContractsAccepted(policy) ==
  LET list == policy.contracts IN
  /\ \A c \in ToSet(list) :
       /\ {c.from, c.to} \subseteq Ids(policy.groups)
       /\ c.action = "deny" => c.protocol = "ip"
  /\ ~Repeated([i \in DOMAIN list |-> <<list[i].from, list[i].to, list[i].protocol>>])

Pans(ise) == {n \in ToSet(ise.nodes) : "pan" \in n.roles}

IseAccepted(req) ==
  LET ise == req.policy.ise IN
  /\ ~Repeated(Column(ise.nodes))
  /\ ~Repeated([i \in DOMAIN ise.nodes |-> ise.nodes[i].address])
  /\ ise.writer \in {n.id : n \in Pans(ise)}
  /\ Production(req) => Len(ise.nodes) >= Minimum.ise /\ Cardinality(Pans(ise)) >= 2

\* A speaker has one transport VRF and one password.
SxpAccepted(req) ==
  LET list    == req.policy.sxp
      shared  == req.services
      withIse == req.policy.mode \in {"ise", "hybrid"}
  IN
  /\ ~Repeated(Column(list))
  /\ ~Repeated([i \in DOMAIN list |-> <<list[i].speaker, list[i].listener, list[i].vrf>>])
  /\ \A c \in ToSet(list) :
       /\ c.speaker \in WithRole(req.devices, "border")
                          \cup WithRole(req.devices, "fabric_edge")
       /\ c.vrf \in Vrfs(req) \cup {"global"}
       /\ <<c.listener[1], c.listener[2]>> = c.prefix
       /\ withIse =>
            /\ c.listener \in {n.address : n \in ToSet(req.policy.ise.nodes)}
            /\ c.vrf = shared.vrf
            /\ \E s \in ToSet(shared.services) :
                 s.type = "ise" /\ c.prefix \in s.prefixes
  /\ \A c, x \in ToSet(list) :
       c.speaker = x.speaker => c.vrf = x.vrf /\ c.password = x.password
  /\ Production(req) =>
       /\ Cardinality({c.speaker : c \in ToSet(list)}) >= Minimum.speakers
       /\ Cardinality({c.listener : c \in ToSet(list)}) >= Minimum.listeners

\* A mode asks for the settings it needs and for no other.
PolicyAccepted(req) ==
  LET policy == req.policy IN
  /\ policy.mode \in {"ise", "hybrid"} <=> policy.ise # None
  /\ policy.mode \in {"sxp", "hybrid"} <=> policy.sxp # None
  /\ GroupsAccepted(policy)
  /\ ContractsAccepted(policy)
  /\ policy.ise # None => IseAccepted(req)
  /\ policy.sxp # None => SxpAccepted(req)

DerivePolicy(req) ==
  LET policy == req.policy
      tags   == Tags(policy.groups).numbers
      TagOf(g) == tags[SelectInSeq(policy.groups, LAMBDA x : x.id = g)]
  IN
  [mode |-> policy.mode,
   enforcers |-> WithRole(req.devices, "fabric_edge"), vlans |-> PoolVlans(req),
   groups |-> [i \in DOMAIN policy.groups |->
                 [id |-> policy.groups[i].id, tag |-> tags[i]]],
   contracts |-> [i \in DOMAIN policy.contracts |->
                    LET c == policy.contracts[i] IN
                    [from |-> c.from, fromTag |-> TagOf(c.from), to |-> c.to,
                     toTag |-> TagOf(c.to), protocol |-> c.protocol,
                     action |-> c.action]],
   ise |-> policy.ise]

-----------------------------------------------------------------------------
(* Roles, the identities of LISP, and the handoff.                          *)

RolesAccepted(req) ==
  LET borders == WithRole(req.devices, "border")
      servers == WithRole(req.devices, "control_plane")
  IN
  /\ servers # {}
  /\ Production(req) =>
       /\ Cardinality(borders) >= Minimum.borders
       /\ Cardinality(servers) >= Minimum.servers
       /\ req.schema = "1.2" => Len(req.fusion) >= Minimum.fusion

BordersAt(req, site) ==
  {b \in WithRole(req.devices, "border") : Entry(req.devices, b).site = site}

\* The sites that get a multihoming identifier, in their order.
MultihomedSites(req) ==
  LET at == {i \in DOMAIN req.campus.sites :
               Cardinality(BordersAt(req, req.campus.sites[i].id)) >= 2}
  IN [n \in 1..Cardinality(at) |-> req.campus.sites[Ranked(at)[n]]]

GroupIds(req) ==
  LET sites == MultihomedSites(req)
  IN GiveOut(GroupFree, [i \in DOMAIN sites |-> sites[i].group])

IdentitiesAccepted(req) ==
  LET asking == {s \in ToSet(req.campus.sites) : s.group # None} IN
  /\ req.domainId # None \/ asking # {} => Pubsub(req)
  /\ Pubsub(req) => /\ asking \subseteq ToSet(MultihomedSites(req))
                    /\ ~GroupIds(req).refused

DeriveLisp(req) ==
  LET servers == WithRole(req.devices, "control_plane")
      sites   == MultihomedSites(req)
  IN
  [servers |-> servers,
   publishers |-> IF Pubsub(req) THEN servers ELSE {},
   subscribers |-> IF Pubsub(req) THEN WithRole(req.devices, "border") ELSE {},
   groups |-> IF Pubsub(req)
              THEN [i \in DOMAIN sites |->
                      [site |-> sites[i].id, number |-> GroupIds(req).numbers[i],
                       borders |-> BordersAt(req, sites[i].id)]]
              ELSE <<>>]

\* The networks of an adjacency: those it names, or all.
Carried(req, adjacency) ==
  IF adjacency.networks = None THEN NetworkIds(req) ELSE adjacency.networks

\* Every border to every fusion node, every network over so many of them.
FullMesh(req) ==
  LET pairs == {<<a.border, a.fusion>> : a \in ToSet(req.handoff.adjacencies)}
      over(b, n) == {a.fusion : a \in {x \in ToSet(req.handoff.adjacencies) :
                                         x.border = b /\ n \in Carried(req, x)}}
  IN
  /\ WithRole(req.devices, "border") \X Ids(req.fusion) \subseteq pairs
  /\ Minimum.perVrf \in 1..Cardinality(Ids(req.fusion))
  /\ \A b \in WithRole(req.devices, "border"), n \in NetworkIds(req) :
       Cardinality(over(b, n)) >= Minimum.perVrf

AdjacenciesAccepted(req) ==
  LET list == req.handoff.adjacencies IN
  /\ list # <<>>
  /\ ~Repeated([i \in DOMAIN list |-> <<list[i].border, list[i].fusion>>])
  /\ \A a \in ToSet(list) :
       /\ a.border \in WithRole(req.devices, "border")
       /\ a.fusion \in Ids(req.fusion)
       /\ Carried(req, a) \subseteq NetworkIds(req)
  /\ Production(req) /\ MeshRequired => FullMesh(req)

\* Who peers with whom in which VRF.  Before schema 1.2 every border peers in
\* every VRF.
Peerings(req) ==
  LET list == req.handoff.adjacencies
      borders == Ranked(WithRole(req.devices, "border"))
      vrfs    == SetToSeq(Vrfs(req))
  IN
  IF req.schema = "1.2"
  THEN FlattenSeq([i \in DOMAIN list |->
         LET over == Ranked(Carried(req, list[i])) IN
         [j \in DOMAIN over |->
            [border |-> list[i].border, fusion |-> list[i].fusion,
             vrf |-> VrfOf(req, over[j]), asn |-> Entry(req.fusion, list[i].fusion).asn]]])
  ELSE FlattenSeq([i \in DOMAIN borders |->
         [j \in DOMAIN vrfs |->
            [border |-> borders[i], fusion |-> None, vrf |-> vrfs[j],
             asn |-> req.handoff.remoteAs]]])

SharedVlans(req) ==
  IF req.services = None THEN {}
  ELSE {a.vlan : a \in ToSet(DeriveServices(req).attachments)}

HandoffVlans(req) == HandoffVlanFree \ (PoolVlans(req) \cup SharedVlans(req))

\* Peers that are listed one by one have no remote AS: deriving them raises.
HandoffAccepted(req) ==
  req.handoff.bgp =>
    /\ req.schema = "1.2" => AdjacenciesAccepted(req)
    /\ req.schema # "1.2" => req.handoff.remoteAs # None /\ req.handoff.peers = <<>>
    /\ Len(Peerings(req)) <= Cardinality(HandoffVlans(req))

DerivePeers(req) ==
  LET peerings == Peerings(req) IN
  [i \in DOMAIN peerings |->
     [border |-> peerings[i].border, fusion |-> peerings[i].fusion,
      vrf |-> peerings[i].vrf, asn |-> peerings[i].asn,
      vlan |-> FirstFit(HandoffVlans(req), i), prefix |-> <<"border_handoff", i>>,
      localIp |-> <<"border_handoff", i, 1>>, neighborIp |-> <<"border_handoff", i, 2>>]]

\* An SXP speaker sends from its loopback or from a peering in the VRF.
Sources(req, connection) ==
  IF connection.vrf = "global"
  THEN {d.loopback : d \in {x \in ToSet(DeriveDevices(req)) : x.id = connection.speaker}}
  ELSE IF ~req.handoff.bgp THEN {}
  ELSE {p.localIp : p \in {x \in ToSet(DerivePeers(req)) :
                             x.border = connection.speaker /\ x.vrf = connection.vrf}}

SourcesAccepted(req) ==
  req.policy # None /\ req.policy.sxp # None =>
    \A c \in ToSet(req.policy.sxp) : Sources(req, c) # {}

DeriveSxp(req) ==
  LET list == req.policy.sxp
      first(S) == CHOOSE a \in S : \A b \in S : a[2] <= b[2]
  IN
  IF list = None THEN None
  ELSE [i \in DOMAIN list |->
          [speaker |-> list[i].speaker, listener |-> list[i].listener,
           prefix |-> list[i].prefix, vrf |-> list[i].vrf,
           password |-> list[i].password, source |-> first(Sources(req, list[i]))]]

-----------------------------------------------------------------------------
(* The whole of it.                                                         *)

UsedSites(req) ==
  {d.site : d \in ToSet(req.devices)} \cup {s.site : s \in ToSet(NetworkSites(req))}

Accepted(req) ==
  /\ CampusAccepted(req.campus, UsedSites(req), NetworkIds(req))
  /\ DevicesAccepted(req)
  /\ FusionAccepted(req)
  /\ LinksAccepted(req)
  /\ NetworksAccepted(req)
  /\ AttachmentsAccepted(req)
  /\ req.services # None => ServicesAccepted(req)
  /\ req.policy # None => PolicyAccepted(req)
  /\ RolesAccepted(req)
  /\ IdentitiesAccepted(req)
  /\ HandoffAccepted(req)
  /\ SourcesAccepted(req)

DeriveIntent(req) ==
  [schema |-> req.schema, env |-> req.env, mode |-> req.mode, campus |-> req.campus,
   devices |-> DeriveDevices(req), fusion |-> DeriveFusion(req),
   links |-> DeriveLinks(req),
   networks |-> [i \in DOMAIN req.networks |->
                   [id |-> req.networks[i].id, vrf |-> req.networks[i].vrf, l3 |-> i]],
   pools |-> DerivePools(req), attachments |-> DeriveAttachments(req),
   services |-> IF req.services = None THEN None ELSE DeriveServices(req),
   policy |-> IF req.policy = None THEN None ELSE DerivePolicy(req),
   sxp |-> IF req.policy = None THEN None ELSE DeriveSxp(req),
   lisp |-> DeriveLisp(req),
   peers |-> IF req.handoff.bgp THEN DerivePeers(req) ELSE None]
=============================================================================
