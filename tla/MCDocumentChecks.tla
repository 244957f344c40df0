-------------------------- MODULE MCDocumentChecks --------------------------
(***************************************************************************)
(* Documents for TLC.                                                      *)
(*                                                                         *)
(* The campuses have five nodes, of which three are of any type and under  *)
(* any node; the requirements are one of four good ones with any two       *)
(* sections replaced; the registries have three gates that depend on any   *)
(* of the three, with one thing wrong with them or nothing.                *)
(***************************************************************************)
EXTENDS DocumentChecks, TLC


-----------------------------------------------------------------------------
\* The instance.
MCMaxHierarchyDepth == 3
MCMaxDepth == 2
MCProfiles == <<[id |-> "small", endpoints |-> 10, aps |-> 2],
                [id |-> "large", endpoints |-> 50, aps |-> 8]>>
MCVlanFree == {100, 101, 1002, 1003}
MCSharedVlanFree == {100, 3901, 3902}
MCHandoffVlanFree == {100, 3901} \cup 3000..3007
MCSgtFree == 2..4
MCGroupFree == 1..2
\* Sites 11 "a" and 12 "a-b", networks 51 "b-c" and 52 "c": the pool of 51 at 11
\* and that of 52 at 12 have one name.
MCWords == (11 :> <<"a">>) @@ (12 :> <<"a", "b">>)
             @@ (51 :> <<"b", "c">>) @@ (52 :> <<"c">>)

\* Name 25 is name 24 in other letters.
MCUpper == [n \in (21..25) \cup (31..33) |-> IF n = 25 THEN 24 ELSE n]
\* Guardrails below what validation wants, but for the SXP listeners.
MCMinimum == [borders |-> 1, servers |-> 1, fusion |-> 1, ise |-> 1, speakers |-> 1,
              listeners |-> 2, perVrf |-> 1]

MCNames == (1..4) \cup {9}
MCRoles == {"network", "security"}

-----------------------------------------------------------------------------
\* Campuses.
Node(id, type, parent) == [id |-> id, type |-> type, parent |-> parent]
Site(id, node) == [id |-> id, node |-> node, endpoints |-> 20, aps |-> 2,
                   profile |-> None, group |-> None]
Zone(id, site, node, networks) ==
  [id |-> id, site |-> site, node |-> node, networks |-> networks]

Placed == ({"area", "building", "floor"} \X (1..5))
            \cup {<<"global", None>>, <<"area", None>>, <<"area", 9>>}

InCampus(nodes, site) ==
  [kind |-> "campus", model |-> "single_site", nodes |-> nodes,
   sites |-> <<Site(11, site)>>, zones |-> <<Zone(91, 11, 5, {})>>,
   used |-> {11}, networks |-> {}]

-----------------------------------------------------------------------------
\* Requirements.
Built(model, sites, zones) ==
  [model |-> model, sites |-> sites, zones |-> zones,
   nodes |-> <<Node(1, "global", None), Node(2, "building", 1),
               Node(3, "building", 1), Node(4, "floor", 2)>>]

Device(id, site, roles) == [id |-> id, name |-> None, site |-> site,
                            roles |-> roles, mgmt |-> id, dashboard |-> None,
                            approved |-> TRUE]
Fusion(id) == [id |-> id, name |-> id, mgmt |-> id, dashboard |-> None,
               asn |-> 65000 + id, approved |-> TRUE]
Link(id, from, to) == [id |-> id, ends |-> <<<<from, 1>>, <<to, id>>>>]
Network(id, sites) ==
  [id |-> id, vrf |-> IF id = 51 THEN "campus" ELSE "guest", sites |-> sites]
Placement(site, server) == [site |-> site, server |-> server]
Attachment(id, device, interface, site, network) ==
  [id |-> id, device |-> device, interface |-> interface, site |-> site,
   network |-> network]
Adjacency(b, f, n) == [border |-> b, fusion |-> f, networks |-> n]

Both == <<Device(21, 11, {"border", "control_plane"}),
          Device(22, 11, {"border", "control_plane"}),
          Device(23, 11, {"fabric_edge"}), Device(24, 12, {"fabric_edge"})>>

Mesh == <<Adjacency(21, 31, None), Adjacency(21, 32, None),
          Adjacency(22, 31, None), Adjacency(22, 32, None)>>

IsePrefix  == <<"services", 1>>
IseAddress(host) == <<"services", 1, host>>
IseNodes == <<[id |-> 71, address |-> IseAddress(1), roles |-> {"pan"}],
              [id |-> 72, address |-> IseAddress(2), roles |-> {"pan"}]>>
Cluster == [nodes |-> IseNodes, writer |-> 71]
Service(id, type, prefix, addresses, consumers) ==
  [id |-> id, type |-> type, prefixes |-> {prefix}, addresses |-> addresses,
   consumers |-> consumers]
Shared == [vrf |-> "campus",
           attachments |-> <<[id |-> 61, fusion |-> 31], [id |-> 62, fusion |-> 32]>>,
           services |-> <<Service(65, "ise", IsePrefix, {IseAddress(1)}, {51})>>]
Group(id, tag) == [id |-> id, tag |-> tag]
Contract(from, to, protocol, action) ==
  [from |-> from, to |-> to, protocol |-> protocol, action |-> action]
Policy == [mode |-> "none", groups |-> <<Group(81, None), Group(82, 3)>>,
           contracts |-> <<Contract(81, 82, "tcp", "permit"), Contract(82, 81, "ip", "deny")>>,
           ise |-> None, sxp |-> None]
Sxp(id, speaker, host, vrf) ==
  [id |-> id, speaker |-> speaker, listener |-> IseAddress(host),
   prefix |-> IsePrefix, vrf |-> vrf, password |-> "password"]
Handoff == [bgp |-> TRUE, adjacencies |-> Mesh, remoteAs |-> 65001, peers |-> <<>>]

Good(schema, env) ==
  [kind |-> "requirements", schema |-> schema, env |-> env,
   mode |-> IF schema = "1.2" THEN "lisp_pubsub" ELSE "lisp_bgp",
   campus |-> Built("distributed_campus", <<Site(11, 2), Site(12, 3)>>,
                     <<Zone(91, 11, 4, {51})>>),
   devices |-> Both,
   fusion |-> IF schema = "1.2" THEN <<Fusion(31), Fusion(32)>> ELSE <<>>,
   links |-> <<Link(41, 21, 23), Link(42, 22, 24)>>,
   networks |-> <<Network(51, <<Placement(11, None)>>)>>,
   attachments |-> <<Attachment(45, 23, 5, 11, 51)>>,
   services |-> IF schema = "1.2" THEN Shared ELSE None,
   policy |-> IF schema = "1.2" THEN Policy ELSE None,
   handoff |-> Handoff, domainId |-> None]

\* Good for guardrails that are content with one fusion node.
OneFusion == [Good("1.2", "production") EXCEPT
                !.fusion = <<Fusion(31)>>, !.services.attachments = <<@[1]>>,
                !.handoff.adjacencies = <<Mesh[1], Mesh[3]>>]

GoodOnes == {Good("1.2", "production"), Good("1.2", "staging"), Good("1.1", "staging"),
             OneFusion}

CampusChanges ==
  LET Two(a, b) == <<[Site(11, 2) EXCEPT !.group = a], [Site(12, 3) EXCEPT !.group = b]>>
  IN {Built("distributed_campus", <<Site(11, 2)>>, <<>>),
      Built("single_site", <<Site(11, 2), Site(12, 3)>>, <<>>),
      Built("distributed_campus", Two(None, 1), <<>>),
      Built("distributed_campus", Two(2, 1), <<>>),
      Built("distributed_campus", Two(1, None), <<>>),
      Built("distributed_campus", Two(None, None), <<Zone(91, 12, 4, {51})>>),
      Built("distributed_campus", Two(None, None), <<Zone(91, 11, 2, {52})>>),
      Built("distributed_campus",
             <<Site(11, 2), [Site(12, 3) EXCEPT !.profile = "small"]>>, <<>>)}

DeviceChanges ==
  {[Both EXCEPT ![1].name = 22],       [Both EXCEPT ![4].mgmt = 31],
   [Both EXCEPT ![1].name = 25],       [Both EXCEPT ![1].dashboard = 7, ![3].dashboard = 7],
   [Both EXCEPT ![2].id = 21],         [Both EXCEPT ![3].approved = FALSE],
   [Both EXCEPT ![3].roles = {"underlay"}],      [Both EXCEPT ![4].site = 13],
   [Both EXCEPT ![2].roles = {"control_plane"}], [Both EXCEPT ![2].roles = {"border"}],
   [Both EXCEPT ![2].roles = {"border"}, ![1].roles = {"border"}],
   [Both EXCEPT ![2].roles = {"underlay"}, ![1].roles = {"control_plane"}],
   [Both EXCEPT ![4].roles = {"border", "fabric_edge"}],
   [Both EXCEPT ![3].roles = {"border"}, ![4].roles = {"border"}],
   [Both EXCEPT ![3].roles = {"underlay"}, ![4].roles = {"underlay"}]}

FusionChanges ==
  {<<Fusion(31), [Fusion(32) EXCEPT !.id = 31]>>,
   <<Fusion(31), [Fusion(32) EXCEPT !.name = 31]>>, <<Fusion(21), Fusion(32)>>,
   <<[Fusion(31) EXCEPT !.dashboard = 7], [Fusion(32) EXCEPT !.dashboard = 7]>>,
   <<[Fusion(31) EXCEPT !.approved = FALSE], Fusion(32)>>,
   <<Fusion(31), Fusion(32), Fusion(33)>>}

LinkChanges ==
  {<<Link(41, 23, 23)>>, <<Link(41, 21, 23), Link(41, 22, 24)>>,
   <<Link(41, 21, 99)>>,
   <<[Link(41, 21, 23) EXCEPT !.ends[2] = <<23, 5>>]>>}

NetworkChanges ==
  LET here == Placement(11, None)  there == Placement(12, None) IN
  {<<Network(51, <<here>>), Network(52, <<there>>)>>,
   <<Network(51, <<here>>), Network(52, <<here>>)>>,
   <<Network(51, <<there>>)>>,
   <<Network(51, <<here, here>>)>>,
   <<Network(51, <<here>>), Network(51, <<there>>)>>,
   <<Network(51, <<here>>), [Network(52, <<there>>) EXCEPT !.vrf = "campus"]>>,
   <<Network(51, <<Placement(11, 21)>>)>>, <<Network(51, <<Placement(11, 24)>>)>>,
   <<Network(51, <<here, there>>), Network(52, <<here, there>>)>>}

AttachmentChanges ==
  LET one == Attachment(45, 23, 5, 11, 51) IN
  {<<>>, <<[one EXCEPT !.device = 21]>>, <<[one EXCEPT !.site = 12]>>,
   <<[one EXCEPT !.device = 24, !.site = 12]>>, <<[one EXCEPT !.interface = 41]>>,
   <<[one EXCEPT !.network = 52]>>, <<one, [one EXCEPT !.id = 46]>>,
   <<one, [one EXCEPT !.interface = 6]>>, <<one, Attachment(46, 24, 5, 12, 52)>>}

ServiceChanges ==
  LET One(prefix, addresses, consumers) ==
        [Shared EXCEPT !.services = <<Service(65, "ise", prefix, addresses, consumers)>>]
  IN {[Shared EXCEPT !.vrf = "guest"], [Shared EXCEPT !.attachments = <<@[1]>>],
      [Shared EXCEPT !.attachments[2].fusion = 31],
      [Shared EXCEPT !.attachments[2].id = 61],
      [Shared EXCEPT !.services = @ \o @],
      One(<<"overlay_hosts", 1>>, {<<"overlay_hosts", 1, 1>>}, {51}), One(IsePrefix, {<<"services", 2, 1>>}, {51}),
      One(IsePrefix, {IseAddress(1)}, {52}), One(<<"services", 2>>, {<<"services", 2, 1>>}, {51})}

PolicyChanges ==
  LET With(mode, ise, sxp) == [Policy EXCEPT !.mode = mode, !.ise = ise, !.sxp = sxp]
      Local == <<Sxp(85, 21, 1, "global"), Sxp(86, 22, 2, "global")>>
      Routed == <<Sxp(85, 21, 1, "campus"), Sxp(86, 22, 2, "campus")>>
  IN {With("ise", Cluster, None), With("sxp", None, Local), With("sxp", None, Routed),
      With("hybrid", Cluster, Routed), With("hybrid", Cluster, Local),
      With("ise", None, None), With("sxp", Cluster, Routed),
      With("sxp", None, <<Sxp(85, 21, 1, "campus"), Sxp(86, 21, 2, "global")>>),
      With("sxp", None, <<Sxp(85, 23, 1, "campus"), Sxp(86, 24, 2, "global")>>),
      With("sxp", None, <<Sxp(85, 21, 1, "global")>>),
      With("sxp", None, <<Sxp(85, 21, 1, "global"), Sxp(86, 21, 2, "global")>>),
      With("hybrid", Cluster, <<Sxp(85, 21, 1, "campus"), Sxp(86, 22, 3, "campus")>>),
      With("ise", [Cluster EXCEPT !.writer = 73], None),
      With("ise", [Cluster EXCEPT !.nodes = <<IseNodes[1]>>], None),
      With("ise", [Cluster EXCEPT !.nodes[2].address = IseAddress(1)], None),
      [Policy EXCEPT !.groups = <<Group(81, None), Group(82, 2)>>],
      [Policy EXCEPT !.groups = <<Group(81, 2), Group(81, 3)>>],
      [Policy EXCEPT !.contracts = <<Contract(81, 83, "ip", "permit")>>],
      [Policy EXCEPT !.contracts = <<Contract(81, 82, "tcp", "deny")>>],
      [Policy EXCEPT !.contracts = <<@[1], @[1]>>]}

HandoffChanges ==
  LET Adjacent(list) == [Handoff EXCEPT !.adjacencies = list] IN
  {[Handoff EXCEPT !.bgp = FALSE], [Handoff EXCEPT !.remoteAs = None],
   [Handoff EXCEPT !.peers = <<[border |-> 21, vrf |-> "campus"]>>], 
   Adjacent(<<Mesh[1], Mesh[2], Mesh[3]>>), Adjacent(<<Mesh[1], Mesh[3]>>),
   Adjacent(<<Mesh[1], Mesh[4]>>), Adjacent(<<Mesh[1], Mesh[2]>>),
   Adjacent(Mesh \o <<Mesh[1]>>), Adjacent(<<Adjacency(23, 31, None)>>),
   Adjacent(<<Adjacency(21, 33, None)>>), Adjacent([Mesh EXCEPT ![1].networks = {52}]),
   Adjacent(<<Adjacency(21, 31, {51}), Adjacency(22, 32, {52})>>),
   Adjacent(<<Adjacency(21, 31, {51}), Adjacency(22, 32, {51})>>)}

Changes == [campus |-> CampusChanges, devices |-> DeviceChanges,
            fusion |-> FusionChanges, links |-> LinkChanges,
            networks |-> NetworkChanges, attachments |-> AttachmentChanges,
            services |-> ServiceChanges, policy |-> PolicyChanges,
            handoff |-> HandoffChanges, mode |-> {"lisp_bgp", "lisp_pubsub"},
            domainId |-> {"campus-1"}]

\* Only schema 1.2 has fusion nodes, shared services and a policy plane.
Sections(req) ==
  DOMAIN Changes \ (IF req.schema = "1.2" THEN {} ELSE {"fusion", "services", "policy"})

-----------------------------------------------------------------------------
\* Registries.
Evidence(id, result, file) == [id |-> id, result |-> result, file |-> file]
Passed(id, required, deps) ==
  [id |-> id, required |-> required, status |-> "passed", deps |-> deps,
   evidence |-> <<Evidence(id, "passed", "verified")>>, rationale |-> FALSE]
Signoff(role) == [role |-> role, status |-> "approved", decided |-> TRUE]

\* In which order a gate names the others plays no part.
Dependencies == {Ranked(S) : S \in SUBSET (1..3)}

Released(gates) ==
  [kind |-> "registry", gates |-> gates, roles |-> {"network", "security"},
   signoffs |-> <<Signoff("network"), Signoff("security")>>,
   requested |-> TRUE, claims |-> TRUE,
   manifest |-> [supplied |-> TRUE, apply |-> TRUE, workflow |-> TRUE, steps |-> TRUE]]

\* One thing that may be wrong with a gate.
GateChanges(gate) ==
  {[gate EXCEPT !.status = status, !.rationale = TRUE] :
     status \in {"pending", "failed", "not_applicable"}}
  \cup {[gate EXCEPT !.evidence = list] :
          list \in {<<>>, <<Evidence(gate.id, "failed", "verified")>>,
                    gate.evidence \o <<Evidence(9, "failed", "verified")>>,
                    gate.evidence \o gate.evidence}
                   \cup {<<Evidence(gate.id, "passed", file)>> :
                           file \in {"missing", "changed", "escapes", "elsewhere"}}}
  \cup {[gate EXCEPT !.deps = @ \o <<4>>]}

\* One thing that may be wrong with the rest.
RegistryChanges(reg) ==
  {[reg EXCEPT !.signoffs = list] :
     list \in {<<reg.signoffs[1]>>, reg.signoffs \o <<[reg.signoffs[1] EXCEPT !.status = "rejected"]>>,
               [reg.signoffs EXCEPT ![2].decided = FALSE],
               [reg.signoffs EXCEPT ![2].status = "pending", ![2].decided = FALSE]}}
  \cup {[reg EXCEPT !.requested = FALSE], [reg EXCEPT !.claims = FALSE],
        [reg EXCEPT !.manifest.apply = FALSE], [reg EXCEPT !.manifest.steps = FALSE],
        [reg EXCEPT !.manifest = [supplied |-> FALSE, apply |-> FALSE,
                                  workflow |-> FALSE, steps |-> FALSE]]}

-----------------------------------------------------------------------------
\* What is drafted, and what a draft may become.
MCCampuses ==
  {InCampus(<<Node(1, "global", None), Node(2, a[1], a[2]), Node(3, b[1], b[2]),
              Node(4, "area", 1), Node(5, type, under)>>, site) :
     a \in Placed, b \in Placed, type \in {"area", "floor"}, under \in 2..4,
     site \in {2, 3}}

MCRequirements ==
  UNION {UNION {{[good EXCEPT ![s] = v] : v \in Changes[s] \cup {good[s]}} :
                  s \in Sections(good)} : good \in GoodOnes}

MCRegistries ==
  {Released(<<Passed(1, TRUE, a), Passed(2, second, b), Passed(3, third, c)>>) :
     a \in Dependencies, b \in Dependencies, c \in Dependencies,
     second \in BOOLEAN, third \in BOOLEAN}

MCRevisions(draft) ==
  CASE draft.kind = "campus" ->
         {[draft EXCEPT !.nodes[4] = Node(id, c[1], c[2])] : id \in {2, 4}, c \in Placed}
    [] draft.kind = "requirements" ->
         UNION {{[draft EXCEPT ![s] = v] : v \in Changes[s]} : s \in Sections(draft)}
    [] draft.kind = "registry" ->
         {draft} \cup RegistryChanges(draft)
           \cup UNION {{[draft EXCEPT !.gates[i] = gate] :
                          gate \in GateChanges(draft.gates[i])} : i \in 1..3}
=============================================================================
