---------------------------- MODULE MCReconcile ----------------------------
(* Two borders, an edge and a fusion node with two networks, for TLC. *)
EXTENDS Reconcile, TLC

CONSTANTS b1, b2, e1, f1,           \* nodes
          red, blue, pr, pb,        \* networks and their endpoint pools
          ra, g1, g2,               \* RP address, broadcast groups
          al, am, gr, gs, c1, c2,   \* access lists, group ranges, core groups
          x1, x2, x3, x4, x5, x6,   \* segment addresses
          v1, v2, v3                \* handoff VLANs

Order    == <<b1, b2, e1, f1>>
RoleSets == b1 :> {"border"} @@ b2 :> {"border"} @@ e1 :> {"fabric_edge"}
PoolNets == pr :> red @@ pb :> blue

Peer(d, vn, v) == [device |-> d, fusion |-> f1, vn |-> vn, vlan |-> v]
Ssm(acl, group, core, seg) ==
  [mode |-> "ssm", acl |-> acl, group |-> group, rp |-> None, core |-> core, segment |-> seg]
Asm(acl, group, core, seg) == [Ssm(acl, group, core, seg) EXCEPT !.mode = "asm", !.rp = ra]

RedSegments  == b1 :> x1 @@ b2 :> x2 @@ e1 :> x3
BlueSegments == b1 :> x4 @@ b2 :> x5 @@ e1 :> x6

\* Both networks, two rendezvous points.
Both ==
  [devices |-> {b1, b2, e1}, fusion |-> {f1}, enabled |-> TRUE, transport |-> "native",
   rpMode |-> "anycast", rps |-> {b1, b2}, rpAddress |-> ra,
   policies |-> red :> Ssm(al, gr, c1, RedSegments) @@ blue :> Asm(am, gs, c2, BlueSegments),
   pools |-> {pr, pb}, bum |-> pr :> g1 @@ pb :> g2,
   peers |-> {Peer(b1, red, v1), Peer(b1, blue, v2), Peer(b2, blue, v3)}]

\* The same with the modes and every identifier of the two networks exchanged.
Exchanged ==
  [Both EXCEPT
     !.policies = red :> Asm(am, gr, c2, BlueSegments) @@ blue :> Ssm(al, gs, c1, RedSegments),
     !.bum = pr :> g2 @@ pb :> g1]

\* One border retired, and one network left, which keeps its policy and its
\* access list; the list has another range.
Smaller ==
  [Both EXCEPT
     !.devices = {b1, e1}, !.rpMode = "static", !.rps = {b1},
     !.policies = red :> Ssm(al, gs, c1, b1 :> x1 @@ e1 :> x4),
     !.peers = {Peer(b1, red, v1), Peer(b1, blue, v2)}]

\* Two pools flood to one group: refused.
Flooded == [Both EXCEPT !.bum = pr :> g1 @@ pb :> g1]

Disabled ==
  [Both EXCEPT !.enabled = FALSE, !.rpMode = "none", !.rps = {}, !.rpAddress = None,
               !.policies = <<>>, !.bum = <<>>]

\* Planned, and never applied.
HeadEnd ==
  [Both EXCEPT
     !.transport = "head_end", !.bum = <<>>,
     !.policies = red :> Ssm(al, gr, None, RedSegments)]

Intents == {Both, Exchanged, Smaller, Flooded, Disabled, HeadEnd}
AcceptedCodes == {"reconciliation_pending", "native_pending"}
=============================================================================
