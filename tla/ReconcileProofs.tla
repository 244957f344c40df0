-------------------------- MODULE ReconcileProofs --------------------------
(***************************************************************************)
(* What pruning and rendering leave on every node, for any intents, nodes  *)
(* and networks: the ledger of owned state is the reality between runs, a  *)
(* run removes nothing its baseline does not own, no gate of it fails      *)
(* because of what is configured, and nothing names what is not there.     *)
(*                                                                         *)
(* The argument has four layers.                                           *)
(*   1. One design.  A removal takes the lines of its resource and no      *)
(*      unicast line (Sound); the renderer enters the lines that the       *)
(*      manifest owns, no more (EnteredOwned) and no less (OwnedEntered);  *)
(*      a block that makes a section anew enters again whatever another    *)
(*      block put there (AnewComplete); and the lines of 'router lisp' in  *)
(*      two resources differ (LispUnique), which is what the absence gates *)
(*      count on.                                                          *)
(*   2. The steps of a run: which part of the sequence removes, proves,    *)
(*      enters and observes (Phases, from FlattenLemmas).                  *)
(*   3. The run.  After n steps every line has an origin (the baseline, or *)
(*      a block already sent), what was sent is there, and the unicast     *)
(*      lines of before are there (Progress).  ReconcileInv adds that the  *)
(*      run began on a fabric that held what the ledger owns.              *)
(*   4. The order.  A line that is gone was killed by a block sent, and    *)
(*      one that is there was entered by one or never killed (RunTraced).  *)
(*      What a line names is killed by the removal of its own resource     *)
(*      only (OwnTaker), which comes after the removal of the line         *)
(*      (RemovedBefore), and is entered first (AddressBefore).             *)
(***************************************************************************)
EXTENDS Reconcile, FlattenLemmas

-----------------------------------------------------------------------------
(* Owned resources. *)

IsLine(l) == l = [sec |-> l.sec, text |-> l.text]

\* The lines of the unicast configuration, which no manifest owns.
Unicast(l) ==
  \/ l.sec[1] = "vlan" /\ l.text[1] \in {"header", "gateway", "vrf"}
  \/ l.sec[1] = "lisp" /\ l.text[1] = "eid-table"

Killed(block, l) == l.sec \in block.drop \/ l \in block.minus

Orders == {200, 250, 300, 400, 500, 600, 700, 750, 800, 850, 900}

\* What removal counts on.
Sound(r) ==
  /\ r.order \in Orders
  /\ r.remove = Block(r.remove.drop, r.remove.minus, {})
  /\ r.forbidden \subseteq r.lines
  /\ \A l \in r.lines : IsLine(l) /\ Killed(r.remove, l)
  /\ \A l : Killed(r.remove, l) => ~Unicast(l)

LEMMA WholeSound ==
  ASSUME NEW key, NEW order \in Orders, NEW sec, NEW texts,
         sec[1] \in {"loopback", "acl", "lisp_interface"}
  PROVE  Sound(WholeSection(key, order, sec, texts))
<1> DEFINE r == WholeSection(key, order, sec, texts)
<1>1. /\ r.order = order /\ r.remove = Block({sec}, {}, {})
      /\ r.lines = {Header(sec)} \cup {Line(sec, t) : t \in texts}
      /\ r.forbidden = {Header(sec)}
                   \cup IF sec[1] = "acl" THEN {Line(sec, t) : t \in texts} ELSE {}
  BY DEF WholeSection
<1> HIDE DEF r
<1>2. \A l \in r.lines : IsLine(l) /\ l.sec = sec
  BY <1>1 DEF Header, Line, IsLine
<1>3. \A l : Killed(r.remove, l) <=> l.sec = sec
  BY <1>1 DEF Killed, Block
<1>4. \A l : l.sec = sec => ~Unicast(l)
  BY DEF Unicast
<1>5. r.forbidden \subseteq r.lines
  BY <1>1
<1>6. r.remove = Block(r.remove.drop, r.remove.minus, {})
  BY <1>1 DEF Block
<1>7. Sound(r)
  BY <1>1, <1>2, <1>3, <1>4, <1>5, <1>6 DEF Sound
<1> QED
  BY <1>7 DEF r

LEMMA ExactSound ==
  ASSUME NEW key, NEW order \in Orders, NEW lines,
         \A l \in lines : IsLine(l) /\ ~Unicast(l)
  PROVE  Sound(ExactLines(key, order, lines))
<1> DEFINE r == ExactLines(key, order, lines)
<1>1. /\ r.order = order /\ r.remove = Block({}, lines, {})
      /\ r.lines = lines /\ r.forbidden = lines
  BY DEF ExactLines
<1> HIDE DEF r
<1>2. \A l : Killed(r.remove, l) <=> l \in lines
  BY <1>1 DEF Killed, Block
<1>3. r.remove = Block(r.remove.drop, r.remove.minus, {})
  BY <1>1 DEF Block
<1>4. Sound(r)
  BY <1>1, <1>2, <1>3 DEF Sound
<1> QED
  BY <1>4 DEF r

LEMMA SectionsApart ==
  /\ Global[1] = "global"
  /\ \A n : /\ Loopback(n)[1] = "loopback" /\ LispPort(n)[1] = "lisp_interface"
            /\ Vlan(n)[1] = "vlan" /\ Acl(n)[1] = "acl" /\ Lisp(n)[1] = "lisp"
BY DEF Global, Loopback, LispPort, Vlan, Acl, Lisp

\* The whole sections a device owns are the policy's list, a loopback and a
\* LISP port.
LEMMA WholesSound ==
  ASSUME NEW key, NEW order \in Orders, NEW n, NEW texts
  PROVE  /\ Sound(WholeSection(key, order, Acl(n), texts))
         /\ Sound(WholeSection(key, order, Loopback(n), texts))
         /\ Sound(WholeSection(key, order, LispPort(n), texts))
<1> DEFINE known(sec) == sec[1] \in {"loopback", "acl", "lisp_interface"}
<1>1. known(Acl(n)) /\ known(Loopback(n)) /\ known(LispPort(n))
  BY SectionsApart
<1>2. \A sec : known(sec) => Sound(WholeSection(key, order, sec, texts))
  BY WholeSound
<1> HIDE DEF known
<1> QED
  BY <1>1, <1>2

LEMMA LineFields ==
  /\ \A sec, text : IsLine(Line(sec, text)) /\ Line(sec, text).sec = sec
                    /\ Line(sec, text).text = text
  /\ \A sec : IsLine(Header(sec)) /\ Header(sec).sec = sec
              /\ Header(sec).text[1] = "header"
BY DEF Line, Header, IsLine

LEMMA RpSound ==
  ASSUME NEW i, NEW d PROVE \A r \in RpResources(i, d) : Sound(r)
<1> DEFINE peers == i.rps \ {d}
           peer(p) == ExactLines(<<"msdp_peer", p>>, 300, {Line(Global, <<"msdp", "peer", p>>)})
           setting(x) == ExactLines(<<"msdp", x>>, 250, {Line(Global, <<"msdp", x>>)})
           rp == WholeSection(<<"rp_loopback">>, 200, Loopback("rp"), {<<"address", i.rpAddress>>})
<1>1. Sound(rp)
  BY WholeSound, SectionsApart DEF Orders
<1>2. \A p : Sound(peer(p))
  <2> TAKE p
  <2> DEFINE lines == {Line(Global, <<"msdp", "peer", p>>)}
  <2>1. \A l \in lines : IsLine(l) /\ ~Unicast(l)
    BY SectionsApart, LineFields DEF Unicast
  <2> HIDE DEF lines
  <2>2. Sound(ExactLines(<<"msdp_peer", p>>, 300, lines))
    BY <2>1, ExactSound DEF Orders
  <2> QED
    BY <2>2 DEF lines
<1>3. \A x : Sound(setting(x))
  <2> TAKE x
  <2> DEFINE lines == {Line(Global, <<"msdp", x>>)}
  <2>1. \A l \in lines : IsLine(l) /\ ~Unicast(l)
    BY SectionsApart, LineFields DEF Unicast
  <2> HIDE DEF lines
  <2>2. Sound(ExactLines(<<"msdp", x>>, 250, lines))
    BY <2>1, ExactSound DEF Orders
  <2> QED
    BY <2>2 DEF lines
<1>4. \A r \in RpResources(i, d) :
        r = rp \/ (\E p \in peers : r = peer(p)) \/ (\E x \in {"cache", "originator"} : r = setting(x))
  BY DEF RpResources
<1> HIDE DEF peers, peer, setting, rp
<1> QED
  BY <1>1, <1>2, <1>3, <1>4

\* Lines in the global section, at an access list, a loopback or a LISP
\* interface are multicast lines, and so are the others that a resource names.
LEMMA OwnedText ==
  /\ \A t : ~Unicast(Line(Global, t))
  /\ \A n, t : /\ ~Unicast(Line(Lisp(n), <<"mapping", t>>))
               /\ ~Unicast(Line(Lisp(n), <<"underlay", t>>))
               /\ ~Unicast(SparseMode(n))
  /\ \A p : \A l \in SviLines(p) : IsLine(l) /\ ~Unicast(l)
<1>1. \A t : ~Unicast(Line(Global, t))
  BY SectionsApart, LineFields DEF Unicast
<1>2. \A n, t : /\ ~Unicast(Line(Lisp(n), <<"mapping", t>>))
                /\ ~Unicast(Line(Lisp(n), <<"underlay", t>>))
  <2> TAKE n, t
  <2>1. <<"mapping", t>>[1] = "mapping" /\ <<"underlay", t>>[1] = "underlay"
    OBVIOUS
  <2> QED
    BY <2>1, SectionsApart, LineFields DEF Unicast
<1>3. \A n : ~Unicast(SparseMode(n))
  BY SectionsApart, LineFields DEF Unicast, SparseMode
<1>4. ASSUME NEW p, NEW l \in SviLines(p)
      PROVE  IsLine(l) /\ ~Unicast(l)
  <2>1. PICK t \in {"pim passive", "igmp version", "igmp tracking"} : l = Line(Vlan(p), <<t>>)
    BY DEF SviLines
  <2>2. <<t>>[1] = t /\ t \notin {"header", "gateway", "vrf"}
    OBVIOUS
  <2>3. IsLine(l) /\ l.sec = Vlan(p) /\ l.text = <<t>>
    BY <2>1, LineFields
  <2>4. l.sec[1] = "vlan" /\ l.text[1] \notin {"header", "gateway", "vrf"}
    BY <2>2, <2>3, SectionsApart
  <2> QED
    BY <2>3, <2>4 DEF Unicast
<1> QED
  BY <1>1, <1>2, <1>3, <1>4

LEMMA PolicySound ==
  ASSUME NEW i, NEW d, NEW vn PROVE \A r \in PolicyResources(i, d, vn) : Sound(r)
<1> DEFINE routing == {Line(Global, <<"routing", vn>>)}
           acl == WholeSection(<<"acl", vn>>, 500, Acl(i.policies[vn].acl),
                               {<<"permit", i.policies[vn].group>>})
<1>1. Sound(ExactLines(<<"routing", vn>>, 400, routing))
  <2>1. \A l \in routing : IsLine(l) /\ ~Unicast(l)
    BY OwnedText, LineFields
  <2> HIDE DEF routing
  <2> QED
    BY <2>1, ExactSound DEF Orders
<1>2. Sound(acl)
  <2>1. 500 \in Orders
    BY DEF Orders
  <2> QED
    BY <2>1, WholesSound
<1>3. Sound(ExactLines(<<"policy", vn>>, 600, PolicyLines(i, d, vn)))
  <2>1. \A l \in PolicyLines(i, d, vn) : \E t : l = Line(Global, t)
    BY DEF PolicyLines
  <2>2. \A l \in PolicyLines(i, d, vn) : IsLine(l) /\ ~Unicast(l)
    BY <2>1, OwnedText, LineFields
  <2> QED
    BY <2>2, ExactSound DEF Orders
<1>4. PolicyResources(i, d, vn) =
        {ExactLines(<<"routing", vn>>, 400, routing), acl,
         ExactLines(<<"policy", vn>>, 600, PolicyLines(i, d, vn))}
  BY DEF PolicyResources
<1> HIDE DEF routing, acl
<1> QED
  BY <1>1, <1>2, <1>3, <1>4

LEMMA SegmentSound ==
  ASSUME NEW i, NEW d, NEW vn PROVE \A r \in SegmentResources(i, d, vn) : Sound(r)
<1> DEFINE address == WholeSection(<<"segment_loopback", vn>>, 700, Loopback(vn),
                                   {<<"address", i.policies[vn].segment[d]>>})
           port == WholeSection(<<"lisp_interface", vn>>, 750, LispPort(vn),
                                {<<"transport">>, <<"core", i.policies[vn].core>>})
           x == i.policies[vn].segment[d]
           mapping == {Line(Lisp(vn), <<"mapping", x>>)}
<1>1. Sound(address)
  <2>1. 700 \in Orders
    BY DEF Orders
  <2> QED
    BY <2>1, WholesSound
<1>2. Sound(port)
  <2>1. 750 \in Orders
    BY DEF Orders
  <2> QED
    BY <2>1, WholesSound
<1>3. Sound(ExactLines(<<"lisp_mapping", vn>>, 800, mapping))
  <2> HIDE DEF x
  <2>1. \A l \in mapping : IsLine(l) /\ ~Unicast(l)
    BY OwnedText, LineFields
  <2> HIDE DEF mapping
  <2> QED
    BY <2>1, ExactSound DEF Orders
<1>4. SegmentResources(i, d, vn) =
        {address, port, ExactLines(<<"lisp_mapping", vn>>, 800, mapping)}
  BY DEF SegmentResources
<1> HIDE DEF address, port, mapping
<1> QED
  BY <1>1, <1>2, <1>3, <1>4

LEMMA PortSound ==
  ASSUME NEW i, NEW d
  PROVE  /\ \A vn : \A r \in SviResources(i, d, vn) : Sound(r)
         /\ \A vn : \A r \in HandoffResources(i, d, vn) : Sound(r)
         /\ \A r \in BumResources(i, d) : Sound(r)
<1>1. ASSUME NEW vn, NEW r \in SviResources(i, d, vn) PROVE Sound(r)
  <2> DEFINE svi(q) == ExactLines(<<"edge_svi", q>>, 900, SviLines(q))
  <2>2. SviResources(i, d, vn) = IF d \notin Edges(i) THEN {} ELSE {svi(q) : q \in PoolsOf(i, vn)}
    BY DEF SviResources
  <2> HIDE DEF svi
  <2>3. PICK p : r = svi(p)
    BY <2>2
  <2>1. r = ExactLines(<<"edge_svi", p>>, 900, SviLines(p))
    BY <2>3 DEF svi
  <2> QED
    BY <2>1, OwnedText, ExactSound DEF Orders
<1>2. ASSUME NEW key, NEW v
      PROVE  Sound(ExactLines(key, 900, {SparseMode(v)}))
  <2> DEFINE lines == {SparseMode(v)}
  <2>1. \A l \in lines : IsLine(l) /\ ~Unicast(l)
    BY OwnedText, LineFields DEF SparseMode
  <2> HIDE DEF lines
  <2>2. Sound(ExactLines(key, 900, lines))
    BY <2>1, ExactSound DEF Orders
  <2> QED
    BY <2>2 DEF lines
<1>3. ASSUME NEW vn, NEW r \in HandoffResources(i, d, vn) PROVE Sound(r)
  <2> DEFINE border(v) == ExactLines(<<"border_handoff", vn, v>>, 900, {SparseMode(v)})
             fusion(v) == ExactLines(<<"fusion_handoff", vn, v>>, 900, {SparseMode(v)})
  <2>1. \A v : Sound(border(v)) /\ Sound(fusion(v))
    BY <1>2
  <2>2. HandoffResources(i, d, vn) =
          {border(p.vlan) : p \in {q \in PeersOf(i, vn) : q.device = d}}
            \cup {fusion(p.vlan) : p \in {q \in PeersOf(i, vn) : q.fusion = d}}
    BY DEF HandoffResources
  <2> HIDE DEF border, fusion
  <2>3. \E v : r = border(v) \/ r = fusion(v)
    BY <2>2
  <2> QED
    BY <2>1, <2>3
<1>4. ASSUME NEW r \in BumResources(i, d) PROVE Sound(r)
  <2> DEFINE bum(q) == ExactLines(<<"bum", q>>, 850, {Line(Lisp(q), <<"underlay", i.bum[q]>>)})
  <2>5. BumResources(i, d) = IF d \notin Edges(i) THEN {} ELSE {bum(q) : q \in DOMAIN i.bum}
    BY DEF BumResources
  <2> HIDE DEF bum
  <2>4. PICK p : r = bum(p)
    BY <2>5
  <2>1. r = ExactLines(<<"bum", p>>, 850, {Line(Lisp(p), <<"underlay", i.bum[p]>>)})
    BY <2>4 DEF bum
  <2> DEFINE x == i.bum[p]
             lines == {Line(Lisp(p), <<"underlay", x>>)}
  <2> HIDE DEF x
  <2>2. \A l \in lines : IsLine(l) /\ ~Unicast(l)
    BY OwnedText, LineFields
  <2> HIDE DEF lines
  <2>3. Sound(ExactLines(<<"bum", p>>, 850, lines))
    BY <2>2, ExactSound DEF Orders
  <2> QED
    BY <2>1, <2>3 DEF lines, x
<1> QED
  BY <1>1, <1>3, <1>4

\* Where the resources of a node come from.
LEMMA OwnedFrom ==
  ASSUME NEW i, NEW d, NEW r
  PROVE  r \in OwnedState(i, d) <=>
           /\ Native(i)
           /\ \/ r \in RpResources(i, d)
              \/ r \in BumResources(i, d)
              \/ \E vn \in Networks(i) :
                   /\ d \in Segments(i, vn) \cup FusionOf(i, vn)
                   /\ r \in PolicyResources(i, d, vn)
              \/ \E vn \in Networks(i) :
                   /\ d \in Segments(i, vn)
                   /\ r \in SegmentResources(i, d, vn) \cup SviResources(i, d, vn)
              \/ \E vn \in Networks(i) : r \in HandoffResources(i, d, vn)
<1> DEFINE A == UNION {PolicyResources(i, d, vn) :
                         vn \in {v \in Networks(i) : d \in Segments(i, v) \cup FusionOf(i, v)}}
           B == UNION {SegmentResources(i, d, vn) \cup SviResources(i, d, vn) :
                         vn \in {v \in Networks(i) : d \in Segments(i, v)}}
           C == UNION {HandoffResources(i, d, vn) : vn \in Networks(i)}
<1>1. r \in A <=> \E vn \in Networks(i) : /\ d \in Segments(i, vn) \cup FusionOf(i, vn)
                                        /\ r \in PolicyResources(i, d, vn)
  BY Zenon
<1>2. r \in B <=> \E vn \in Networks(i) :
                    /\ d \in Segments(i, vn)
                    /\ r \in SegmentResources(i, d, vn) \cup SviResources(i, d, vn)
  BY Zenon
<1>3. r \in C <=> \E vn \in Networks(i) : r \in HandoffResources(i, d, vn)
  BY Zenon
<1>4. OwnedState(i, d) =
        IF ~Native(i) THEN {} ELSE RpResources(i, d) \cup BumResources(i, d) \cup A \cup B \cup C
  BY Zenon DEF OwnedState
<1> HIDE DEF A, B, C
<1> QED
  BY <1>1, <1>2, <1>3, <1>4

LEMMA OwnedSound ==
  \A i, d : \A r \in OwnedState(i, d) : Sound(r)
<1> TAKE i, d
<1> TAKE r \in OwnedState(i, d)
<1>1. \/ r \in RpResources(i, d) \/ r \in BumResources(i, d)
      \/ \E vn : \/ r \in PolicyResources(i, d, vn) \/ r \in SegmentResources(i, d, vn)
                 \/ r \in SviResources(i, d, vn) \/ r \in HandoffResources(i, d, vn)
  BY OwnedFrom
<1>2. \A vn : \A s \in PolicyResources(i, d, vn) : Sound(s)
  BY PolicySound
<1>3. \A vn : \A s \in SegmentResources(i, d, vn) : Sound(s)
  BY SegmentSound
<1>4. /\ \A s \in RpResources(i, d) \cup BumResources(i, d) : Sound(s)
      /\ \A vn : \A s \in SviResources(i, d, vn) \cup HandoffResources(i, d, vn) : Sound(s)
  BY RpSound, PortSound
<1> QED
  BY <1>1, <1>2, <1>3, <1>4

LEMMA OwnedLinesKnown ==
  \A i, d : \A l \in OwnedLines(i, d) : IsLine(l) /\ ~Unicast(l)
BY OwnedSound DEF OwnedLines, Sound

-----------------------------------------------------------------------------
(* Rendered blocks. *)

LEMMA OrderedElems ==
  ASSUME NEW S, IsFiniteSet(S)
  PROVE  /\ IsSequence(Ordered(S)) /\ Elems(Ordered(S)) = S
         /\ Len(Ordered(S)) \in Nat
         /\ \A n \in 1..Len(Ordered(S)) : Ordered(S)[n] \in S
         /\ \A x \in S : \E n \in 1..Len(Ordered(S)) : Ordered(S)[n] = x
<1>1. IsSequence(Ordered(S)) /\ Elems(Ordered(S)) = S
  BY FoldAppends DEF Ordered
<1> QED
  BY <1>1, SequenceShape DEF Elems

LEMMA SequenceOfFunction ==
  ASSUME NEW n \in Nat, NEW s, s = [k \in 1..n |-> s[k]]
  PROVE  IsSequence(s) /\ Len(s) = n /\ Elems(s) = {s[k] : k \in 1..n}
<1>1. LET t == [k \in 1..n |-> s[k]]
      IN  IsSequence(t) /\ Len(t) = n /\ Elems(t) = {s[k] : k \in 1..n}
  BY ElemsTuple
<1> QED
  BY <1>1

HandoffBlock(p) == Enter({Header(Vlan(p.vlan)), Line(Vlan(p.vlan), <<"vrf", p.vn>>)})
GatewayBlock(p) == Enter({Header(Vlan(p)), Line(Vlan(p), <<"gateway", NetworkOf[p]>>)})
InstanceBlock(i, p) ==
  Enter({Line(Lisp(p), <<"eid-table">>)}
          \cup IF p \in DOMAIN i.bum THEN {Line(Lisp(p), <<"underlay", i.bum[p]>>)} ELSE {})
RpBlock(i) == Enter({Header(Loopback("rp")), Line(Loopback("rp"), <<"address", i.rpAddress>>)})
MsdpBlock(i, d) ==
  Enter({Line(Global, <<"msdp", "peer", p>>) : p \in i.rps \ {d}}
          \cup {Line(Global, <<"msdp", x>>) : x \in {"cache", "originator"}})

LEMMA HandoffElems ==
  ASSUME NEW peers, IsFiniteSet(peers)
  PROVE  /\ IsSequence(UnicastHandoff(peers))
         /\ \A b : b \in Elems(UnicastHandoff(peers)) <=> \E p \in peers : b = HandoffBlock(p)
<1> DEFINE at == Ordered(peers)
           s == UnicastHandoff(peers)
<1>1. /\ Len(at) \in Nat /\ \A n \in 1..Len(at) : at[n] \in peers
      /\ \A x \in peers : \E n \in 1..Len(at) : at[n] = x
  BY OrderedElems
<1>2. s = [n \in 1..Len(at) |-> HandoffBlock(at[n])]
  BY DEF UnicastHandoff, HandoffBlock
<1> HIDE DEF at, s
<1>3. s = [n \in 1..Len(at) |-> s[n]] /\ \A n \in 1..Len(at) : s[n] = HandoffBlock(at[n])
  BY <1>2
<1>4. IsSequence(s) /\ Elems(s) = {s[n] : n \in 1..Len(at)}
  BY <1>1, <1>3, SequenceOfFunction
<1>5. \A b : b \in Elems(s) <=> \E n \in 1..Len(at) : b = HandoffBlock(at[n])
  BY <1>3, <1>4
<1>6. \A b : b \in Elems(s) <=> \E p \in peers : b = HandoffBlock(p)
  BY <1>1, <1>5
<1> QED
  BY <1>4, <1>6 DEF s

LEMMA SparseElems ==
  ASSUME NEW peers, IsFiniteSet(peers)
  PROVE  /\ IsSequence(SparseModeBlocks(peers))
         /\ \A b : b \in Elems(SparseModeBlocks(peers)) <=>
                     \E p \in peers : b = Enter({SparseMode(p.vlan)})
<1> DEFINE at == Ordered(peers)
           s == SparseModeBlocks(peers)
<1>1. /\ Len(at) \in Nat /\ \A n \in 1..Len(at) : at[n] \in peers
      /\ \A x \in peers : \E n \in 1..Len(at) : at[n] = x
  BY OrderedElems
<1>2. s = [n \in 1..Len(at) |-> Enter({SparseMode(at[n].vlan)})]
  BY DEF SparseModeBlocks
<1> HIDE DEF at, s
<1>3. s = [n \in 1..Len(at) |-> s[n]] /\ \A n \in 1..Len(at) : s[n] = Enter({SparseMode(at[n].vlan)})
  BY <1>2
<1>4. IsSequence(s) /\ Elems(s) = {s[n] : n \in 1..Len(at)}
  BY <1>1, <1>3, SequenceOfFunction
<1>5. \A b : b \in Elems(s) <=> \E n \in 1..Len(at) : b = Enter({SparseMode(at[n].vlan)})
  BY <1>3, <1>4
<1>6. \A b : b \in Elems(s) <=> \E p \in peers : b = Enter({SparseMode(p.vlan)})
  BY <1>1, <1>5
<1> QED
  BY <1>4, <1>6 DEF s

LEMMA SviElems ==
  ASSUME NEW i, NEW d, NEW vn, IsFiniteSet(i.pools)
  PROVE  /\ IsSequence(SviBlocks(i, d, vn))
         /\ \A b : b \in Elems(SviBlocks(i, d, vn)) <=>
                     d \in Edges(i) /\ \E p \in PoolsOf(i, vn) : b = Enter(SviLines(p))
<1> DEFINE pools == IF d \in Edges(i) THEN PoolsOf(i, vn) ELSE {}
           at == Ordered(pools)
           s == SviBlocks(i, d, vn)
<1>0. IsFiniteSet(pools)
  <2>1. pools \in SUBSET i.pools
    BY DEF PoolsOf
  <2> QED
    BY <2>1, FS_Subset
<1>2. s = [n \in 1..Len(at) |-> Enter(SviLines(at[n]))]
  BY DEF SviBlocks
<1> HIDE DEF pools
<1>1. /\ Len(at) \in Nat /\ \A n \in 1..Len(at) : at[n] \in pools
      /\ \A x \in pools : \E n \in 1..Len(at) : at[n] = x
  BY <1>0, OrderedElems
<1> HIDE DEF at, s
<1>3. s = [n \in 1..Len(at) |-> s[n]] /\ \A n \in 1..Len(at) : s[n] = Enter(SviLines(at[n]))
  BY <1>2
<1>4. IsSequence(s) /\ Elems(s) = {s[n] : n \in 1..Len(at)}
  BY <1>1, <1>3, SequenceOfFunction
<1>5. \A b : b \in Elems(s) <=> \E n \in 1..Len(at) : b = Enter(SviLines(at[n]))
  BY <1>3, <1>4
<1>6. \A b : b \in Elems(s) <=> \E p \in pools : b = Enter(SviLines(p))
  BY <1>1, <1>5
<1> QED
  BY <1>4, <1>6 DEF s, pools

LEMMA EdgeElems ==
  ASSUME NEW i, NEW d, IsFiniteSet(i.pools)
  PROVE  /\ IsSequence(EdgeOverlayBlocks(i, d))
         /\ \A b : b \in Elems(EdgeOverlayBlocks(i, d)) <=>
                     /\ d \in Edges(i)
                     /\ \E p \in i.pools : b = GatewayBlock(p) \/ b = InstanceBlock(i, p)
<1> DEFINE pools == IF d \in Edges(i) THEN i.pools ELSE {}
           at == Ordered(pools)
           seqs == [n \in 1..Len(at) |-> <<GatewayBlock(at[n]), InstanceBlock(i, at[n])>>]
           s == EdgeOverlayBlocks(i, d)
<1>0. IsFiniteSet(pools)
  BY FS_EmptySet
<1>2. s = FlattenSeq(seqs)
  BY DEF EdgeOverlayBlocks, GatewayBlock, InstanceBlock
<1> HIDE DEF pools
<1>1. /\ Len(at) \in Nat /\ \A n \in 1..Len(at) : at[n] \in pools
      /\ \A x \in pools : \E n \in 1..Len(at) : at[n] = x
  BY <1>0, OrderedElems
<1> HIDE DEF at, s
<1>3. /\ seqs = [n \in 1..Len(at) |-> seqs[n]]
      /\ \A n \in 1..Len(at) : seqs[n] = <<GatewayBlock(at[n]), InstanceBlock(i, at[n])>>
  OBVIOUS
<1> HIDE DEF seqs
<1>4. IsSequence(seqs) /\ Len(seqs) = Len(at)
  BY <1>1, <1>3, SequenceOfFunction
<1>5. \A n \in 1..Len(seqs) :
        IsSequence(seqs[n]) /\ Elems(seqs[n]) = {GatewayBlock(at[n]), InstanceBlock(i, at[n])}
  <2> TAKE n \in 1..Len(seqs)
  <2>1. seqs[n] = <<GatewayBlock(at[n]), InstanceBlock(i, at[n])>>
    BY <1>3, <1>4
  <2>2. \A x, y : IsSequence(<<x, y>>) /\ Elems(<<x, y>>) = {x, y}
    BY ElemsPair
  <2> QED
    BY <2>1, <2>2
<1>6. IsSequence(s) /\ \A b : b \in Elems(s) <=> \E n \in 1..Len(seqs) : b \in Elems(seqs[n])
  BY <1>2, <1>4, <1>5, ElemsFlatten
<1>7. \A b : b \in Elems(s) <=> \E n \in 1..Len(at) : b = GatewayBlock(at[n])
                                                     \/ b = InstanceBlock(i, at[n])
  <2>1. \A n \in 1..Len(at) : \A b : b \in Elems(seqs[n]) <=>
          b = GatewayBlock(at[n]) \/ b = InstanceBlock(i, at[n])
    BY <1>4, <1>5
  <2>2. \A b : b \in Elems(s) <=> \E n \in 1..Len(at) : b \in Elems(seqs[n])
    BY <1>4, <1>6
  <2> QED
    BY <2>1, <2>2
<1>8. \A b : b \in Elems(s) <=> \E p \in pools : b = GatewayBlock(p) \/ b = InstanceBlock(i, p)
  BY <1>1, <1>7
<1> QED
  BY <1>6, <1>8 DEF s, pools

LEMMA UnderlayElems ==
  ASSUME NEW i, NEW d
  PROVE  /\ IsSequence(UnderlayBlocks(i, d))
         /\ \A b : b \in Elems(UnderlayBlocks(i, d)) <=>
                     /\ i.enabled /\ d \in i.rps /\ i.rpAddress # None
                     /\ \/ b = RpBlock(i)
                        \/ i.rpMode = "anycast" /\ i.rps \ {d} # {} /\ b = MsdpBlock(i, d)
<1>1. UnderlayBlocks(i, d) =
        IF ~i.enabled \/ d \notin i.rps \/ i.rpAddress = None THEN <<>>
        ELSE <<RpBlock(i)>> \o IF i.rpMode # "anycast" \/ i.rps \ {d} = {} THEN <<>>
                               ELSE <<MsdpBlock(i, d)>>
  BY DEF UnderlayBlocks, RpBlock, MsdpBlock
<1>2. CASE ~i.enabled \/ d \notin i.rps \/ i.rpAddress = None
  BY <1>1, <1>2, ElemsPair
<1>3. CASE ~(~i.enabled \/ d \notin i.rps \/ i.rpAddress = None)
  <2> DEFINE t == IF i.rpMode # "anycast" \/ i.rps \ {d} = {} THEN <<>> ELSE <<MsdpBlock(i, d)>>
  <2>1. /\ IsSequence(t)
        /\ \A b : b \in Elems(t) <=>
                    i.rpMode = "anycast" /\ i.rps \ {d} # {} /\ b = MsdpBlock(i, d)
    <3>1. IsSequence(<<>>) /\ Elems(<<>>) = {}
      BY ElemsPair
    <3>2. \A x : IsSequence(<<x>>) /\ Elems(<<x>>) = {x}
      BY ElemsPair
    <3>3. CASE i.rpMode # "anycast" \/ i.rps \ {d} = {}
      BY <3>1, <3>3
    <3>4. CASE ~(i.rpMode # "anycast" \/ i.rps \ {d} = {})
      BY <3>2, <3>4
    <3> QED
      BY <3>3, <3>4
  <2>2. UnderlayBlocks(i, d) = <<RpBlock(i)>> \o t
    BY <1>1, <1>3
  <2> HIDE DEF t
  <2>3. IsSequence(<<RpBlock(i)>>) /\ Elems(<<RpBlock(i)>>) = {RpBlock(i)}
    BY ElemsPair
  <2>4. /\ IsSequence(UnderlayBlocks(i, d))
        /\ Elems(UnderlayBlocks(i, d)) = {RpBlock(i)} \cup Elems(t)
    BY <2>1, <2>2, <2>3, ElemsConcat
  <2> QED
    BY <1>3, <2>1, <2>4
<1> QED
  BY <1>2, <1>3

\* What the multicast phase sends for one network.
OfNetwork(i, d, vn, b) ==
  \/ b = PolicyBlock(i, d, vn)
  \/ b \in Elems(SegmentBlocks(i, d, vn))
  \/ d \in Edges(i) /\ \E p \in PoolsOf(i, vn) : b = Enter(SviLines(p))
  \/ \E p \in PeersOf(i, vn) : p.device = d /\ b = Enter({SparseMode(p.vlan)})

OfFusion(i, d, vn, b) ==
  \/ b = PolicyBlock(i, d, vn)
  \/ \E p \in PeersOf(i, vn) : p.fusion = d /\ b = Enter({SparseMode(p.vlan)})

\* The blocks of the networks are flattened in the order of at.
LEMMA PerNetwork ==
  ASSUME NEW S, IsFiniteSet(S), NEW seqs, NEW P,
         seqs = [n \in 1..Len(Ordered(S)) |-> seqs[n]],
         \A n \in 1..Len(Ordered(S)) :
           IsSequence(seqs[n]) /\ Elems(seqs[n]) = P[Ordered(S)[n]]
  PROVE  /\ IsSequence(FlattenSeq(seqs)) /\ IsSequence(seqs)
         /\ \A b : b \in Elems(FlattenSeq(seqs)) <=> \E x \in S : b \in P[x]
<1> DEFINE at == Ordered(S)
<1>1. /\ Len(at) \in Nat /\ \A n \in 1..Len(at) : at[n] \in S
      /\ \A x \in S : \E n \in 1..Len(at) : at[n] = x
  BY OrderedElems
<1> HIDE DEF at
<1>2. seqs = [n \in 1..Len(at) |-> seqs[n]]
      /\ \A n \in 1..Len(at) : IsSequence(seqs[n]) /\ Elems(seqs[n]) = P[at[n]]
  BY DEF at
<1>3. IsSequence(seqs) /\ Len(seqs) = Len(at)
  BY <1>1, <1>2, SequenceOfFunction
<1>4. /\ IsSequence(FlattenSeq(seqs))
      /\ \A b : b \in Elems(FlattenSeq(seqs)) <=> \E n \in 1..Len(seqs) : b \in Elems(seqs[n])
  BY <1>2, <1>3, ElemsFlatten
<1>5. \A b : b \in Elems(FlattenSeq(seqs)) <=> \E n \in 1..Len(at) : b \in P[at[n]]
  <2>1. \A b : b \in Elems(FlattenSeq(seqs)) <=> \E n \in 1..Len(at) : b \in Elems(seqs[n])
    BY <1>3, <1>4
  <2>2. \A n \in 1..Len(at) : \A b : b \in Elems(seqs[n]) <=> b \in P[at[n]]
    BY <1>2
  <2> QED
    BY <2>1, <2>2
<1> QED
  BY <1>1, <1>3, <1>4, <1>5

LEMMA SegmentSequence ==
  \A i, d, vn : IsSequence(SegmentBlocks(i, d, vn)) /\ Len(SegmentBlocks(i, d, vn)) = 3
BY ElemsPair DEF SegmentBlocks

NetworkBlocks(i, d, vn) ==
  <<PolicyBlock(i, d, vn)>> \o SegmentBlocks(i, d, vn) \o SviBlocks(i, d, vn)
    \o SparseModeBlocks({p \in PeersOf(i, vn) : p.device = d})

FusionBlocks(i, d, vn) ==
  <<PolicyBlock(i, d, vn)>> \o SparseModeBlocks({p \in PeersOf(i, vn) : p.fusion = d})

LEMMA NetworkElems ==
  ASSUME NEW i, NEW d, NEW vn, IsFiniteSet(i.pools), IsFiniteSet(i.peers)
  PROVE  /\ IsSequence(NetworkBlocks(i, d, vn))
         /\ \A b : b \in Elems(NetworkBlocks(i, d, vn)) <=> OfNetwork(i, d, vn, b)
         /\ IsSequence(FusionBlocks(i, d, vn))
         /\ \A b : b \in Elems(FusionBlocks(i, d, vn)) <=> OfFusion(i, d, vn, b)
<1> DEFINE peers == {p \in PeersOf(i, vn) : p.device = d}
           others == {p \in PeersOf(i, vn) : p.fusion = d}
           one == <<PolicyBlock(i, d, vn)>>
           two == SegmentBlocks(i, d, vn)
           three == SviBlocks(i, d, vn)
           four == SparseModeBlocks(peers)
           five == SparseModeBlocks(others)
<1>1. IsFiniteSet(peers) /\ IsFiniteSet(others)
  <2>1. peers \in SUBSET i.peers /\ others \in SUBSET i.peers
    BY DEF PeersOf
  <2> QED
    BY <2>1, FS_Subset
<1>2. IsSequence(one) /\ Elems(one) = {PolicyBlock(i, d, vn)}
  BY ElemsPair
<1>3. IsSequence(two)
  BY SegmentSequence
<1>4. /\ IsSequence(three)
      /\ \A b : b \in Elems(three) <=>
                  d \in Edges(i) /\ \E p \in PoolsOf(i, vn) : b = Enter(SviLines(p))
  BY SviElems
<1>5. /\ IsSequence(four)
      /\ \A b : b \in Elems(four) <=> \E p \in peers : b = Enter({SparseMode(p.vlan)})
  <2> HIDE DEF peers
  <2> QED
    BY <1>1, SparseElems
<1>6. /\ IsSequence(five)
      /\ \A b : b \in Elems(five) <=> \E p \in others : b = Enter({SparseMode(p.vlan)})
  <2> HIDE DEF others
  <2> QED
    BY <1>1, SparseElems
<1>7. NetworkBlocks(i, d, vn) = one \o two \o three \o four /\ FusionBlocks(i, d, vn) = one \o five
  BY DEF NetworkBlocks, FusionBlocks
<1>8. \A b : (\E p \in peers : b = Enter({SparseMode(p.vlan)})) <=>
               \E p \in PeersOf(i, vn) : p.device = d /\ b = Enter({SparseMode(p.vlan)})
  OBVIOUS
<1>9. \A b : (\E p \in others : b = Enter({SparseMode(p.vlan)})) <=>
               \E p \in PeersOf(i, vn) : p.fusion = d /\ b = Enter({SparseMode(p.vlan)})
  OBVIOUS
<1> HIDE DEF peers, others, one, two, three, four, five
<1>10. IsSequence(one \o two) /\ Elems(one \o two) = Elems(one) \cup Elems(two)
  BY <1>2, <1>3, ElemsConcat
<1>11. /\ IsSequence(one \o two \o three)
       /\ Elems(one \o two \o three) = Elems(one) \cup Elems(two) \cup Elems(three)
  BY <1>4, <1>10, ElemsConcat
<1>12. /\ IsSequence(one \o two \o three \o four)
       /\ Elems(one \o two \o three \o four) =
            Elems(one) \cup Elems(two) \cup Elems(three) \cup Elems(four)
  BY <1>5, <1>11, ElemsConcat
<1>13. IsSequence(one \o five) /\ Elems(one \o five) = Elems(one) \cup Elems(five)
  BY <1>2, <1>6, ElemsConcat
<1>14. Elems(two) = Elems(SegmentBlocks(i, d, vn))
  BY DEF two
<1> QED
  BY <1>2, <1>4, <1>5, <1>6, <1>7, <1>8, <1>9, <1>12, <1>13, <1>14 DEF OfNetwork, OfFusion

LEMMA MulticastElems ==
  ASSUME NEW i, NEW d, IsFiniteSet(i.pools), IsFiniteSet(i.peers), IsFiniteSet(Networks(i))
  PROVE  /\ IsSequence(MulticastBlocks(i, d))
         /\ \A b : b \in Elems(MulticastBlocks(i, d)) <=>
              /\ Native(i)
              /\ \/ /\ d \in i.devices
                    /\ \E vn \in Networks(i) : d \in Segments(i, vn) /\ OfNetwork(i, d, vn, b)
                 \/ /\ d \in i.fusion /\ d \notin i.devices
                    /\ \E vn \in Networks(i) : d \in FusionOf(i, vn) /\ OfFusion(i, d, vn, b)
<1> DEFINE S == {v \in Networks(i) : d \in Segments(i, v)}
           F == {v \in Networks(i) : d \in FusionOf(i, v)}
<1>0. IsFiniteSet(S) /\ IsFiniteSet(F)
  BY FS_Subset
<1>1. /\ IsSequence(MulticastOverlayBlocks(i, d))
      /\ \A b : b \in Elems(MulticastOverlayBlocks(i, d)) <=> \E vn \in S : OfNetwork(i, d, vn, b)
  <2> DEFINE seqs == [n \in 1..Len(Ordered(S)) |-> NetworkBlocks(i, d, Ordered(S)[n])]
             P == [vn \in S |-> Elems(NetworkBlocks(i, d, vn))]
  <2>1. MulticastOverlayBlocks(i, d) = FlattenSeq(seqs)
    BY DEF MulticastOverlayBlocks, NetworkBlocks
  <2> HIDE DEF S
  <2>2. \A n \in 1..Len(Ordered(S)) : Ordered(S)[n] \in S
    BY <1>0, OrderedElems
  <2>3. /\ \A n \in 1..Len(Ordered(S)) : seqs[n] = NetworkBlocks(i, d, Ordered(S)[n])
        /\ \A vn \in S : P[vn] = Elems(NetworkBlocks(i, d, vn))
    OBVIOUS
  <2>7. seqs = [n \in 1..Len(Ordered(S)) |-> seqs[n]]
    OBVIOUS
  <2> HIDE DEF seqs, P
  <2>4. \A n \in 1..Len(Ordered(S)) : IsSequence(seqs[n]) /\ Elems(seqs[n]) = P[Ordered(S)[n]]
    BY <2>2, <2>3, NetworkElems
  <2>5. /\ IsSequence(FlattenSeq(seqs))
        /\ \A b : b \in Elems(FlattenSeq(seqs)) <=> \E vn \in S : b \in P[vn]
    BY <1>0, <2>4, <2>7, PerNetwork
  <2>6. \A vn \in S : \A b : b \in P[vn] <=> OfNetwork(i, d, vn, b)
    BY <2>3, NetworkElems
  <2> QED
    BY <2>1, <2>5, <2>6
<1>2. /\ IsSequence(FusionMulticastBlocks(i, d))
      /\ \A b : b \in Elems(FusionMulticastBlocks(i, d)) <=> \E vn \in F : OfFusion(i, d, vn, b)
  <2> DEFINE seqs == [n \in 1..Len(Ordered(F)) |-> FusionBlocks(i, d, Ordered(F)[n])]
             P == [vn \in F |-> Elems(FusionBlocks(i, d, vn))]
  <2>1. FusionMulticastBlocks(i, d) = FlattenSeq(seqs)
    BY DEF FusionMulticastBlocks, FusionBlocks
  <2> HIDE DEF F
  <2>2. \A n \in 1..Len(Ordered(F)) : Ordered(F)[n] \in F
    BY <1>0, OrderedElems
  <2>3. /\ \A n \in 1..Len(Ordered(F)) : seqs[n] = FusionBlocks(i, d, Ordered(F)[n])
        /\ \A vn \in F : P[vn] = Elems(FusionBlocks(i, d, vn))
    OBVIOUS
  <2>7. seqs = [n \in 1..Len(Ordered(F)) |-> seqs[n]]
    OBVIOUS
  <2> HIDE DEF seqs, P
  <2>4. \A n \in 1..Len(Ordered(F)) : IsSequence(seqs[n]) /\ Elems(seqs[n]) = P[Ordered(F)[n]]
    BY <2>2, <2>3, NetworkElems
  <2>5. /\ IsSequence(FlattenSeq(seqs))
        /\ \A b : b \in Elems(FlattenSeq(seqs)) <=> \E vn \in F : b \in P[vn]
    BY <1>0, <2>4, <2>7, PerNetwork
  <2>6. \A vn \in F : \A b : b \in P[vn] <=> OfFusion(i, d, vn, b)
    BY <2>3, NetworkElems
  <2> QED
    BY <2>1, <2>5, <2>6
<1>3. /\ \A b : (\E vn \in S : OfNetwork(i, d, vn, b)) <=>
                  \E vn \in Networks(i) : d \in Segments(i, vn) /\ OfNetwork(i, d, vn, b)
      /\ \A b : (\E vn \in F : OfFusion(i, d, vn, b)) <=>
                  \E vn \in Networks(i) : d \in FusionOf(i, vn) /\ OfFusion(i, d, vn, b)
  OBVIOUS
<1>4. IsSequence(<<>>) /\ Elems(<<>>) = {}
  BY ElemsPair
<1> HIDE DEF S, F
<1> QED
  BY <1>1, <1>2, <1>3, <1>4 DEF MulticastBlocks

-----------------------------------------------------------------------------
(* The manifest and the renderer, written in two places, name one set of    *)
(* lines.                                                                   *)

LinesOf(R) == UNION {r.lines : r \in R}

LEMMA LinesOfElement ==
  \A R, l : l \in LinesOf(R) <=> \E r \in R : l \in r.lines
BY DEF LinesOf

LEMMA ResourceLines ==
  /\ \A key, order, sec, texts, l :
       l \in WholeSection(key, order, sec, texts).lines <=>
         l = Header(sec) \/ \E t \in texts : l = Line(sec, t)
  /\ \A key, order, lines : ExactLines(key, order, lines).lines = lines
  /\ \A add : Enter(add) = Block({}, {}, add) /\ Enter(add).add = add
              /\ Enter(add).drop = {} /\ Enter(add).minus = {}
BY DEF WholeSection, ExactLines, Enter, Block

LEMMA RpLines ==
  ASSUME NEW i, NEW d, NEW l
  PROVE  l \in LinesOf(RpResources(i, d)) <=>
           /\ d \in i.rps /\ i.rpAddress # None
           /\ \/ l \in RpBlock(i).add
              \/ i.rpMode = "anycast" /\ i.rps \ {d} # {} /\ l \in MsdpBlock(i, d).add
<1> DEFINE peers == i.rps \ {d}
           pline(p) == Line(Global, <<"msdp", "peer", p>>)
           sline(x) == Line(Global, <<"msdp", x>>)
           peer(p) == ExactLines(<<"msdp_peer", p>>, 300, {pline(p)})
           setting(x) == ExactLines(<<"msdp", x>>, 250, {sline(x)})
           rp == WholeSection(<<"rp_loopback">>, 200, Loopback("rp"), {<<"address", i.rpAddress>>})
           P == {peer(p) : p \in peers}
           X == {setting(x) : x \in {"cache", "originator"}}
<1>1. RpResources(i, d) =
        IF d \notin i.rps \/ i.rpAddress = None THEN {}
        ELSE {rp} \cup IF i.rpMode # "anycast" \/ peers = {} THEN {} ELSE P \cup X
  BY DEF RpResources
<1>2. /\ \A m : m \in rp.lines <=> m \in RpBlock(i).add
      /\ \A p : peer(p).lines = {pline(p)}
      /\ \A x : setting(x).lines = {sline(x)}
  <2>1. RpBlock(i).add = {Header(Loopback("rp")), Line(Loopback("rp"), <<"address", i.rpAddress>>)}
    BY DEF RpBlock, Enter, Block
  <2>2. rp.lines = {Header(Loopback("rp"))} \cup
                     {Line(Loopback("rp"), t) : t \in {<<"address", i.rpAddress>>}}
    BY DEF WholeSection
  <2> QED
    BY <2>1, <2>2, ResourceLines
<1>3. MsdpBlock(i, d).add = {pline(p) : p \in peers} \cup {sline(x) : x \in {"cache", "originator"}}
  BY DEF MsdpBlock, Enter, Block
<1> HIDE DEF rp, peer, setting, pline, sline, peers
<1>4. /\ \A r : r \in P <=> \E p \in peers : r = peer(p)
      /\ \A r : r \in X <=> \E x \in {"cache", "originator"} : r = setting(x)
      /\ \A m : m \in MsdpBlock(i, d).add <=>
                  \/ \E p \in peers : m = pline(p)
                  \/ \E x \in {"cache", "originator"} : m = sline(x)
  BY <1>3
<1> HIDE DEF P, X
<1>5. (\E r \in P \cup X : l \in r.lines) <=> l \in MsdpBlock(i, d).add
  <2>1. (\E r \in P : l \in r.lines) <=> \E p \in peers : l = pline(p)
    BY <1>2, <1>4
  <2>2. (\E r \in X : l \in r.lines) <=> \E x \in {"cache", "originator"} : l = sline(x)
    BY <1>2, <1>4
  <2> QED
    BY <1>4, <2>1, <2>2
<1>6. l \in LinesOf(RpResources(i, d)) <=> \E r \in RpResources(i, d) : l \in r.lines
  BY LinesOfElement
<1>7. peers = i.rps \ {d}
  BY DEF peers
<1>8. CASE d \notin i.rps \/ i.rpAddress = None
  BY <1>1, <1>6, <1>8
<1>9. CASE ~(d \notin i.rps \/ i.rpAddress = None)
  <2>1. CASE i.rpMode # "anycast" \/ peers = {}
    BY <1>1, <1>2, <1>6, <1>7, <1>9, <2>1
  <2>2. CASE ~(i.rpMode # "anycast" \/ peers = {})
    BY <1>1, <1>2, <1>5, <1>6, <1>7, <1>9, <2>2
  <2> QED
    BY <2>1, <2>2
<1> QED
  BY <1>8, <1>9

\* What the access list of a network consists of.
AclLines(i, vn) ==
  {Header(Acl(i.policies[vn].acl)), Line(Acl(i.policies[vn].acl), <<"permit", i.policies[vn].group>>)}

LEMMA PolicyParts ==
  ASSUME NEW i, NEW d, NEW vn
  PROVE  PolicyBlock(i, d, vn) =
           Block({Acl(i.policies[vn].acl)}, {},
                 {Line(Global, <<"routing", vn>>)} \cup AclLines(i, vn) \cup PolicyLines(i, d, vn))
<1>1. {Line(Global, <<"routing", vn>>), Header(Acl(i.policies[vn].acl)),
       Line(Acl(i.policies[vn].acl), <<"permit", i.policies[vn].group>>)} =
      {Line(Global, <<"routing", vn>>)} \cup AclLines(i, vn)
  BY DEF AclLines
<1> QED
  BY <1>1 DEF PolicyBlock

LEMMA BlockFields ==
  \A drop, minus, add :
    LET b == Block(drop, minus, add) IN b.drop = drop /\ b.minus = minus /\ b.add = add
BY DEF Block

LEMMA PolicyAdds ==
  \A i, d, vn :
    PolicyBlock(i, d, vn).add =
      {Line(Global, <<"routing", vn>>)} \cup AclLines(i, vn) \cup PolicyLines(i, d, vn)
<1> TAKE i, d, vn
<1> DEFINE add == {Line(Global, <<"routing", vn>>)} \cup AclLines(i, vn) \cup PolicyLines(i, d, vn)
           acl == Acl(i.policies[vn].acl)
<1>1. PolicyBlock(i, d, vn) = Block({acl}, {}, add)
  BY Zenon, PolicyParts
<1> HIDE DEF add, acl
<1>2. PolicyBlock(i, d, vn).add = add
  BY <1>1, BlockFields
<1> QED
  BY <1>2 DEF add

LEMMA PolicyNegates ==
  \A i, d, vn :
    LET b   == PolicyBlock(i, d, vn)
        acl == Acl(i.policies[vn].acl)
    IN  b.drop = {acl} /\ b.minus = {} /\ b = Block({acl}, {}, b.add)
<1> TAKE i, d, vn
<1> DEFINE add == {Line(Global, <<"routing", vn>>)} \cup AclLines(i, vn) \cup PolicyLines(i, d, vn)
           acl == Acl(i.policies[vn].acl)
           b   == PolicyBlock(i, d, vn)
<1>1. b = Block({acl}, {}, add)
  BY Zenon, PolicyParts
<1> HIDE DEF add, acl, b
<1>2. b.drop = {acl} /\ b.minus = {} /\ b = Block({acl}, {}, b.add)
  BY <1>1, BlockFields
<1> QED
  BY Zenon, <1>2 DEF acl, b

LEMMA PolicyOwned ==
  ASSUME NEW i, NEW d, NEW vn, NEW l
  PROVE  l \in LinesOf(PolicyResources(i, d, vn)) <=> l \in PolicyBlock(i, d, vn).add
<1> DEFINE routing == ExactLines(<<"routing", vn>>, 400, {Line(Global, <<"routing", vn>>)})
           acl == WholeSection(<<"acl", vn>>, 500, Acl(i.policies[vn].acl),
                               {<<"permit", i.policies[vn].group>>})
           policy == ExactLines(<<"policy", vn>>, 600, PolicyLines(i, d, vn))
<1>1. PolicyResources(i, d, vn) = {routing, acl, policy}
  BY DEF PolicyResources
<1>2. routing.lines = {Line(Global, <<"routing", vn>>)} /\ policy.lines = PolicyLines(i, d, vn)
  BY DEF ExactLines
<1>3. acl.lines = AclLines(i, vn)
  <2>1. acl.lines = {Header(Acl(i.policies[vn].acl))} \cup
          {Line(Acl(i.policies[vn].acl), t) : t \in {<<"permit", i.policies[vn].group>>}}
    BY DEF WholeSection
  <2> QED
    BY <2>1 DEF AclLines
<1> HIDE DEF routing, acl, policy
<1>4. l \in LinesOf(PolicyResources(i, d, vn)) <=>
        l \in routing.lines \/ l \in acl.lines \/ l \in policy.lines
  BY <1>1, LinesOfElement
<1>5. l \in PolicyBlock(i, d, vn).add <=>
        \/ l \in {Line(Global, <<"routing", vn>>)} \/ l \in AclLines(i, vn)
        \/ l \in PolicyLines(i, d, vn)
  <2>1. PolicyBlock(i, d, vn).add =
          {Line(Global, <<"routing", vn>>)} \cup AclLines(i, vn) \cup PolicyLines(i, d, vn)
    BY Zenon, PolicyAdds
  <2> QED
    BY <2>1
<1> QED
  BY <1>2, <1>3, <1>4, <1>5

LEMMA SegmentOwned ==
  ASSUME NEW i, NEW d, NEW vn, NEW l
  PROVE  l \in LinesOf(SegmentResources(i, d, vn)) <=>
           \E b \in Elems(SegmentBlocks(i, d, vn)) : l \in b.add
<1> DEFINE x == i.policies[vn].segment[d]
           c == i.policies[vn].core
           address == WholeSection(<<"segment_loopback", vn>>, 700, Loopback(vn), {<<"address", x>>})
           port == WholeSection(<<"lisp_interface", vn>>, 750, LispPort(vn),
                                {<<"transport">>, <<"core", c>>})
           mapping == ExactLines(<<"lisp_mapping", vn>>, 800, {Line(Lisp(vn), <<"mapping", x>>)})
           A == {Header(Loopback(vn)), Line(Loopback(vn), <<"address", x>>)}
           B == {Header(LispPort(vn)), Line(LispPort(vn), <<"transport">>),
                 Line(LispPort(vn), <<"core", c>>)}
           C == {Line(Lisp(vn), <<"mapping", x>>)}
<1>1. SegmentResources(i, d, vn) = {address, port, mapping}
  BY DEF SegmentResources
<1>2. SegmentBlocks(i, d, vn) = <<Enter(A), Enter(B), Enter(C)>>
  BY DEF SegmentBlocks
<1>3. address.lines = A
  BY DEF WholeSection
<1>4. port.lines = B
  <2> DEFINE T == {<<"transport">>, <<"core", c>>}
  <2>1. port.lines = {Header(LispPort(vn))} \cup {Line(LispPort(vn), t) : t \in T}
    BY DEF WholeSection
  <2>2. {Line(LispPort(vn), t) : t \in T} =
          {Line(LispPort(vn), <<"transport">>), Line(LispPort(vn), <<"core", c>>)}
    OBVIOUS
  <2> HIDE DEF T
  <2> QED
    BY <2>1, <2>2
<1>5. mapping.lines = C
  BY DEF ExactLines
<1> HIDE DEF address, port, mapping, A, B, C
<1>6. Elems(SegmentBlocks(i, d, vn)) = {Enter(A), Enter(B), Enter(C)}
  BY <1>2, ElemsPair
<1>7. Enter(A).add = A /\ Enter(B).add = B /\ Enter(C).add = C
  BY ResourceLines
<1> QED
  BY <1>1, <1>3, <1>4, <1>5, <1>6, <1>7, LinesOfElement

LEMMA SviOwned ==
  ASSUME NEW i, NEW d, NEW vn, NEW l
  PROVE  l \in LinesOf(SviResources(i, d, vn)) <=>
           d \in Edges(i) /\ \E p \in PoolsOf(i, vn) : l \in SviLines(p)
<1> DEFINE svi(p) == ExactLines(<<"edge_svi", p>>, 900, SviLines(p))
<1>1. \A p : svi(p).lines = SviLines(p)
  BY DEF ExactLines
<1>2. \A r : r \in SviResources(i, d, vn) <=>
               d \in Edges(i) /\ \E p \in PoolsOf(i, vn) : r = svi(p)
  BY DEF SviResources
<1> HIDE DEF svi
<1> QED
  BY <1>1, <1>2, LinesOfElement

LEMMA HandoffOwned ==
  ASSUME NEW i, NEW d, NEW vn, NEW l
  PROVE  l \in LinesOf(HandoffResources(i, d, vn)) <=>
           \E p \in PeersOf(i, vn) : (p.device = d \/ p.fusion = d) /\ l = SparseMode(p.vlan)
<1> DEFINE border(p) == ExactLines(<<"border_handoff", vn, p.vlan>>, 900, {SparseMode(p.vlan)})
           fusion(p) == ExactLines(<<"fusion_handoff", vn, p.vlan>>, 900, {SparseMode(p.vlan)})
           A == {border(p) : p \in {q \in PeersOf(i, vn) : q.device = d}}
           B == {fusion(p) : p \in {q \in PeersOf(i, vn) : q.fusion = d}}
<1>1. \A p : border(p).lines = {SparseMode(p.vlan)} /\ fusion(p).lines = {SparseMode(p.vlan)}
  BY DEF ExactLines
<1>2. HandoffResources(i, d, vn) = A \cup B
  BY DEF HandoffResources
<1> HIDE DEF border, fusion
<1>3. /\ \A r : r \in A <=> \E p \in PeersOf(i, vn) : p.device = d /\ r = border(p)
      /\ \A r : r \in B <=> \E p \in PeersOf(i, vn) : p.fusion = d /\ r = fusion(p)
  OBVIOUS
<1> HIDE DEF A, B
<1> QED
  BY <1>1, <1>2, <1>3, LinesOfElement

LEMMA BumOwned ==
  ASSUME NEW i, NEW d, NEW l
  PROVE  l \in LinesOf(BumResources(i, d)) <=>
           d \in Edges(i) /\ \E p \in DOMAIN i.bum : l = Line(Lisp(p), <<"underlay", i.bum[p]>>)
<1> DEFINE flood(p) == Line(Lisp(p), <<"underlay", i.bum[p]>>)
           bum(p) == ExactLines(<<"bum", p>>, 850, {flood(p)})
<1>1. \A p : bum(p).lines = {flood(p)}
  BY DEF ExactLines
<1>2. \A r : r \in BumResources(i, d) <=> d \in Edges(i) /\ \E p \in DOMAIN i.bum : r = bum(p)
  BY DEF BumResources
<1> HIDE DEF bum, flood
<1>3. l \in LinesOf(BumResources(i, d)) <=> d \in Edges(i) /\ \E p \in DOMAIN i.bum : l = flood(p)
  BY <1>1, <1>2, LinesOfElement
<1> QED
  BY <1>3 DEF flood

\* Where the owned lines of a node come from.
LEMMA OwnedLinesFrom ==
  ASSUME NEW i, NEW d, NEW l
  PROVE  l \in OwnedLines(i, d) <=>
           /\ Native(i)
           /\ \/ l \in LinesOf(RpResources(i, d))
              \/ l \in LinesOf(BumResources(i, d))
              \/ \E vn \in Networks(i) :
                   /\ d \in Segments(i, vn) \cup FusionOf(i, vn)
                   /\ l \in PolicyBlock(i, d, vn).add
              \/ \E vn \in Networks(i) :
                   /\ d \in Segments(i, vn)
                   /\ \/ l \in LinesOf(SegmentResources(i, d, vn))
                      \/ l \in LinesOf(SviResources(i, d, vn))
              \/ \E vn \in Networks(i) : l \in LinesOf(HandoffResources(i, d, vn))
<1>1. l \in OwnedLines(i, d) <=> \E r \in OwnedState(i, d) : l \in r.lines
  BY DEF OwnedLines
<1>2. \A vn : l \in PolicyBlock(i, d, vn).add <=> \E r \in PolicyResources(i, d, vn) : l \in r.lines
  BY PolicyOwned, LinesOfElement
<1>3. \A R : l \in LinesOf(R) <=> \E r \in R : l \in r.lines
  BY LinesOfElement
<1>4. \A r : r \in OwnedState(i, d) <=>
           /\ Native(i)
           /\ \/ r \in RpResources(i, d)
              \/ r \in BumResources(i, d)
              \/ \E vn \in Networks(i) :
                   /\ d \in Segments(i, vn) \cup FusionOf(i, vn)
                   /\ r \in PolicyResources(i, d, vn)
              \/ \E vn \in Networks(i) :
                   /\ d \in Segments(i, vn)
                   /\ r \in SegmentResources(i, d, vn) \cup SviResources(i, d, vn)
              \/ \E vn \in Networks(i) : r \in HandoffResources(i, d, vn)
  BY OwnedFrom
<1> QED
  BY ONLY <1>1, <1>2, <1>3, <1>4

-----------------------------------------------------------------------------
(* The blocks of a design. *)

DesignBlocks(i, d) ==
  Elems(UnderlayBlocks(i, d)) \cup Elems(EdgeOverlayBlocks(i, d))
    \cup Elems(BorderHandoffBlocks(i, d)) \cup Elems(FusionHandoffBlocks(i, d))
    \cup Elems(MulticastBlocks(i, d))

\* A block that negates nothing and enters no access list.
Plain(b) ==
  /\ b = Block({}, {}, b.add)
  /\ \A l \in b.add : IsLine(l) /\ l.sec[1] # "acl"

LEMMA PlainEnter ==
  ASSUME NEW add, \A l \in add : IsLine(l) /\ l.sec[1] # "acl"
  PROVE  Plain(Enter(add))
BY ResourceLines DEF Plain

LEMMA PlainBlocks ==
  /\ \A i : Plain(RpBlock(i))
  /\ \A i, d : Plain(MsdpBlock(i, d))
  /\ \A p : Plain(GatewayBlock(p)) /\ Plain(HandoffBlock(p))
            /\ Plain(Enter(SviLines(p))) /\ Plain(Enter({SparseMode(p.vlan)}))
  /\ \A i, p : Plain(InstanceBlock(i, p))
  /\ \A i, d, vn : \A b \in Elems(SegmentBlocks(i, d, vn)) : Plain(b)
<1>1. \A i : Plain(RpBlock(i))
  BY PlainEnter, LineFields, SectionsApart DEF RpBlock
<1>2. ASSUME NEW i, NEW d PROVE Plain(MsdpBlock(i, d))
  <2> DEFINE add == {Line(Global, <<"msdp", "peer", p>>) : p \in i.rps \ {d}}
                      \cup {Line(Global, <<"msdp", x>>) : x \in {"cache", "originator"}}
  <2>1. \A l \in add : \E t : l = Line(Global, t)
    OBVIOUS
  <2>2. MsdpBlock(i, d) = Enter(add)
    BY DEF MsdpBlock
  <2> HIDE DEF add
  <2> QED
    BY <2>1, <2>2, PlainEnter, LineFields, SectionsApart
<1>3. \A p : Plain(GatewayBlock(p)) /\ Plain(HandoffBlock(p))
  BY PlainEnter, LineFields, SectionsApart DEF GatewayBlock, HandoffBlock
<1>4. ASSUME NEW p PROVE Plain(Enter(SviLines(p)))
  <2>1. \A l \in SviLines(p) : \E t : l = Line(Vlan(p), t)
    BY DEF SviLines
  <2> QED
    BY <2>1, PlainEnter, LineFields, SectionsApart
<1>5. \A v : Plain(Enter({SparseMode(v)}))
  BY PlainEnter, LineFields, SectionsApart DEF SparseMode
<1>6. ASSUME NEW i, NEW p PROVE Plain(InstanceBlock(i, p))
  <2> DEFINE add == {Line(Lisp(p), <<"eid-table">>)} \cup
               IF p \in DOMAIN i.bum THEN {Line(Lisp(p), <<"underlay", i.bum[p]>>)} ELSE {}
  <2>1. \A l \in add : \E t : l = Line(Lisp(p), t)
    OBVIOUS
  <2>2. InstanceBlock(i, p) = Enter(add)
    BY DEF InstanceBlock
  <2> HIDE DEF add
  <2> QED
    BY <2>1, <2>2, PlainEnter, LineFields, SectionsApart
<1>7. ASSUME NEW i, NEW d, NEW vn, NEW b \in Elems(SegmentBlocks(i, d, vn)) PROVE Plain(b)
  <2> DEFINE x == i.policies[vn].segment[d]
             c == i.policies[vn].core
             A == {Header(Loopback(vn)), Line(Loopback(vn), <<"address", x>>)}
             B == {Header(LispPort(vn)), Line(LispPort(vn), <<"transport">>),
                   Line(LispPort(vn), <<"core", c>>)}
             C == {Line(Lisp(vn), <<"mapping", x>>)}
  <2>1. SegmentBlocks(i, d, vn) = <<Enter(A), Enter(B), Enter(C)>>
    BY DEF SegmentBlocks
  <2>2. /\ \A l \in A : IsLine(l) /\ l.sec[1] # "acl"
        /\ \A l \in B : IsLine(l) /\ l.sec[1] # "acl"
        /\ \A l \in C : IsLine(l) /\ l.sec[1] # "acl"
    BY LineFields, SectionsApart
  <2> HIDE DEF A, B, C
  <2>3. Elems(SegmentBlocks(i, d, vn)) = {Enter(A), Enter(B), Enter(C)}
    BY <2>1, ElemsPair
  <2>4. Plain(Enter(A)) /\ Plain(Enter(B)) /\ Plain(Enter(C))
    BY <2>2, PlainEnter
  <2> QED
    BY <2>3, <2>4
<1> QED
  BY <1>1, <1>2, <1>3, <1>4, <1>5, <1>6, <1>7

LEMMA PolicyBlockShape ==
  ASSUME NEW i, NEW d, NEW vn, NEW l \in PolicyBlock(i, d, vn).add
  PROVE  /\ IsLine(l)
         /\ l.sec[1] = "acl" => l.sec = Acl(i.policies[vn].acl)
<1>1. \/ l = Line(Global, <<"routing", vn>>) \/ l \in AclLines(i, vn)
      \/ l \in PolicyLines(i, d, vn)
  <2>1. PolicyBlock(i, d, vn).add =
          {Line(Global, <<"routing", vn>>)} \cup AclLines(i, vn) \cup PolicyLines(i, d, vn)
    BY Zenon, PolicyAdds
  <2> QED
    BY <2>1
<1>2. l \in PolicyLines(i, d, vn) => \E t : l = Line(Global, t)
  BY DEF PolicyLines
<1>3. l \in AclLines(i, vn) => IsLine(l) /\ l.sec = Acl(i.policies[vn].acl)
  BY LineFields DEF AclLines
<1> QED
  BY <1>1, <1>2, <1>3, LineFields, SectionsApart

FormOf(i) ==
  /\ i.devices \subseteq Devices /\ i.fusion \subseteq FusionNodes
  /\ i.devices \cap i.fusion = {}
  /\ i.transport \in {"native", "head_end"}
  /\ IsFiniteSet(i.rps) /\ IsFiniteSet(i.pools) /\ IsFiniteSet(i.peers)
  /\ IsFiniteSet(Networks(i))

LEMMA PlannableForm ==
  ASSUME NEW i \in Plannable
  PROVE  FormOf(i) /\ ValidIntent(i) /\ ValidManifest(i)
BY CandidateAssumption DEF Plannable, FormOf

\* Where the blocks of a design come from.
LEMMA DesignFrom ==
  ASSUME NEW i, FormOf(i), NEW d
  PROVE  /\ IsSequence(UnderlayBlocks(i, d)) /\ IsSequence(EdgeOverlayBlocks(i, d))
         /\ IsSequence(BorderHandoffBlocks(i, d)) /\ IsSequence(FusionHandoffBlocks(i, d))
         /\ IsSequence(MulticastBlocks(i, d))
         /\ \A b : b \in DesignBlocks(i, d) <=>
              \/ /\ i.enabled /\ d \in i.rps /\ i.rpAddress # None
                 /\ \/ b = RpBlock(i)
                    \/ i.rpMode = "anycast" /\ i.rps \ {d} # {} /\ b = MsdpBlock(i, d)
              \/ d \in Edges(i) /\ \E p \in i.pools : b = GatewayBlock(p) \/ b = InstanceBlock(i, p)
              \/ \E p \in i.peers : (p.device = d \/ p.fusion = d) /\ b = HandoffBlock(p)
              \/ /\ Native(i)
                 /\ \/ /\ d \in i.devices
                       /\ \E vn \in Networks(i) : d \in Segments(i, vn) /\ OfNetwork(i, d, vn, b)
                    \/ /\ d \in i.fusion /\ d \notin i.devices
                       /\ \E vn \in Networks(i) : d \in FusionOf(i, vn) /\ OfFusion(i, d, vn, b)
<1> DEFINE B == {p \in i.peers : p.device = d}
           F == {p \in i.peers : p.fusion = d}
<1>1. IsFiniteSet(B) /\ IsFiniteSet(F)
  BY FS_Subset DEF FormOf
<1>2. /\ \A p : p \in B <=> p \in i.peers /\ p.device = d
      /\ \A p : p \in F <=> p \in i.peers /\ p.fusion = d
  OBVIOUS
<1>3. BorderHandoffBlocks(i, d) = UnicastHandoff(B) /\ FusionHandoffBlocks(i, d) = UnicastHandoff(F)
  BY DEF BorderHandoffBlocks, FusionHandoffBlocks
<1> HIDE DEF B, F
<1>4. /\ IsSequence(BorderHandoffBlocks(i, d)) /\ IsSequence(FusionHandoffBlocks(i, d))
      /\ \A b : b \in Elems(BorderHandoffBlocks(i, d)) <=> \E p \in B : b = HandoffBlock(p)
      /\ \A b : b \in Elems(FusionHandoffBlocks(i, d)) <=> \E p \in F : b = HandoffBlock(p)
  BY <1>1, <1>3, HandoffElems
<1>5. /\ IsSequence(EdgeOverlayBlocks(i, d))
      /\ \A b : b \in Elems(EdgeOverlayBlocks(i, d)) <=>
                  d \in Edges(i) /\ \E p \in i.pools : b = GatewayBlock(p) \/ b = InstanceBlock(i, p)
  BY EdgeElems DEF FormOf
<1>6. /\ IsSequence(MulticastBlocks(i, d))
      /\ \A b : b \in Elems(MulticastBlocks(i, d)) <=>
           /\ Native(i)
           /\ \/ /\ d \in i.devices
                 /\ \E vn \in Networks(i) : d \in Segments(i, vn) /\ OfNetwork(i, d, vn, b)
              \/ /\ d \in i.fusion /\ d \notin i.devices
                 /\ \E vn \in Networks(i) : d \in FusionOf(i, vn) /\ OfFusion(i, d, vn, b)
  BY MulticastElems DEF FormOf
<1>7. \A b : b \in DesignBlocks(i, d) <=>
        \/ b \in Elems(UnderlayBlocks(i, d)) \/ b \in Elems(EdgeOverlayBlocks(i, d))
        \/ b \in Elems(BorderHandoffBlocks(i, d)) \/ b \in Elems(FusionHandoffBlocks(i, d))
        \/ b \in Elems(MulticastBlocks(i, d))
  BY DEF DesignBlocks
<1>8. /\ IsSequence(UnderlayBlocks(i, d))
      /\ \A b : b \in Elems(UnderlayBlocks(i, d)) <=>
           /\ i.enabled /\ d \in i.rps /\ i.rpAddress # None
           /\ \/ b = RpBlock(i)
              \/ i.rpMode = "anycast" /\ i.rps \ {d} # {} /\ b = MsdpBlock(i, d)
  BY UnderlayElems
<1> QED
  BY ONLY <1>2, <1>4, <1>5, <1>6, <1>7, <1>8

\* Only a policy block negates anything, its own access list.
LEMMA DesignKinds ==
  ASSUME NEW i, FormOf(i), NEW d, NEW b \in DesignBlocks(i, d)
  PROVE  Plain(b) \/ \E vn \in Networks(i) : b = PolicyBlock(i, d, vn)
<1>1. \/ b = RpBlock(i) \/ b = MsdpBlock(i, d)
      \/ \E p \in i.pools : b = GatewayBlock(p) \/ b = InstanceBlock(i, p)
      \/ \E p \in i.peers : b = HandoffBlock(p)
      \/ \E vn \in Networks(i) : OfNetwork(i, d, vn, b) \/ OfFusion(i, d, vn, b)
  BY DesignFrom
<1>2. ASSUME NEW vn \in Networks(i), OfNetwork(i, d, vn, b) \/ OfFusion(i, d, vn, b)
      PROVE  b = PolicyBlock(i, d, vn) \/ Plain(b)
  BY <1>2, PlainBlocks DEF OfNetwork, OfFusion
<1> QED
  BY <1>1, <1>2, PlainBlocks

Startable(i) == Native(i) \/ ~i.enabled

\* What the renderer enters is unicast, or a line of the manifest.
LEMMA EnteredOwned ==
  ASSUME NEW i \in Plannable, Startable(i), NEW d,
         NEW b \in DesignBlocks(i, d), NEW l \in b.add
  PROVE  IsLine(l) /\ (Unicast(l) \/ l \in OwnedLines(i, d))
<1>1. FormOf(i) /\ ValidIntent(i)
  BY PlannableForm
<1>2. IsLine(l)
  BY <1>1, DesignKinds, PolicyBlockShape DEF Plain
<1>3. CASE /\ i.enabled /\ d \in i.rps /\ i.rpAddress # None
           /\ \/ b = RpBlock(i)
              \/ i.rpMode = "anycast" /\ i.rps \ {d} # {} /\ b = MsdpBlock(i, d)
  <2>1. Native(i)
    BY <1>3 DEF Startable
  <2>2. l \in LinesOf(RpResources(i, d))
    BY <1>3, RpLines
  <2> QED
    BY <1>2, <2>1, <2>2, OwnedLinesFrom
<1>4. CASE d \in Edges(i) /\ \E p \in i.pools : b = GatewayBlock(p) \/ b = InstanceBlock(i, p)
  <2>1. PICK p \in i.pools : b = GatewayBlock(p) \/ b = InstanceBlock(i, p)
    BY <1>4
  <2>2. CASE b = GatewayBlock(p)
    <3>1. b.add = {Header(Vlan(p)), Line(Vlan(p), <<"gateway", NetworkOf[p]>>)}
      BY <2>2, ResourceLines DEF GatewayBlock
    <3>2. l = Header(Vlan(p)) \/ l = Line(Vlan(p), <<"gateway", NetworkOf[p]>>)
      BY <3>1
    <3>3. l.sec[1] = "vlan" /\ l.text[1] \in {"header", "gateway"}
      BY <3>2, LineFields, SectionsApart
    <3> QED
      BY <1>2, <3>3 DEF Unicast
  <2>3. CASE b = InstanceBlock(i, p)
    <3> DEFINE flood == Line(Lisp(p), <<"underlay", i.bum[p]>>)
    <3>1. b.add = {Line(Lisp(p), <<"eid-table">>)} \cup IF p \in DOMAIN i.bum THEN {flood} ELSE {}
      BY <2>3, ResourceLines DEF InstanceBlock
    <3> HIDE DEF flood
    <3>2. l = Line(Lisp(p), <<"eid-table">>) \/ (p \in DOMAIN i.bum /\ l = flood)
      BY <3>1
    <3>3. CASE l = Line(Lisp(p), <<"eid-table">>)
      <4>1. l.sec[1] = "lisp" /\ l.text[1] = "eid-table"
        BY <3>3, LineFields, SectionsApart
      <4> QED
        BY <1>2, <4>1 DEF Unicast
    <3>4. CASE p \in DOMAIN i.bum /\ l = flood
      <4>1. Native(i)
        BY <1>1, <3>4 DEF ValidIntent, ValidBum
      <4>2. l \in LinesOf(BumResources(i, d))
        BY <1>4, <3>4, BumOwned DEF flood
      <4> QED
        BY <1>2, <4>1, <4>2, OwnedLinesFrom
    <3> QED
      BY <3>2, <3>3, <3>4
  <2> QED
    BY <2>1, <2>2, <2>3
<1>5. CASE \E p \in i.peers : (p.device = d \/ p.fusion = d) /\ b = HandoffBlock(p)
  <2>1. PICK p \in i.peers : b = HandoffBlock(p)
    BY <1>5
  <2>2. b.add = {Header(Vlan(p.vlan)), Line(Vlan(p.vlan), <<"vrf", p.vn>>)}
    BY <2>1, ResourceLines DEF HandoffBlock
  <2>3. l = Header(Vlan(p.vlan)) \/ l = Line(Vlan(p.vlan), <<"vrf", p.vn>>)
    BY <2>2
  <2>4. l.sec[1] = "vlan" /\ l.text[1] \in {"header", "vrf"}
    BY <2>3, LineFields, SectionsApart
  <2> QED
    BY <1>2, <2>4 DEF Unicast
<1>6. CASE /\ Native(i)
           /\ \/ \E vn \in Networks(i) : d \in Segments(i, vn) /\ OfNetwork(i, d, vn, b)
              \/ \E vn \in Networks(i) : d \in FusionOf(i, vn) /\ OfFusion(i, d, vn, b)
  <2>1. ASSUME NEW p, l \in Enter({SparseMode(p.vlan)}).add PROVE l = SparseMode(p.vlan)
    BY <2>1, ResourceLines
  <2>2. ASSUME NEW vn \in Networks(i), d \in Segments(i, vn), OfNetwork(i, d, vn, b)
        PROVE  l \in OwnedLines(i, d)
    <3>1. CASE b = PolicyBlock(i, d, vn)
      BY <1>6, <2>2, <3>1, OwnedLinesFrom
    <3>2. CASE b \in Elems(SegmentBlocks(i, d, vn))
      <4>1. l \in LinesOf(SegmentResources(i, d, vn))
        BY <3>2, SegmentOwned
      <4> QED
        BY <1>6, <2>2, <4>1, OwnedLinesFrom
    <3>3. CASE d \in Edges(i) /\ \E p \in PoolsOf(i, vn) : b = Enter(SviLines(p))
      <4>1. l \in LinesOf(SviResources(i, d, vn))
        BY <3>3, SviOwned, ResourceLines
      <4> QED
        BY <1>6, <2>2, <4>1, OwnedLinesFrom
    <3>4. CASE \E p \in PeersOf(i, vn) : p.device = d /\ b = Enter({SparseMode(p.vlan)})
      <4>1. l \in LinesOf(HandoffResources(i, d, vn))
        BY <2>1, <3>4, HandoffOwned
      <4> QED
        BY <1>6, <2>2, <4>1, OwnedLinesFrom
    <3> QED
      BY <2>2, <3>1, <3>2, <3>3, <3>4 DEF OfNetwork
  <2>3. ASSUME NEW vn \in Networks(i), d \in FusionOf(i, vn), OfFusion(i, d, vn, b)
        PROVE  l \in OwnedLines(i, d)
    <3>1. CASE b = PolicyBlock(i, d, vn)
      BY <1>6, <2>3, <3>1, OwnedLinesFrom
    <3>2. CASE \E p \in PeersOf(i, vn) : p.fusion = d /\ b = Enter({SparseMode(p.vlan)})
      <4>1. l \in LinesOf(HandoffResources(i, d, vn))
        BY <2>1, <3>2, HandoffOwned
      <4> QED
        BY <1>6, <2>3, <4>1, OwnedLinesFrom
    <3> QED
      BY <2>3, <3>1, <3>2 DEF OfFusion
  <2> QED
    BY <1>2, <1>6, <2>2, <2>3
<1> QED
  BY <1>1, <1>3, <1>4, <1>5, <1>6, DesignFrom

\* What a valid intent says of the nodes its networks are on.
LEMMA NetworkNodes ==
  ASSUME NEW i \in Plannable, NEW vn \in Networks(i)
  PROVE  /\ Segments(i, vn) = Borders(i) \cup Edges(i) /\ Segments(i, vn) \subseteq i.devices
         /\ \A d \in FusionOf(i, vn) : d \in i.fusion /\ d \notin i.devices
         /\ \A p \in PeersOf(i, vn) : /\ p \in i.peers /\ p.device \in Segments(i, vn)
                                      /\ p.fusion \in FusionOf(i, vn)
<1>1. FormOf(i) /\ ValidIntent(i)
  BY PlannableForm
<1>2. Segments(i, vn) = Borders(i) \cup Edges(i)
  BY <1>1 DEF ValidIntent, ValidSegments
<1>3. Borders(i) \subseteq i.devices /\ Edges(i) \subseteq i.devices
  BY DEF Borders, Edges, HasRole
<1>4. \A p \in i.peers : p.device \in Borders(i) /\ p.fusion \in i.fusion
  BY <1>1 DEF ValidIntent, ValidPeers
<1>5. \A p \in PeersOf(i, vn) : p \in i.peers /\ p.fusion \in FusionOf(i, vn)
  BY DEF PeersOf, FusionOf
<1>6. \A d \in FusionOf(i, vn) : \E p \in i.peers : d = p.fusion
  BY DEF PeersOf, FusionOf
<1> QED
  BY <1>1, <1>2, <1>3, <1>4, <1>5, <1>6 DEF FormOf

\* Every line of the manifest is entered.
LEMMA OwnedEntered ==
  ASSUME NEW i \in Plannable, NEW d, NEW l \in OwnedLines(i, d)
  PROVE  \E b \in DesignBlocks(i, d) : l \in b.add
<1>1. FormOf(i) /\ ValidIntent(i)
  BY PlannableForm
<1>2. Native(i) /\ i.enabled
  BY OwnedLinesFrom DEF Native
<1>3. CASE l \in LinesOf(RpResources(i, d))
  BY <1>1, <1>2, <1>3, RpLines, DesignFrom
<1>4. CASE l \in LinesOf(BumResources(i, d))
  <2>1. PICK p \in DOMAIN i.bum : l = Line(Lisp(p), <<"underlay", i.bum[p]>>)
    BY <1>4, BumOwned
  <2>2. d \in Edges(i) /\ p \in i.pools
    BY <1>1, <1>2, <1>4, BumOwned DEF ValidIntent, ValidBum
  <2>3. InstanceBlock(i, p).add =
          {Line(Lisp(p), <<"eid-table">>)} \cup {Line(Lisp(p), <<"underlay", i.bum[p]>>)}
    BY ResourceLines DEF InstanceBlock
  <2>4. l \in InstanceBlock(i, p).add
    BY <2>1, <2>3
  <2> QED
    BY <1>1, <2>2, <2>4, DesignFrom
<1>5. ASSUME NEW vn \in Networks(i), d \in Segments(i, vn), NEW b, OfNetwork(i, d, vn, b), l \in b.add
      PROVE  \E c \in DesignBlocks(i, d) : l \in c.add
  <2>1. d \in i.devices
    BY <1>5, NetworkNodes
  <2> QED
    BY <1>1, <1>2, <1>5, <2>1, DesignFrom
<1>6. ASSUME NEW vn \in Networks(i), d \in FusionOf(i, vn), NEW b, OfFusion(i, d, vn, b), l \in b.add
      PROVE  \E c \in DesignBlocks(i, d) : l \in c.add
  <2>1. d \in i.fusion /\ d \notin i.devices
    BY <1>6, NetworkNodes
  <2> QED
    BY <1>1, <1>2, <1>6, <2>1, DesignFrom
<1>7. CASE \E vn \in Networks(i) : /\ d \in Segments(i, vn) \cup FusionOf(i, vn)
                                   /\ l \in PolicyBlock(i, d, vn).add
  BY <1>5, <1>6, <1>7 DEF OfNetwork, OfFusion
<1>8. CASE \E vn \in Networks(i) : /\ d \in Segments(i, vn)
                                   /\ l \in LinesOf(SegmentResources(i, d, vn))
  BY <1>5, <1>8, SegmentOwned DEF OfNetwork
<1>9. CASE \E vn \in Networks(i) : /\ d \in Segments(i, vn)
                                   /\ l \in LinesOf(SviResources(i, d, vn))
  <2>1. PICK vn \in Networks(i) : d \in Segments(i, vn) /\ l \in LinesOf(SviResources(i, d, vn))
    BY <1>9
  <2>2. d \in Edges(i) /\ \E p \in PoolsOf(i, vn) : l \in SviLines(p)
    BY <2>1, SviOwned
  <2>3. PICK p \in PoolsOf(i, vn) : l \in Enter(SviLines(p)).add
    BY <2>2, ResourceLines
  <2>4. OfNetwork(i, d, vn, Enter(SviLines(p)))
    BY <2>2 DEF OfNetwork
  <2> QED
    BY <1>5, <2>1, <2>3, <2>4
<1>10. CASE \E vn \in Networks(i) : l \in LinesOf(HandoffResources(i, d, vn))
  <2>1. PICK vn \in Networks(i) : l \in LinesOf(HandoffResources(i, d, vn))
    BY <1>10
  <2>2. PICK p \in PeersOf(i, vn) : (p.device = d \/ p.fusion = d) /\ l = SparseMode(p.vlan)
    BY <2>1, HandoffOwned
  <2>3. l \in Enter({SparseMode(p.vlan)}).add
    BY <2>2, ResourceLines
  <2>4. CASE p.device = d
    <3>1. d \in Segments(i, vn)
      BY <2>4, NetworkNodes
    <3>2. OfNetwork(i, d, vn, Enter({SparseMode(p.vlan)}))
      BY <2>4 DEF OfNetwork
    <3> QED
      BY <1>5, <2>3, <3>1, <3>2
  <2>5. CASE p.fusion = d
    <3>1. d \in FusionOf(i, vn)
      BY <2>5, NetworkNodes
    <3>2. OfFusion(i, d, vn, Enter({SparseMode(p.vlan)}))
      BY <2>5 DEF OfFusion
    <3> QED
      BY <1>6, <2>3, <3>1, <3>2
  <2> QED
    BY <2>2, <2>4, <2>5
<1> QED
  BY <1>3, <1>4, <1>7, <1>8, <1>9, <1>10, OwnedLinesFrom

\* A block that makes an access list anew enters what another block of the
\* design has entered of it.
LEMMA AnewComplete ==
  ASSUME NEW i \in Plannable, NEW d, NEW b \in DesignBlocks(i, d), NEW c \in DesignBlocks(i, d),
         NEW l \in c.add, Killed(b, l)
  PROVE  l \in b.add
<1>1. FormOf(i) /\ ValidIntent(i)
  BY PlannableForm
<1>2. ~Plain(b)
  BY DEF Plain, Killed, Block
<1>3. PICK vn \in Networks(i) : b = PolicyBlock(i, d, vn)
  BY <1>1, <1>2, DesignKinds
<1>4. l.sec = Acl(i.policies[vn].acl)
  <2>1. PolicyBlock(i, d, vn).drop = {Acl(i.policies[vn].acl)} /\ PolicyBlock(i, d, vn).minus = {}
    BY Zenon, PolicyNegates
  <2> QED
    BY <1>3, <2>1 DEF Killed
<1>5. ~Plain(c)
  BY <1>4, SectionsApart DEF Plain
<1>6. PICK wn \in Networks(i) : c = PolicyBlock(i, d, wn)
  BY <1>1, <1>5, DesignKinds
<1>7. l.sec = Acl(i.policies[wn].acl)
  BY <1>4, <1>6, PolicyBlockShape, SectionsApart
<1>8. i.policies[vn].acl = i.policies[wn].acl
  BY <1>4, <1>7 DEF Acl
<1>9. vn = wn
  BY <1>1, <1>8 DEF ValidIntent, ValidModes
<1> QED
  BY <1>3, <1>6, <1>9

LEMMA DesignAdds ==
  ASSUME NEW i, FormOf(i), NEW d, NEW b \in DesignBlocks(i, d)
  PROVE  /\ b = Block(b.drop, b.minus, b.add)
         /\ \A l : Killed(b, l) => l.sec[1] = "acl"
<1>1. CASE Plain(b)
  <2>1. b.drop = {} /\ b.minus = {}
    BY <1>1 DEF Plain, Block
  <2> QED
    BY <1>1, <2>1 DEF Plain, Killed
<1>2. CASE \E vn \in Networks(i) : b = PolicyBlock(i, d, vn)
  <2>1. PICK vn \in Networks(i) : b = PolicyBlock(i, d, vn)
    BY <1>2
  <2> DEFINE acl == Acl(i.policies[vn].acl)
             c == PolicyBlock(i, d, vn)
  <2>3. c.drop = {acl} /\ c.minus = {} /\ c = Block({acl}, {}, c.add) /\ acl[1] = "acl"
    <3>1. c.drop = {acl} /\ c.minus = {} /\ c = Block({acl}, {}, c.add)
      BY Zenon, PolicyNegates
    <3>2. acl[1] = "acl"
      BY SectionsApart
    <3> QED
      BY <3>1, <3>2
  <2> HIDE DEF acl, c
  <2>2. b.drop = {acl} /\ b.minus = {} /\ b = Block({acl}, {}, b.add) /\ acl[1] = "acl"
    BY <2>1, <2>3 DEF c
  <2> QED
    BY <2>2 DEF Killed
<1> QED
  BY <1>1, <1>2, DesignKinds

\* The lines of a deployed design are those its blocks enter.
LEMMA DeployedFrom ==
  ASSUME NEW i, NEW d, FormOf(i), NEW l
  PROVE  l \in Deployed(i, d) <=> \E b \in DesignBlocks(i, d) : l \in b.add
<1> DEFINE lines(blocks) == UNION {blocks[n].add : n \in 1..Len(blocks)}
<1>1. \A s : l \in lines(s) <=> \E b \in Elems(s) : l \in b.add
  BY DEF Elems
<1>2. Deployed(i, d) =
        lines(UnderlayBlocks(i, d)) \cup lines(EdgeOverlayBlocks(i, d))
          \cup lines(BorderHandoffBlocks(i, d)) \cup lines(FusionHandoffBlocks(i, d))
          \cup lines(MulticastBlocks(i, d))
  BY DEF Deployed
<1> HIDE DEF lines
<1>3. \A b : b \in DesignBlocks(i, d) <=>
        \/ b \in Elems(UnderlayBlocks(i, d)) \/ b \in Elems(EdgeOverlayBlocks(i, d))
        \/ b \in Elems(BorderHandoffBlocks(i, d)) \/ b \in Elems(FusionHandoffBlocks(i, d))
        \/ b \in Elems(MulticastBlocks(i, d))
  BY DEF DesignBlocks
<1> QED
  BY <1>1, <1>2, <1>3

-----------------------------------------------------------------------------
(* The steps of a run. *)

LEMMA CoverFinite ==
  ASSUME NEW S, IsFiniteSet(S), NEW f, NEW R, \A r \in R : \E x \in S : r = f[x]
  PROVE  IsFiniteSet(R)
<1> DEFINE T == {f[x] : x \in S}
<1>1. R \in SUBSET T
  OBVIOUS
<1>2. IsFiniteSet(T)
  BY ImageFinite
<1> HIDE DEF T
<1> QED
  BY <1>1, <1>2, FS_Subset

LEMMA UnionFinite ==
  ASSUME NEW S, IsFiniteSet(S), NEW f, \A x \in S : IsFiniteSet(f[x]),
         NEW R, \A r \in R : \E x \in S : r \in f[x]
  PROVE  IsFiniteSet(R)
<1> DEFINE T == {f[x] : x \in S}
<1>1. IsFiniteSet(T)
  BY ImageFinite
<1>2. \A t \in T : IsFiniteSet(t)
  OBVIOUS
<1>3. R \in SUBSET (UNION T)
  OBVIOUS
<1> HIDE DEF T
<1>4. IsFiniteSet(UNION T)
  BY <1>1, <1>2, FS_UNION
<1> QED
  BY <1>3, <1>4, FS_Subset

LEMMA TripleFinite ==
  \A x, y, z : IsFiniteSet({x, y}) /\ IsFiniteSet({x, y, z})
<1> TAKE x, y, z
<1>1. IsFiniteSet({x})
  BY FS_Singleton
<1>2. IsFiniteSet({x} \cup {y})
  BY <1>1, FS_AddElement
<1>3. IsFiniteSet(({x} \cup {y}) \cup {z})
  BY <1>2, FS_AddElement
<1>4. {x} \cup {y} = {x, y} /\ ({x} \cup {y}) \cup {z} = {x, y, z}
  OBVIOUS
<1> QED
  BY <1>2, <1>3, <1>4

LEMMA ResourcesFinite ==
  ASSUME NEW i \in Plannable, Native(i), NEW d
  PROVE  /\ IsFiniteSet(RpResources(i, d)) /\ IsFiniteSet(BumResources(i, d))
         /\ \A vn : /\ IsFiniteSet(PolicyResources(i, d, vn))
                    /\ IsFiniteSet(SegmentResources(i, d, vn))
                    /\ IsFiniteSet(SviResources(i, d, vn))
                    /\ IsFiniteSet(HandoffResources(i, d, vn))
<1>1. IsFiniteSet(i.rps) /\ IsFiniteSet(i.pools) /\ IsFiniteSet(i.peers) /\ DOMAIN i.bum = i.pools
  BY PlannableForm DEF FormOf, ValidIntent, ValidBum
<1>2. IsFiniteSet(RpResources(i, d))
  <2> DEFINE rp == WholeSection(<<"rp_loopback">>, 200, Loopback("rp"), {<<"address", i.rpAddress>>})
             peer(p) == ExactLines(<<"msdp_peer", p>>, 300, {Line(Global, <<"msdp", "peer", p>>)})
             setting(x) == ExactLines(<<"msdp", x>>, 250, {Line(Global, <<"msdp", x>>)})
             X == {"cache", "originator"}
             f == [p \in i.rps |-> peer(p)]
             g == [x \in X |-> setting(x)]
             A == {f[p] : p \in i.rps}
             B == {g[x] : x \in X}
  <2>1. \A r \in RpResources(i, d) :
          r = rp \/ (\E p \in i.rps : r = peer(p)) \/ \E x \in X : r = setting(x)
    BY DEF RpResources
  <2>2. IsFiniteSet(X)
    BY TripleFinite
  <2> HIDE DEF rp, peer, setting, X
  <2>3. IsFiniteSet(A) /\ IsFiniteSet(B)
    <3> HIDE DEF f, g
    <3> QED
      BY <1>1, <2>2, ImageFinite
  <2>5. \A r \in RpResources(i, d) : r = rp \/ r \in A \/ r \in B
    BY <2>1
  <2> HIDE DEF A, B
  <2>4. IsFiniteSet((A \cup B) \cup {rp})
    BY <2>3, FS_Union, FS_AddElement
  <2>6. RpResources(i, d) \in SUBSET ((A \cup B) \cup {rp})
    BY <2>5
  <2> QED
    BY <2>4, <2>6, FS_Subset
<1>3. IsFiniteSet(BumResources(i, d))
  <2> DEFINE f == [p \in DOMAIN i.bum |->
                     ExactLines(<<"bum", p>>, 850, {Line(Lisp(p), <<"underlay", i.bum[p]>>)})]
  <2> DEFINE bum(p) == ExactLines(<<"bum", p>>, 850, {Line(Lisp(p), <<"underlay", i.bum[p]>>)})
  <2>2. /\ BumResources(i, d) = IF d \notin Edges(i) THEN {} ELSE {bum(p) : p \in DOMAIN i.bum}
        /\ f = [p \in DOMAIN i.bum |-> bum(p)]
    BY DEF BumResources
  <2> HIDE DEF f, bum
  <2>1. \A r \in BumResources(i, d) : \E p \in DOMAIN i.bum : r = f[p]
    BY <2>2
  <2> HIDE DEF f
  <2> QED
    BY <1>1, <2>1, CoverFinite
<1>4. ASSUME NEW vn PROVE IsFiniteSet(PolicyResources(i, d, vn))
  <2> DEFINE routing == ExactLines(<<"routing", vn>>, 400, {Line(Global, <<"routing", vn>>)})
             acl == WholeSection(<<"acl", vn>>, 500, Acl(i.policies[vn].acl),
                                 {<<"permit", i.policies[vn].group>>})
             policy == ExactLines(<<"policy", vn>>, 600, PolicyLines(i, d, vn))
  <2>1. PolicyResources(i, d, vn) = {routing, acl, policy}
    BY DEF PolicyResources
  <2> HIDE DEF routing, acl, policy
  <2>2. IsFiniteSet({routing, acl, policy})
    BY TripleFinite
  <2> QED
    BY <2>1, <2>2
<1>5. ASSUME NEW vn PROVE IsFiniteSet(SegmentResources(i, d, vn))
  <2> DEFINE x == i.policies[vn].segment[d]
             address == WholeSection(<<"segment_loopback", vn>>, 700, Loopback(vn), {<<"address", x>>})
             port == WholeSection(<<"lisp_interface", vn>>, 750, LispPort(vn),
                                  {<<"transport">>, <<"core", i.policies[vn].core>>})
             mapping == ExactLines(<<"lisp_mapping", vn>>, 800, {Line(Lisp(vn), <<"mapping", x>>)})
  <2>1. SegmentResources(i, d, vn) = {address, port, mapping}
    BY DEF SegmentResources
  <2> HIDE DEF address, port, mapping
  <2>2. IsFiniteSet({address, port, mapping})
    BY TripleFinite
  <2> QED
    BY <2>1, <2>2
<1>6. ASSUME NEW vn PROVE IsFiniteSet(SviResources(i, d, vn))
  <2> DEFINE f == [p \in i.pools |-> ExactLines(<<"edge_svi", p>>, 900, SviLines(p))]
  <2>1. \A r \in SviResources(i, d, vn) : \E p \in i.pools : r = f[p]
    BY DEF SviResources, PoolsOf
  <2> HIDE DEF f
  <2> QED
    BY <1>1, <2>1, CoverFinite
<1>7. ASSUME NEW vn PROVE IsFiniteSet(HandoffResources(i, d, vn))
  <2> DEFINE border(p) == ExactLines(<<"border_handoff", vn, p.vlan>>, 900, {SparseMode(p.vlan)})
             fusion(p) == ExactLines(<<"fusion_handoff", vn, p.vlan>>, 900, {SparseMode(p.vlan)})
             f == [p \in i.peers |-> border(p)]
             g == [p \in i.peers |-> fusion(p)]
             A == {f[p] : p \in i.peers}
             B == {g[p] : p \in i.peers}
  <2>1. \A r \in HandoffResources(i, d, vn) :
          \E p \in i.peers : r = border(p) \/ r = fusion(p)
    <3> DEFINE C == {border(p) : p \in {q \in PeersOf(i, vn) : q.device = d}}
               D == {fusion(p) : p \in {q \in PeersOf(i, vn) : q.fusion = d}}
    <3>1. HandoffResources(i, d, vn) = C \cup D
      BY DEF HandoffResources
    <3> HIDE DEF border, fusion
    <3> QED
      BY <3>1 DEF PeersOf
  <2> HIDE DEF border, fusion
  <2>2. \A r \in HandoffResources(i, d, vn) : r \in A \/ r \in B
    BY <2>1
  <2>4. IsFiniteSet(A) /\ IsFiniteSet(B)
    <3> HIDE DEF f, g
    <3> QED
      BY <1>1, ImageFinite
  <2> HIDE DEF A, B
  <2>5. IsFiniteSet(A \cup B)
    BY <2>4, FS_Union
  <2>6. HandoffResources(i, d, vn) \in SUBSET (A \cup B)
    BY <2>2
  <2> QED
    BY <2>5, <2>6, FS_Subset
<1> QED
  BY <1>2, <1>3, <1>4, <1>5, <1>6, <1>7

LEMMA OwnedFinite ==
  ASSUME NEW i \in Plannable, NEW d
  PROVE  IsFiniteSet(OwnedState(i, d))
<1>1. CASE ~Native(i)
  BY <1>1, FS_EmptySet DEF OwnedState
<1>2. CASE Native(i)
  <2> DEFINE V == Networks(i)
             f == [vn \in V |-> (PolicyResources(i, d, vn) \cup SegmentResources(i, d, vn))
                                  \cup (SviResources(i, d, vn) \cup HandoffResources(i, d, vn))]
             R == {r \in OwnedState(i, d) : \E vn \in V : r \in f[vn]}
  <2>1. \A vn \in V : IsFiniteSet(f[vn])
    <3> TAKE vn \in V
    <3>1. IsFiniteSet(PolicyResources(i, d, vn) \cup SegmentResources(i, d, vn))
      BY <1>2, ResourcesFinite, FS_Union
    <3>2. IsFiniteSet(SviResources(i, d, vn) \cup HandoffResources(i, d, vn))
      BY <1>2, ResourcesFinite, FS_Union
    <3> QED
      BY <3>1, <3>2, FS_Union
  <2>2. IsFiniteSet(V)
    BY PlannableForm DEF FormOf
  <2>3. \A r \in OwnedState(i, d) :
          r \in (RpResources(i, d) \cup BumResources(i, d)) \cup R
    BY <1>2, OwnedFrom
  <2> HIDE DEF f, V
  <2>4. IsFiniteSet(R)
    BY <2>1, <2>2, UnionFinite
  <2> HIDE DEF R
  <2>5. IsFiniteSet(RpResources(i, d) \cup BumResources(i, d))
    BY <1>2, ResourcesFinite, FS_Union
  <2>6. IsFiniteSet((RpResources(i, d) \cup BumResources(i, d)) \cup R)
    BY <2>4, <2>5, FS_Union
  <2> QED
    BY <2>3, <2>6, FS_Subset
<1> QED
  BY <1>1, <1>2

LEMMA RemoveOrdersCover ==
  /\ Len(RemoveOrders) = 11
  /\ \A o \in Orders : \E n \in 1..11 : RemoveOrders[n] = o
<1>1. Len(RemoveOrders) = 11
  BY DEF RemoveOrders
<1>2. /\ RemoveOrders[1] = 900 /\ RemoveOrders[2] = 850 /\ RemoveOrders[3] = 800
      /\ RemoveOrders[4] = 750 /\ RemoveOrders[5] = 700 /\ RemoveOrders[6] = 600
      /\ RemoveOrders[7] = 500 /\ RemoveOrders[8] = 400 /\ RemoveOrders[9] = 300
      /\ RemoveOrders[10] = 250 /\ RemoveOrders[11] = 200
  BY DEF RemoveOrders
<1>3. \A o \in Orders : \/ o = 900 \/ o = 850 \/ o = 800 \/ o = 750 \/ o = 700 \/ o = 600
                        \/ o = 500 \/ o = 400 \/ o = 300 \/ o = 250 \/ o = 200
  BY DEF Orders
<1>4. /\ 1 \in 1..11 /\ 2 \in 1..11 /\ 3 \in 1..11 /\ 4 \in 1..11 /\ 5 \in 1..11 /\ 6 \in 1..11
      /\ 7 \in 1..11 /\ 8 \in 1..11 /\ 9 \in 1..11 /\ 10 \in 1..11 /\ 11 \in 1..11
  OBVIOUS
<1> QED
  BY <1>1, <1>2, <1>3, <1>4

\* The removals on a node are those of its stale resources.
LEMMA RemovalsElems ==
  ASSUME NEW base \in Plannable, NEW i, NEW d
  PROVE  /\ IsSequence(Removals(base, i, d))
         /\ \A r : r \in Elems(Removals(base, i, d)) <=> r \in Stale(base, i, d)
<1> DEFINE S == [n \in 1..11 |-> {r \in Stale(base, i, d) : r.order = RemoveOrders[n]}]
           seqs == [n \in 1..11 |-> Ordered(S[n])]
<1>1. Removals(base, i, d) = FlattenSeq(seqs)
  <2>1. Removals(base, i, d) = FlattenSeq([n \in 1..Len(RemoveOrders) |->
                     Ordered({r \in Stale(base, i, d) : r.order = RemoveOrders[n]})])
    BY DEF Removals
  <2>2. [n \in 1..11 |-> Ordered({r \in Stale(base, i, d) : r.order = RemoveOrders[n]})] = seqs
    OBVIOUS
  <2> QED
    BY <2>1, <2>2, RemoveOrdersCover
<1>2. IsFiniteSet(Stale(base, i, d))
  BY OwnedFinite, FS_Difference DEF Stale
<1>3. \A n \in 1..11 : IsFiniteSet(S[n])
  <2> TAKE n \in 1..11
  <2>1. S[n] \in SUBSET Stale(base, i, d)
    OBVIOUS
  <2> QED
    BY <1>2, <2>1, FS_Subset
<1>4. \A r : r \in Stale(base, i, d) <=> \E n \in 1..11 : r \in S[n]
  <2>1. \A r \in Stale(base, i, d) : r.order \in Orders
    BY OwnedSound DEF Stale, Sound
  <2>2. \A r \in Stale(base, i, d) : \E n \in 1..11 : r.order = RemoveOrders[n]
    BY <2>1, RemoveOrdersCover
  <2> QED
    BY <2>2
<1> HIDE DEF S
<1>5. \A n \in 1..11 : IsSequence(seqs[n]) /\ Elems(seqs[n]) = S[n]
  BY <1>3, OrderedElems
<1>6. seqs = [n \in 1..11 |-> seqs[n]]
  OBVIOUS
<1> HIDE DEF seqs
<1>7. IsSequence(seqs) /\ Len(seqs) = 11
  BY <1>6, SequenceOfFunction
<1>8. /\ IsSequence(FlattenSeq(seqs))
      /\ \A r : r \in Elems(FlattenSeq(seqs)) <=> \E n \in 1..Len(seqs) : r \in Elems(seqs[n])
  BY <1>5, <1>7, ElemsFlatten
<1>9. \A r : r \in Elems(FlattenSeq(seqs)) <=> \E n \in 1..11 : r \in S[n]
  BY <1>5, <1>7, <1>8
<1> QED
  BY <1>1, <1>4, <1>8, <1>9

LEMMA ForEachElems ==
  ASSUME NEW steps, \A d \in Nodes : IsSequence(steps[d])
  PROVE  /\ IsSequence(ForEachNode(steps))
         /\ \A x : x \in Elems(ForEachNode(steps)) <=> \E d \in Nodes : x \in Elems(steps[d])
<1> DEFINE k == Len(NodeOrder)
           seqs == [n \in 1..k |-> steps[NodeOrder[n]]]
<1>1. ForEachNode(steps) = FlattenSeq(seqs)
  BY DEF ForEachNode
<1>2. k \in Nat /\ (\A n \in 1..k : NodeOrder[n] \in Nodes) /\ \A d \in Nodes : \E n \in 1..k : NodeOrder[n] = d
  BY NodeAssumption
<1> HIDE DEF k
<1>3. seqs = [n \in 1..k |-> seqs[n]] /\ \A n \in 1..k : seqs[n] = steps[NodeOrder[n]]
  OBVIOUS
<1> HIDE DEF seqs
<1>4. IsSequence(seqs) /\ Len(seqs) = k
  BY <1>2, <1>3, SequenceOfFunction
<1>5. \A n \in 1..Len(seqs) : IsSequence(seqs[n])
  BY <1>2, <1>3, <1>4
<1>6. /\ IsSequence(FlattenSeq(seqs))
      /\ \A x : x \in Elems(FlattenSeq(seqs)) <=> \E n \in 1..Len(seqs) : x \in Elems(seqs[n])
  BY <1>4, <1>5, ElemsFlatten
<1>7. \A x : x \in Elems(FlattenSeq(seqs)) <=> \E n \in 1..k : x \in Elems(steps[NodeOrder[n]])
  BY <1>3, <1>4, <1>6
<1> QED
  BY <1>1, <1>2, <1>6, <1>7

Send(d, b)      == [kind |-> "block", node |-> d, what |-> b]
Prove(d, r)     == [kind |-> "absent", node |-> d, what |-> r]
Observe(d, g)   == [kind |-> "present", node |-> d, what |-> g]

LEMMA StepFields ==
  \A d, w : /\ Send(d, w).kind = "block" /\ Send(d, w).node = d /\ Send(d, w).what = w
            /\ Prove(d, w).kind = "absent" /\ Prove(d, w).node = d /\ Prove(d, w).what = w
            /\ Observe(d, w).kind = "present" /\ Observe(d, w).node = d /\ Observe(d, w).what = w
BY DEF Send, Prove, Observe

LEMMA BlockStepsElems ==
  ASSUME NEW d, NEW blocks, IsSequence(blocks)
  PROVE  /\ IsSequence(BlockSteps(d, blocks))
         /\ \A x : x \in Elems(BlockSteps(d, blocks)) <=> \E b \in Elems(blocks) : x = Send(d, b)
<1> DEFINE t == BlockSteps(d, blocks)
           k == Len(blocks)
<1>1. t = [n \in 1..k |-> Send(d, blocks[n])]
  BY DEF BlockSteps, Send
<1>2. k \in Nat /\ \A b : b \in Elems(blocks) <=> \E n \in 1..k : b = blocks[n]
  BY SequenceShape DEF Elems
<1> HIDE DEF t, k
<1>3. t = [n \in 1..k |-> t[n]] /\ \A n \in 1..k : t[n] = Send(d, blocks[n])
  BY <1>1
<1>4. IsSequence(t) /\ Elems(t) = {t[n] : n \in 1..k}
  BY <1>2, <1>3, SequenceOfFunction
<1>5. \A x : x \in Elems(t) <=> \E n \in 1..k : x = Send(d, blocks[n])
  BY <1>3, <1>4
<1>6. \A x : x \in Elems(t) <=> \E b \in Elems(blocks) : x = Send(d, b)
  BY <1>2, <1>5
<1> QED
  BY <1>4, <1>6 DEF t

LEMMA PolicyGatesFrom ==
  ASSUME NEW i, NEW d, NEW vns, IsFiniteSet(vns)
  PROVE  /\ IsFiniteSet(PolicyGates(i, d, vns))
         /\ \A g \in PolicyGates(i, d, vns) : \E vn \in vns : g \subseteq PolicyBlock(i, d, vn).add
<1> DEFINE lines(vn) == PolicyLines(i, d, vn) \cup {Line(Global, <<"routing", vn>>)}
           f == [vn \in vns |-> lines(vn)]
           g == [vn \in vns |-> AclLines(i, vn)]
           A == {f[vn] : vn \in vns}
           B == {g[vn] : vn \in vns}
<1>1. PolicyGates(i, d, vns) = {lines(vn) : vn \in vns} \cup {AclLines(i, vn) : vn \in vns}
  BY DEF PolicyGates, AclLines
<1>2. \A vn : /\ lines(vn) \subseteq PolicyBlock(i, d, vn).add
              /\ AclLines(i, vn) \subseteq PolicyBlock(i, d, vn).add
  <2> TAKE vn
  <2>1. PolicyBlock(i, d, vn).add =
          {Line(Global, <<"routing", vn>>)} \cup AclLines(i, vn) \cup PolicyLines(i, d, vn)
    BY Zenon, PolicyAdds
  <2> QED
    BY <2>1
<1> HIDE DEF lines
<1>3. IsFiniteSet(A) /\ IsFiniteSet(B)
  <2> HIDE DEF f, g
  <2> QED
    BY ImageFinite
<1>4. PolicyGates(i, d, vns) = A \cup B
  BY <1>1
<1>5. IsFiniteSet(A \cup B)
  <2> HIDE DEF A, B
  <2> QED
    BY <1>3, FS_Union
<1>6. \A h \in PolicyGates(i, d, vns) : \E vn \in vns : h = lines(vn) \/ h = AclLines(i, vn)
  BY <1>1
<1> HIDE DEF A, B
<1> QED
  BY <1>2, <1>4, <1>5, <1>6

\* Where the gates on configuration come from.
LEMMA GatesFrom ==
  ASSUME NEW i \in Plannable, NEW d
  PROVE  /\ IsSequence(ConfigGates(i, d))
         /\ \A g \in Elems(ConfigGates(i, d)) :
              /\ Native(i)
              /\ \/ \E vn \in Networks(i) : /\ d \in Segments(i, vn) \cup FusionOf(i, vn)
                                            /\ g \subseteq PolicyBlock(i, d, vn).add
                 \/ \E p \in i.pools : /\ d \in Edges(i) /\ NetworkOf[p] \in Networks(i)
                                       /\ g = {Header(Vlan(p))} \cup SviLines(p)
<1> DEFINE V == {v \in Networks(i) : d \in Segments(i, v)}
           F == {v \in Networks(i) : d \in FusionOf(i, v)}
           svi(p) == {Header(Vlan(p))} \cup SviLines(p)
           P == {q \in i.pools : d \in Edges(i) /\ NetworkOf[q] \in Networks(i)}
           f == [p \in P |-> svi(p)]
           S == {f[p] : p \in P}
<1>1. IsFiniteSet(Networks(i)) /\ IsFiniteSet(i.pools)
  BY PlannableForm DEF FormOf
<1>2. IsFiniteSet(V) /\ IsFiniteSet(F) /\ IsFiniteSet(P)
  BY <1>1, FS_Subset
<1>3. /\ \A v : v \in V <=> v \in Networks(i) /\ d \in Segments(i, v)
      /\ \A v : v \in F <=> v \in Networks(i) /\ d \in FusionOf(i, v)
      /\ \A p : p \in P <=> p \in i.pools /\ d \in Edges(i) /\ NetworkOf[p] \in Networks(i)
  OBVIOUS
<1>4. DeviceGates(i, d) = PolicyGates(i, d, V) \cup {svi(p) : p \in P}
  BY DEF DeviceGates
<1>5. FusionGates(i, d) = PolicyGates(i, d, F)
  BY DEF FusionGates
<1>6. \A p : svi(p) = {Header(Vlan(p))} \cup SviLines(p)
  OBVIOUS
<1> HIDE DEF V, F, P, svi
<1>7. {svi(p) : p \in P} = S /\ \A g \in S : \E p \in P : g = svi(p)
  OBVIOUS
<1>8. IsFiniteSet(S)
  <2> HIDE DEF f
  <2> QED
    BY <1>2, ImageFinite
<1> HIDE DEF S, f
<1>9. /\ IsFiniteSet(PolicyGates(i, d, V))
      /\ \A g \in PolicyGates(i, d, V) : \E vn \in V : g \subseteq PolicyBlock(i, d, vn).add
  BY <1>2, PolicyGatesFrom
<1>10. /\ IsFiniteSet(PolicyGates(i, d, F))
       /\ \A g \in PolicyGates(i, d, F) : \E vn \in F : g \subseteq PolicyBlock(i, d, vn).add
  BY <1>2, PolicyGatesFrom
<1>11. IsFiniteSet(PolicyGates(i, d, V) \cup S)
  BY <1>8, <1>9, FS_Union
<1> DEFINE G == IF d \in i.devices THEN DeviceGates(i, d) ELSE FusionGates(i, d)
<1>12. IsFiniteSet(G)
  BY <1>4, <1>5, <1>7, <1>10, <1>11
<1>13. \A g \in G : \/ \E vn \in V : g \subseteq PolicyBlock(i, d, vn).add
                    \/ \E vn \in F : g \subseteq PolicyBlock(i, d, vn).add
                    \/ \E p \in P : g = svi(p)
  BY <1>4, <1>5, <1>7, <1>9, <1>10
<1>14. ConfigGates(i, d) = IF ~Native(i) THEN <<>> ELSE Ordered(G)
  BY DEF ConfigGates
<1> HIDE DEF G
<1>15. IsSequence(Ordered(G)) /\ Elems(Ordered(G)) = G
  BY <1>12, OrderedElems
<1>16. IsSequence(<<>>) /\ Elems(<<>>) = {}
  BY ElemsPair
<1> QED
  BY <1>3, <1>6, <1>13, <1>14, <1>15, <1>16

\* What the gates look for has been entered.
LEMMA GatesEntered ==
  ASSUME NEW i \in Plannable, NEW d, NEW g \in Elems(ConfigGates(i, d)), NEW l \in g
  PROVE  \E b \in DesignBlocks(i, d) : l \in b.add
<1>1. FormOf(i)
  BY PlannableForm
<1>2. CASE \E vn \in Networks(i) : /\ d \in Segments(i, vn) \cup FusionOf(i, vn)
                                   /\ g \subseteq PolicyBlock(i, d, vn).add
  <2>1. l \in OwnedLines(i, d)
    BY <1>2, GatesFrom, OwnedLinesFrom
  <2> QED
    BY <2>1, OwnedEntered
<1>3. CASE \E p \in i.pools : /\ d \in Edges(i) /\ NetworkOf[p] \in Networks(i)
                              /\ g = {Header(Vlan(p))} \cup SviLines(p)
  <2>1. PICK p \in i.pools : /\ d \in Edges(i) /\ NetworkOf[p] \in Networks(i)
                             /\ g = {Header(Vlan(p))} \cup SviLines(p)
    BY <1>3
  <2>2. CASE l = Header(Vlan(p))
    <3>1. GatewayBlock(p) \in DesignBlocks(i, d)
      BY <1>1, <2>1, DesignFrom
    <3>2. l \in GatewayBlock(p).add
      BY <2>2, ResourceLines DEF GatewayBlock
    <3> QED
      BY <3>1, <3>2
  <2>3. CASE l \in SviLines(p)
    <3> DEFINE vn == NetworkOf[p]
    <3>1. p \in PoolsOf(i, vn)
      BY DEF PoolsOf
    <3>2. vn \in Networks(i)
      BY <2>1
    <3> HIDE DEF vn
    <3>3. l \in LinesOf(SviResources(i, d, vn))
      BY <2>1, <2>3, <3>1, SviOwned
    <3>4. d \in Segments(i, vn)
      BY <2>1, <3>2, NetworkNodes
    <3>5. l \in OwnedLines(i, d)
      BY <3>2, <3>3, <3>4, GatesFrom, OwnedLinesFrom
    <3> QED
      BY <3>5, OwnedEntered
  <2> QED
    BY <2>1, <2>2, <2>3
<1> QED
  BY <1>2, <1>3, GatesFrom

\* The places from lo + 1 to hi of s hold the elements of S and no other.
Span(s, lo, hi, S) ==
  /\ lo \in Nat /\ hi \in Nat /\ lo <= hi /\ hi <= Len(s)
  /\ \A n \in (lo + 1)..hi : s[n] \in S
  /\ \A x \in S : \E n \in (lo + 1)..hi : s[n] = x

LEMMA SpanSelf ==
  ASSUME NEW s, IsSequence(s) PROVE Span(s, 0, Len(s), Elems(s))
<1>1. Len(s) \in Nat
  BY SequenceShape
<1> QED
  BY <1>1 DEF Span, Elems

LEMMA SpanLeft ==
  ASSUME NEW s, NEW t, IsSequence(s), IsSequence(t), NEW lo, NEW hi, NEW S, Span(s, lo, hi, S)
  PROVE  Span(s \o t, lo, hi, S)
<1>1. /\ Len(s) \in Nat /\ Len(t) \in Nat /\ Len(s \o t) = Len(s) + Len(t)
      /\ \A n \in 1..Len(s) : (s \o t)[n] = s[n]
  BY SequenceShape, ElemsConcat
<1>2. lo \in Nat /\ hi \in Nat /\ lo <= hi /\ hi <= Len(s)
  BY DEF Span
<1>3. \A n \in (lo + 1)..hi : n \in 1..Len(s) /\ (s \o t)[n] = s[n]
  BY <1>1, <1>2
<1> QED
  BY <1>1, <1>2, <1>3 DEF Span

LEMMA SpanRight ==
  ASSUME NEW s, NEW t, IsSequence(s), IsSequence(t), NEW lo, NEW hi, NEW S, Span(t, lo, hi, S)
  PROVE  Span(s \o t, Len(s) + lo, Len(s) + hi, S)
<1> DEFINE u == s \o t
           k == Len(s)
           j == Len(t)
<1>1. /\ k \in Nat /\ j \in Nat /\ Len(u) = k + j
      /\ \A n \in 1..j : u[k + n] = t[n]
  BY SequenceShape, ElemsConcat
<1> HIDE DEF u, k
<1>2. lo \in Nat /\ hi \in Nat /\ lo <= hi /\ hi <= j
  BY DEF Span
<1> HIDE DEF j
<1>3. ASSUME NEW n \in (k + lo + 1)..(k + hi) PROVE u[n] \in S
  <2> DEFINE m == n - k
  <2>1. m \in (lo + 1)..hi /\ m \in 1..j /\ n = k + m
    BY <1>1, <1>2
  <2> HIDE DEF m
  <2>2. t[m] \in S
    BY <2>1 DEF Span
  <2> QED
    BY <1>1, <2>1, <2>2
<1>4. ASSUME NEW x \in S PROVE \E n \in (k + lo + 1)..(k + hi) : u[n] = x
  <2>1. PICK m \in (lo + 1)..hi : t[m] = x
    BY DEF Span
  <2>2. k + m \in (k + lo + 1)..(k + hi) /\ m \in 1..j
    BY <1>1, <1>2
  <2> QED
    BY <1>1, <2>1, <2>2
<1>5. k + lo \in Nat /\ k + hi \in Nat /\ k + lo <= k + hi /\ k + hi <= Len(u)
  BY <1>1, <1>2
<1>6. Span(u, k + lo, k + hi, S)
  BY <1>3, <1>4, <1>5 DEF Span
<1> QED
  BY <1>6 DEF u, k

LEMMA SpanJoin ==
  ASSUME NEW s, NEW lo, NEW mid, NEW hi, NEW S, NEW T, Span(s, lo, mid, S), Span(s, mid, hi, T)
  PROVE  Span(s, lo, hi, S \cup T)
<1>1. /\ lo \in Nat /\ mid \in Nat /\ hi \in Nat /\ lo <= mid /\ mid <= hi /\ hi <= Len(s)
  BY DEF Span
<1>2. \A n \in (lo + 1)..hi : n \in (lo + 1)..mid \/ n \in (mid + 1)..hi
  BY <1>1
<1>3. /\ \A n \in (lo + 1)..mid : n \in (lo + 1)..hi
      /\ \A n \in (mid + 1)..hi : n \in (lo + 1)..hi
  BY <1>1
<1> QED
  BY <1>1, <1>2, <1>3 DEF Span

RemovalSteps(base, i) == UNION {{Send(d, r.remove) : r \in Stale(base, i, d)} : d \in Nodes}
AbsenceSteps(base, i) == UNION {{Prove(d, r) : r \in Stale(base, i, d)} : d \in Nodes}
DesignSteps(i)        == UNION {{Send(d, b) : b \in DesignBlocks(i, d)} : d \in Nodes}
GateSteps(i)          == UNION {{Observe(d, g) : g \in Elems(ConfigGates(i, d))} : d \in Nodes}

LEMMA StepSets ==
  /\ \A base, i, x :
       /\ x \in RemovalSteps(base, i) <=>
            \E d \in Nodes : \E r \in Stale(base, i, d) : x = Send(d, r.remove)
       /\ x \in AbsenceSteps(base, i) <=>
            \E d \in Nodes : \E r \in Stale(base, i, d) : x = Prove(d, r)
  /\ \A i, x :
       /\ x \in DesignSteps(i) <=> \E d \in Nodes : \E b \in DesignBlocks(i, d) : x = Send(d, b)
       /\ x \in GateSteps(i) <=>
            \E d \in Nodes : \E g \in Elems(ConfigGates(i, d)) : x = Observe(d, g)
BY DEF RemovalSteps, AbsenceSteps, DesignSteps, GateSteps

RemovePart(base, i) ==
  ForEachNode([d \in Nodes |->
    BlockSteps(d, [n \in 1..Len(Removals(base, i, d)) |-> Removals(base, i, d)[n].remove])])
AbsentPart(base, i) ==
  ForEachNode([d \in Nodes |->
    [n \in 1..Len(Removals(base, i, d)) |-> Prove(d, Removals(base, i, d)[n])]])
GatePart(i) ==
  ForEachNode([d \in Nodes |-> [n \in 1..Len(ConfigGates(i, d)) |-> Observe(d, ConfigGates(i, d)[n])]])

LEMMA RemovePartElems ==
  ASSUME NEW base \in Plannable, NEW i
  PROVE  /\ IsSequence(RemovePart(base, i)) /\ Elems(RemovePart(base, i)) = RemovalSteps(base, i)
         /\ IsSequence(AbsentPart(base, i)) /\ Elems(AbsentPart(base, i)) = AbsenceSteps(base, i)
<1> DEFINE blocks(d) == [n \in 1..Len(Removals(base, i, d)) |-> Removals(base, i, d)[n].remove]
           proofs(d) == [n \in 1..Len(Removals(base, i, d)) |-> Prove(d, Removals(base, i, d)[n])]
           remove == [d \in Nodes |-> BlockSteps(d, blocks(d))]
           absent == [d \in Nodes |-> proofs(d)]
<1>1. ASSUME NEW d \in Nodes
      PROVE  /\ IsSequence(remove[d])
             /\ \A x : x \in Elems(remove[d]) <=> \E r \in Stale(base, i, d) : x = Send(d, r.remove)
             /\ IsSequence(absent[d])
             /\ \A x : x \in Elems(absent[d]) <=> \E r \in Stale(base, i, d) : x = Prove(d, r)
  <2> DEFINE s == Removals(base, i, d)
             k == Len(s)
             b == blocks(d)
             p == proofs(d)
  <2>1. k \in Nat /\ \A r : r \in Stale(base, i, d) <=> \E n \in 1..k : r = s[n]
    <3>1. IsSequence(s) /\ \A r : r \in Elems(s) <=> r \in Stale(base, i, d)
      BY RemovalsElems
    <3> HIDE DEF s
    <3> QED
      BY <3>1, SequenceShape DEF Elems
  <2>2. b = [n \in 1..k |-> s[n].remove] /\ p = [n \in 1..k |-> Prove(d, s[n])]
    OBVIOUS
  <2> HIDE DEF s, k, b, p
  <2>3. /\ b = [n \in 1..k |-> b[n]] /\ \A n \in 1..k : b[n] = s[n].remove
        /\ p = [n \in 1..k |-> p[n]] /\ \A n \in 1..k : p[n] = Prove(d, s[n])
    BY <2>2
  <2>4. IsSequence(b) /\ Elems(b) = {b[n] : n \in 1..k}
    BY <2>1, <2>3, SequenceOfFunction
  <2>5. IsSequence(p) /\ Elems(p) = {p[n] : n \in 1..k}
    BY <2>1, <2>3, SequenceOfFunction
  <2>6. IsSequence(BlockSteps(d, b)) /\ \A x : x \in Elems(BlockSteps(d, b)) <=> \E c \in Elems(b) : x = Send(d, c)
    BY <2>4, BlockStepsElems
  <2>7. \A x : x \in Elems(BlockSteps(d, b)) <=> \E r \in Stale(base, i, d) : x = Send(d, r.remove)
    BY <2>1, <2>3, <2>4, <2>6
  <2>8. \A x : x \in Elems(p) <=> \E r \in Stale(base, i, d) : x = Prove(d, r)
    BY <2>1, <2>3, <2>5
  <2>9. remove[d] = BlockSteps(d, b) /\ absent[d] = p
    BY DEF b, p
  <2> QED
    BY <2>5, <2>6, <2>7, <2>8, <2>9
<1>2. RemovePart(base, i) = ForEachNode(remove) /\ AbsentPart(base, i) = ForEachNode(absent)
  BY DEF RemovePart, AbsentPart
<1> HIDE DEF remove, absent
<1>3. IsSequence(ForEachNode(remove))
      /\ \A x : x \in Elems(ForEachNode(remove)) <=> \E d \in Nodes : x \in Elems(remove[d])
  BY <1>1, ForEachElems
<1>4. IsSequence(ForEachNode(absent))
      /\ \A x : x \in Elems(ForEachNode(absent)) <=> \E d \in Nodes : x \in Elems(absent[d])
  BY <1>1, ForEachElems
<1>5. \A x : x \in Elems(RemovePart(base, i)) <=> x \in RemovalSteps(base, i)
  <2>1. \A x : x \in Elems(RemovePart(base, i)) <=>
                 \E d \in Nodes : \E r \in Stale(base, i, d) : x = Send(d, r.remove)
    BY <1>1, <1>2, <1>3
  <2> QED
    BY <2>1, StepSets
<1>6. \A x : x \in Elems(AbsentPart(base, i)) <=> x \in AbsenceSteps(base, i)
  <2>1. \A x : x \in Elems(AbsentPart(base, i)) <=>
                 \E d \in Nodes : \E r \in Stale(base, i, d) : x = Prove(d, r)
    <3>1. \A d \in Nodes : \A x :
            x \in Elems(absent[d]) <=> \E r \in Stale(base, i, d) : x = Prove(d, r)
      BY <1>1
    <3> QED
      BY ONLY <3>1, <1>2, <1>4
  <2> QED
    BY <2>1, StepSets
<1> QED
  BY <1>2, <1>3, <1>4, <1>5, <1>6

LEMMA GatePartElems ==
  ASSUME NEW i \in Plannable
  PROVE  IsSequence(GatePart(i)) /\ Elems(GatePart(i)) = GateSteps(i)
<1> DEFINE gates(d) == [n \in 1..Len(ConfigGates(i, d)) |-> Observe(d, ConfigGates(i, d)[n])]
           steps == [d \in Nodes |-> gates(d)]
<1>1. ASSUME NEW d \in Nodes
      PROVE  /\ IsSequence(steps[d])
             /\ \A x : x \in Elems(steps[d]) <=> \E g \in Elems(ConfigGates(i, d)) : x = Observe(d, g)
  <2> DEFINE s == ConfigGates(i, d)
             k == Len(s)
             p == gates(d)
  <2>1. k \in Nat /\ \A g : g \in Elems(s) <=> \E n \in 1..k : g = s[n]
    <3>1. IsSequence(s)
      BY GatesFrom
    <3> HIDE DEF s
    <3> QED
      BY <3>1, SequenceShape DEF Elems
  <2>2. p = [n \in 1..k |-> Observe(d, s[n])]
    OBVIOUS
  <2> HIDE DEF s, k, p
  <2>3. p = [n \in 1..k |-> p[n]] /\ \A n \in 1..k : p[n] = Observe(d, s[n])
    BY <2>2
  <2>4. IsSequence(p) /\ Elems(p) = {p[n] : n \in 1..k}
    BY <2>1, <2>3, SequenceOfFunction
  <2>5. \A x : x \in Elems(p) <=> \E g \in Elems(s) : x = Observe(d, g)
    BY <2>1, <2>3, <2>4
  <2>6. steps[d] = p /\ s = ConfigGates(i, d)
    BY DEF p, s
  <2> QED
    BY <2>4, <2>5, <2>6
<1>2. GatePart(i) = ForEachNode(steps)
  BY DEF GatePart
<1> HIDE DEF steps
<1>3. IsSequence(ForEachNode(steps))
      /\ \A x : x \in Elems(ForEachNode(steps)) <=> \E d \in Nodes : x \in Elems(steps[d])
  BY <1>1, ForEachElems
<1>4. \A x : x \in Elems(GatePart(i)) <=>
               \E d \in Nodes : \E g \in Elems(ConfigGates(i, d)) : x = Observe(d, g)
  <2>1. \A d \in Nodes : \A x :
          x \in Elems(steps[d]) <=> \E g \in Elems(ConfigGates(i, d)) : x = Observe(d, g)
    BY <1>1
  <2>2. ASSUME NEW d \in Nodes, NEW g \in Elems(ConfigGates(i, d))
        PROVE  Observe(d, g) \in Elems(ForEachNode(steps))
    <3>1. Observe(d, g) \in Elems(steps[d])
      BY <2>1
    <3> QED
      BY <1>3, <3>1
  <2>3. ASSUME NEW x \in Elems(ForEachNode(steps))
        PROVE  \E d \in Nodes : \E g \in Elems(ConfigGates(i, d)) : x = Observe(d, g)
    BY <1>3, <2>1
  <2> QED
    BY <1>2, <2>2, <2>3
<1>5. \A x : x \in Elems(GatePart(i)) <=> x \in GateSteps(i)
  BY <1>4, StepSets
<1> QED
  BY <1>2, <1>3, <1>5

LEMMA DesignPhaseElems ==
  ASSUME NEW blocks, \A d \in Nodes : IsSequence(blocks[d])
  PROVE  /\ IsSequence(DesignPhase(blocks))
         /\ \A x : x \in Elems(DesignPhase(blocks)) <=>
                     \E d \in Nodes : \E b \in Elems(blocks[d]) : x = Send(d, b)
<1> DEFINE steps == [d \in Nodes |-> BlockSteps(d, blocks[d])]
<1>1. \A d \in Nodes :
        /\ IsSequence(steps[d])
        /\ \A x : x \in Elems(steps[d]) <=> \E b \in Elems(blocks[d]) : x = Send(d, b)
  BY BlockStepsElems
<1>2. DesignPhase(blocks) = ForEachNode(steps)
  BY DEF DesignPhase
<1> HIDE DEF steps
<1>3. IsSequence(ForEachNode(steps))
      /\ \A x : x \in Elems(ForEachNode(steps)) <=> \E d \in Nodes : x \in Elems(steps[d])
  BY <1>1, ForEachElems
<1>4. \A d \in Nodes : \A x :
        x \in Elems(steps[d]) <=> \E b \in Elems(blocks[d]) : x = Send(d, b)
  BY <1>1
<1>5. ASSUME NEW d \in Nodes, NEW b \in Elems(blocks[d])
      PROVE  Send(d, b) \in Elems(ForEachNode(steps))
  <2>1. Send(d, b) \in Elems(steps[d])
    BY <1>4
  <2> QED
    BY <1>3, <2>1
<1>6. ASSUME NEW x \in Elems(ForEachNode(steps))
      PROVE  \E d \in Nodes : \E b \in Elems(blocks[d]) : x = Send(d, b)
  BY <1>3, <1>4
<1> QED
  BY <1>2, <1>3, <1>5, <1>6

\* The phases of a run: removals, their proofs, the blocks of the design, and
\* its gates.
Phases(s, base, i, r, k, g) ==
  /\ Span(s, 0, r, RemovalSteps(base, i))
  /\ Span(s, r, k, AbsenceSteps(base, i))
  /\ Span(s, k, g, DesignSteps(i))
  /\ Span(s, g, Len(s), GateSteps(i))

HandoffBlocks(i, d) == BorderHandoffBlocks(i, d) \o FusionHandoffBlocks(i, d)

UnderlayPart(i)  == DesignPhase([d \in Nodes |-> UnderlayBlocks(i, d)])
EdgePart(i)      == DesignPhase([d \in Nodes |-> EdgeOverlayBlocks(i, d)])
HandoffPart(i)   == DesignPhase([d \in Nodes |-> HandoffBlocks(i, d)])
MulticastPart(i) == DesignPhase([d \in Nodes |-> MulticastBlocks(i, d)])

LEMMA StepsParts ==
  ASSUME NEW base \in Plannable, NEW i \in Plannable
  PROVE  /\ ReconciliationPhase(base, i) = RemovePart(base, i) \o AbsentPart(base, i)
         /\ StepsOf(base, i) =
              RemovePart(base, i) \o AbsentPart(base, i) \o UnderlayPart(i) \o EdgePart(i)
                \o HandoffPart(i) \o (MulticastPart(i) \o GatePart(i))
         /\ IsSequence(UnderlayPart(i)) /\ IsSequence(EdgePart(i))
         /\ IsSequence(HandoffPart(i)) /\ IsSequence(MulticastPart(i))
         /\ \A x : /\ x \in Elems(UnderlayPart(i)) <=>
                        \E d \in Nodes : \E b \in Elems(UnderlayBlocks(i, d)) : x = Send(d, b)
                   /\ x \in Elems(EdgePart(i)) <=>
                        \E d \in Nodes : \E b \in Elems(EdgeOverlayBlocks(i, d)) : x = Send(d, b)
                   /\ x \in Elems(HandoffPart(i)) <=>
                        \E d \in Nodes : \E b \in Elems(BorderHandoffBlocks(i, d))
                                                    \cup Elems(FusionHandoffBlocks(i, d)) :
                          x = Send(d, b)
                   /\ x \in Elems(MulticastPart(i)) <=>
                        \E d \in Nodes : \E b \in Elems(MulticastBlocks(i, d)) : x = Send(d, b)
<1>1. ReconciliationPhase(base, i) = RemovePart(base, i) \o AbsentPart(base, i)
  BY DEF ReconciliationPhase, RemovePart, AbsentPart, Prove
<1>2. StepsOf(base, i) =
        RemovePart(base, i) \o AbsentPart(base, i) \o UnderlayPart(i) \o EdgePart(i)
          \o HandoffPart(i) \o (MulticastPart(i) \o GatePart(i))
  BY <1>1 DEF StepsOf, HandoffPhase, MulticastPhase, GatePart, HandoffBlocks, Observe,
              UnderlayPart, EdgePart, HandoffPart, MulticastPart
<1>3. FormOf(i)
  BY PlannableForm
<1>4. /\ IsSequence(UnderlayPart(i))
      /\ \A x : x \in Elems(UnderlayPart(i)) <=>
                  \E d \in Nodes : \E b \in Elems(UnderlayBlocks(i, d)) : x = Send(d, b)
  BY <1>3, DesignFrom, DesignPhaseElems DEF UnderlayPart
<1>5. /\ IsSequence(EdgePart(i))
      /\ \A x : x \in Elems(EdgePart(i)) <=>
                  \E d \in Nodes : \E b \in Elems(EdgeOverlayBlocks(i, d)) : x = Send(d, b)
  BY <1>3, DesignFrom, DesignPhaseElems DEF EdgePart
<1>6. \A d : /\ IsSequence(HandoffBlocks(i, d))
             /\ Elems(HandoffBlocks(i, d)) =
                  Elems(BorderHandoffBlocks(i, d)) \cup Elems(FusionHandoffBlocks(i, d))
  BY <1>3, DesignFrom, ElemsConcat DEF HandoffBlocks
<1>7. /\ IsSequence(HandoffPart(i))
      /\ \A x : x \in Elems(HandoffPart(i)) <=>
                  \E d \in Nodes : \E b \in Elems(HandoffBlocks(i, d)) : x = Send(d, b)
  BY <1>6, DesignPhaseElems DEF HandoffPart
<1>8. /\ IsSequence(MulticastPart(i))
      /\ \A x : x \in Elems(MulticastPart(i)) <=>
                  \E d \in Nodes : \E b \in Elems(MulticastBlocks(i, d)) : x = Send(d, b)
  BY <1>3, DesignFrom, DesignPhaseElems DEF MulticastPart
<1> QED
  BY <1>1, <1>2, <1>4, <1>5, <1>6, <1>7, <1>8

LEMMA StepsPhases ==
  ASSUME NEW base \in Plannable, NEW i \in Plannable
  PROVE  /\ IsSequence(StepsOf(base, i))
         /\ \E r, g : Phases(StepsOf(base, i), base, i, r, Len(ReconciliationPhase(base, i)), g)
<1> DEFINE R == RemovePart(base, i)
           A == AbsentPart(base, i)
           U == UnderlayPart(i)
           E == EdgePart(i)
           H == HandoffPart(i)
           M == MulticastPart(i)
           G == GatePart(i)
<1>1. ReconciliationPhase(base, i) = R \o A
  BY StepsParts
<1>2. StepsOf(base, i) = R \o A \o U \o E \o H \o (M \o G)
  BY StepsParts
<1>3. /\ IsSequence(R) /\ Elems(R) = RemovalSteps(base, i)
      /\ IsSequence(A) /\ Elems(A) = AbsenceSteps(base, i)
      /\ IsSequence(G) /\ Elems(G) = GateSteps(i)
  BY RemovePartElems, GatePartElems
<1>4. IsSequence(U) /\ IsSequence(E) /\ IsSequence(H) /\ IsSequence(M)
  BY StepsParts
<1>5. Elems(U) \cup Elems(E) \cup Elems(H) \cup Elems(M) = DesignSteps(i)
  <2>1. \A x : x \in DesignSteps(i) <=> \E d \in Nodes : \E b \in DesignBlocks(i, d) : x = Send(d, b)
    BY StepSets
  <2>2. \A x : x \in DesignSteps(i) <=>
          x \in Elems(U) \/ x \in Elems(E) \/ x \in Elems(H) \/ x \in Elems(M)
    BY <2>1, StepsParts DEF DesignBlocks
  <2> QED
    BY <2>2
<1> HIDE DEF R, A, U, E, H, M, G
<1> DEFINE s1 == R \o A
           s2 == s1 \o U
           s3 == s2 \o E
           s4 == s3 \o H
           t  == M \o G
           s  == s4 \o t
<1>6. /\ IsSequence(s1) /\ Len(s1) = Len(R) + Len(A)
      /\ IsSequence(t) /\ Len(t) = Len(M) + Len(G)
  BY <1>3, <1>4, ElemsConcat
<1>7. IsSequence(s2) /\ Len(s2) = Len(s1) + Len(U)
  <2> HIDE DEF s1
  <2> QED
    BY <1>4, <1>6, ElemsConcat
<1>8. IsSequence(s3) /\ Len(s3) = Len(s2) + Len(E)
  <2> HIDE DEF s2
  <2> QED
    BY <1>4, <1>7, ElemsConcat
<1>9. IsSequence(s4) /\ Len(s4) = Len(s3) + Len(H)
  <2> HIDE DEF s3
  <2> QED
    BY <1>4, <1>8, ElemsConcat
<1>10. IsSequence(s) /\ Len(s) = Len(s4) + Len(t)
  <2> HIDE DEF s4, t
  <2> QED
    BY <1>6, <1>9, ElemsConcat
<1>11. /\ Len(R) \in Nat /\ Len(A) \in Nat /\ Len(U) \in Nat /\ Len(E) \in Nat
       /\ Len(H) \in Nat /\ Len(M) \in Nat /\ Len(G) \in Nat
  BY <1>3, <1>4, SequenceShape
<1>12. Span(s1, 0, Len(R), Elems(R)) /\ Span(s1, Len(R), Len(s1), Elems(A))
  <2>1. Span(R \o A, Len(R) + 0, Len(R) + Len(A), Elems(A))
    BY <1>3, SpanSelf, SpanRight
  <2>2. Span(R \o A, 0, Len(R), Elems(R))
    BY <1>3, SpanSelf, SpanLeft
  <2> QED
    BY <1>6, <1>11, <2>1, <2>2
<1>13. /\ Span(s2, 0, Len(R), Elems(R)) /\ Span(s2, Len(R), Len(s1), Elems(A))
       /\ Span(s2, Len(s1), Len(s2), Elems(U))
  <2> HIDE DEF s1
  <2>1. Span(s1 \o U, Len(s1) + 0, Len(s1) + Len(U), Elems(U))
    BY <1>4, <1>6, SpanSelf, SpanRight
  <2>2. Span(s1 \o U, 0, Len(R), Elems(R)) /\ Span(s1 \o U, Len(R), Len(s1), Elems(A))
    BY <1>4, <1>6, <1>12, SpanLeft
  <2> QED
    BY <1>6, <1>7, <1>11, <2>1, <2>2
<1>14. /\ Span(s3, 0, Len(R), Elems(R)) /\ Span(s3, Len(R), Len(s1), Elems(A))
       /\ Span(s3, Len(s1), Len(s2), Elems(U)) /\ Span(s3, Len(s2), Len(s3), Elems(E))
  <2> HIDE DEF s1, s2
  <2>1. Span(s2 \o E, Len(s2) + 0, Len(s2) + Len(E), Elems(E))
    BY <1>4, <1>7, SpanSelf, SpanRight
  <2>2. /\ Span(s2 \o E, 0, Len(R), Elems(R)) /\ Span(s2 \o E, Len(R), Len(s1), Elems(A))
        /\ Span(s2 \o E, Len(s1), Len(s2), Elems(U))
    BY <1>4, <1>7, <1>13, SpanLeft
  <2> QED
    BY <1>6, <1>7, <1>8, <1>11, <2>1, <2>2
<1>15. /\ Span(s4, 0, Len(R), Elems(R)) /\ Span(s4, Len(R), Len(s1), Elems(A))
       /\ Span(s4, Len(s1), Len(s2), Elems(U)) /\ Span(s4, Len(s2), Len(s3), Elems(E))
       /\ Span(s4, Len(s3), Len(s4), Elems(H))
  <2> HIDE DEF s1, s2, s3
  <2>1. Span(s3 \o H, Len(s3) + 0, Len(s3) + Len(H), Elems(H))
    BY <1>4, <1>8, SpanSelf, SpanRight
  <2>2. /\ Span(s3 \o H, 0, Len(R), Elems(R)) /\ Span(s3 \o H, Len(R), Len(s1), Elems(A))
        /\ Span(s3 \o H, Len(s1), Len(s2), Elems(U)) /\ Span(s3 \o H, Len(s2), Len(s3), Elems(E))
    BY <1>4, <1>8, <1>14, SpanLeft
  <2> QED
    BY <1>6, <1>7, <1>8, <1>9, <1>11, <2>1, <2>2
<1>16. Span(t, 0, Len(M), Elems(M)) /\ Span(t, Len(M), Len(t), Elems(G))
  <2>1. Span(M \o G, Len(M) + 0, Len(M) + Len(G), Elems(G))
    BY <1>3, <1>4, SpanSelf, SpanRight
  <2>2. Span(M \o G, 0, Len(M), Elems(M))
    BY <1>3, <1>4, SpanSelf, SpanLeft
  <2> QED
    BY <1>6, <1>11, <2>1, <2>2
<1> HIDE DEF s1, s2, s3, s4, t
<1>17. /\ Span(s, 0, Len(R), Elems(R)) /\ Span(s, Len(R), Len(s1), Elems(A))
       /\ Span(s, Len(s1), Len(s2), Elems(U)) /\ Span(s, Len(s2), Len(s3), Elems(E))
       /\ Span(s, Len(s3), Len(s4), Elems(H))
  BY <1>6, <1>9, <1>15, SpanLeft
<1>18. /\ Span(s, Len(s4), Len(s4) + Len(M), Elems(M))
       /\ Span(s, Len(s4) + Len(M), Len(s), Elems(G))
  <2>1. /\ Span(s4 \o t, Len(s4) + 0, Len(s4) + Len(M), Elems(M))
        /\ Span(s4 \o t, Len(s4) + Len(M), Len(s4) + Len(t), Elems(G))
    BY <1>6, <1>9, <1>16, SpanRight
  <2>2. Len(s4) + 0 = Len(s4)
    BY <1>6, <1>7, <1>8, <1>9, <1>11
  <2> QED
    BY <1>10, <2>1, <2>2
<1> HIDE DEF s
<1>19. Span(s, Len(s1), Len(s4) + Len(M), Elems(U) \cup Elems(E) \cup Elems(H) \cup Elems(M))
  BY <1>17, <1>18, SpanJoin
<1>20. StepsOf(base, i) = s /\ ReconciliationPhase(base, i) = s1
  BY <1>1, <1>2 DEF s, s1, s2, s3, s4, t
<1>21. Phases(s, base, i, Len(R), Len(s1), Len(s4) + Len(M))
  BY <1>3, <1>5, <1>17, <1>18, <1>19 DEF Phases
<1> QED
  BY <1>10, <1>20, <1>21

\* No two LISP lines that a valid intent owns on a node have one text: segment
\* addresses and broadcast groups are not used twice.
LEMMA LispLines ==
  ASSUME NEW i \in Plannable, NEW d, NEW l \in OwnedLines(i, d), l.sec[1] = "lisp"
  PROVE  \/ \E vn \in Networks(i) : /\ d \in Segments(i, vn)
                                    /\ l.sec = Lisp(vn)
                                    /\ l.text = <<"mapping", i.policies[vn].segment[d]>>
         \/ \E p \in DOMAIN i.bum : l.sec = Lisp(p) /\ l.text = <<"underlay", i.bum[p]>>
<1>1. ASSUME l \in LinesOf(RpResources(i, d)) PROVE FALSE
  <2>1. l \in RpBlock(i).add \/ l \in MsdpBlock(i, d).add
    BY <1>1, RpLines
  <2>2. RpBlock(i).add = {Header(Loopback("rp")), Line(Loopback("rp"), <<"address", i.rpAddress>>)}
    BY ResourceLines DEF RpBlock
  <2>3. \A x \in MsdpBlock(i, d).add : \E t : x = Line(Global, t)
    BY DEF MsdpBlock, Enter, Block
  <2>4. \A x \in RpBlock(i).add : x.sec = Loopback("rp")
    BY <2>2, LineFields
  <2> QED
    BY <2>1, <2>3, <2>4, LineFields, SectionsApart
<1>2. ASSUME NEW vn, l \in PolicyBlock(i, d, vn).add PROVE FALSE
  <2>1. l \in {Line(Global, <<"routing", vn>>)} \cup AclLines(i, vn) \cup PolicyLines(i, d, vn)
    BY <1>2, PolicyAdds
  <2>2. \A x \in PolicyLines(i, d, vn) : \E t : x = Line(Global, t)
    BY DEF PolicyLines
  <2>3. \A x \in AclLines(i, vn) : x.sec = Acl(i.policies[vn].acl)
    BY LineFields DEF AclLines
  <2> QED
    BY <2>1, <2>2, <2>3, LineFields, SectionsApart
<1>3. ASSUME NEW vn, l \in LinesOf(SviResources(i, d, vn)) PROVE FALSE
  <2>1. \A p : \A x \in SviLines(p) : \E t : x = Line(Vlan(p), t)
    BY DEF SviLines
  <2> QED
    BY <1>3, <2>1, SviOwned, LineFields, SectionsApart
<1>4. ASSUME NEW vn, l \in LinesOf(HandoffResources(i, d, vn)) PROVE FALSE
  BY <1>4, HandoffOwned, LineFields, SectionsApart DEF SparseMode
<1>5. ASSUME NEW vn \in Networks(i), d \in Segments(i, vn), l \in LinesOf(SegmentResources(i, d, vn))
      PROVE  l.sec = Lisp(vn) /\ l.text = <<"mapping", i.policies[vn].segment[d]>>
  <2> DEFINE x == i.policies[vn].segment[d]
             c == i.policies[vn].core
             A == {Header(Loopback(vn)), Line(Loopback(vn), <<"address", x>>)}
             B == {Header(LispPort(vn)), Line(LispPort(vn), <<"transport">>),
                   Line(LispPort(vn), <<"core", c>>)}
             C == {Line(Lisp(vn), <<"mapping", x>>)}
  <2>1. SegmentBlocks(i, d, vn) = <<Enter(A), Enter(B), Enter(C)>>
    BY DEF SegmentBlocks
  <2>2. /\ \A m \in A : m.sec = Loopback(vn)
        /\ \A m \in B : m.sec = LispPort(vn)
        /\ \A m \in C : m.sec = Lisp(vn) /\ m.text = <<"mapping", x>>
    BY LineFields
  <2> HIDE DEF A, B, C
  <2>3. Elems(SegmentBlocks(i, d, vn)) = {Enter(A), Enter(B), Enter(C)}
    BY <2>1, ElemsPair
  <2>4. Enter(A).add = A /\ Enter(B).add = B /\ Enter(C).add = C
    BY ResourceLines
  <2>5. PICK b \in Elems(SegmentBlocks(i, d, vn)) : l \in b.add
    BY <1>5, SegmentOwned
  <2>6. l \in A \/ l \in B \/ l \in C
    BY <2>3, <2>4, <2>5
  <2> QED
    BY <2>2, <2>6, SectionsApart
<1>6. ASSUME l \in LinesOf(BumResources(i, d))
      PROVE  \E p \in DOMAIN i.bum : l.sec = Lisp(p) /\ l.text = <<"underlay", i.bum[p]>>
  <2>1. PICK p \in DOMAIN i.bum : l = Line(Lisp(p), <<"underlay", i.bum[p]>>)
    BY <1>6, BumOwned
  <2>2. l.sec = Lisp(p) /\ l.text = <<"underlay", i.bum[p]>>
    BY <2>1, LineFields
  <2> QED
    BY <2>2
<1> QED
  BY <1>1, <1>2, <1>3, <1>4, <1>5, <1>6, OwnedLinesFrom

LEMMA LispUnique ==
  ASSUME NEW i \in Plannable, NEW d, NEW f \in OwnedLines(i, d), NEW l \in OwnedLines(i, d),
         f.sec[1] = "lisp", l.sec[1] = "lisp", f.text = l.text
  PROVE  f = l
<1>1. /\ \A vn, wn \in Networks(i) : \A x \in Segments(i, vn), y \in Segments(i, wn) :
           i.policies[vn].segment[x] = i.policies[wn].segment[y] => <<vn, x>> = <<wn, y>>
      /\ IsInjective(i.bum)
  BY PlannableForm DEF ValidIntent, ValidSegments, ValidBum
<1>2. \A vn, wn \in Networks(i) : d \in Segments(i, vn) /\ d \in Segments(i, wn)
        /\ i.policies[vn].segment[d] = i.policies[wn].segment[d] => vn = wn
  BY <1>1
<1>3. \A p, q \in DOMAIN i.bum : i.bum[p] = i.bum[q] => p = q
  BY <1>1 DEF IsInjective
<1>4. \A x, y : /\ <<"mapping", x>>[1] = "mapping" /\ <<"underlay", y>>[1] = "underlay"
                /\ <<"mapping", x>> = <<"mapping", y>> => x = y
                /\ <<"underlay", x>> = <<"underlay", y>> => x = y
  OBVIOUS
<1>5. f.sec = l.sec
  <2>1. CASE \E vn \in Networks(i) : /\ d \in Segments(i, vn) /\ f.sec = Lisp(vn)
                                     /\ f.text = <<"mapping", i.policies[vn].segment[d]>>
    <3>1. PICK vn \in Networks(i) : /\ d \in Segments(i, vn) /\ f.sec = Lisp(vn)
                                    /\ f.text = <<"mapping", i.policies[vn].segment[d]>>
      BY <2>1
    <3>4. l.text[1] = "mapping"
      BY <1>4, <3>1
    <3>5. ~\E p \in DOMAIN i.bum : l.text = <<"underlay", i.bum[p]>>
      BY <1>4, <3>4
    <3>2. PICK wn \in Networks(i) : /\ d \in Segments(i, wn) /\ l.sec = Lisp(wn)
                                    /\ l.text = <<"mapping", i.policies[wn].segment[d]>>
      BY <3>5, LispLines
    <3>3. i.policies[vn].segment[d] = i.policies[wn].segment[d]
      BY <1>4, <3>1, <3>2
    <3> QED
      BY <1>2, <3>1, <3>2, <3>3
  <2>2. CASE \E p \in DOMAIN i.bum : f.sec = Lisp(p) /\ f.text = <<"underlay", i.bum[p]>>
    <3>1. PICK p \in DOMAIN i.bum : f.sec = Lisp(p) /\ f.text = <<"underlay", i.bum[p]>>
      BY <2>2
    <3>4. l.text[1] = "underlay"
      BY <1>4, <3>1
    <3>5. ~\E vn \in Networks(i) : l.text = <<"mapping", i.policies[vn].segment[d]>>
      BY <1>4, <3>4
    <3>2. PICK q \in DOMAIN i.bum : l.sec = Lisp(q) /\ l.text = <<"underlay", i.bum[q]>>
      BY <3>5, LispLines
    <3>3. i.bum[p] = i.bum[q]
      BY <1>4, <3>1, <3>2
    <3> QED
      BY <1>3, <3>1, <3>2, <3>3
  <2> QED
    BY <2>1, <2>2, LispLines
<1>6. IsLine(f) /\ IsLine(l)
  BY OwnedLinesKnown
<1> QED
  BY <1>5, <1>6 DEF IsLine

-----------------------------------------------------------------------------
(* How far a run has come.  P are its steps, of which k reconcile, n is the *)
(* next one, before the configuration it started from and c the one it has  *)
(* reached.                                                                 *)

\* A removal that was sent has taken the line.
Swept(P, k, n, d, l) ==
  \E m \in Nat : /\ 1 <= m /\ m < n /\ m <= k
                 /\ P[m].kind = "block" /\ P[m].node = d /\ Killed(P[m].what, l)

\* A line was there before and is swept by no removal, or is of the design.
Origin(P, k, n, i, before, c) ==
  \A d \in Nodes : \A l \in c[d] :
    \/ n > k + 1 /\ l \in Deployed(i, d)
    \/ l \in before[d] /\ ~Swept(P, k, n, d, l)

\* What a block of the design entered is still there.
Entered(P, k, n, c) ==
  \A m \in Nat : k < m /\ m < n /\ P[m].kind = "block" => P[m].what.add \subseteq c[P[m].node]

UnicastKept(before, c) ==
  \A d \in Nodes : \A l \in before[d] : Unicast(l) => l \in c[d]

Known(c) ==
  /\ c = [d \in Nodes |-> c[d]]
  /\ \A d \in Nodes : \A l \in c[d] : IsLine(l) /\ (Unicast(l) \/ l \in Manageable(d))

Progress(P, k, n, i, before, c) ==
  /\ n \in Nat /\ n >= 1
  /\ Origin(P, k, n, i, before, c)
  /\ Entered(P, k, n, c)
  /\ UnicastKept(before, c)

LEMMA EffectLines ==
  \A b, lines, l : l \in Effect(b, lines) <=> (l \in lines /\ ~Killed(b, l)) \/ l \in b.add
BY DEF Effect, Killed

LEMMA StepKinds ==
  ASSUME NEW P, NEW base, NEW i, NEW r, NEW k, NEW g, Phases(P, base, i, r, k, g),
         NEW n \in Nat, n >= 1, n <= Len(P)
  PROVE  /\ r \in Nat /\ k \in Nat /\ g \in Nat /\ r <= k /\ k <= g /\ g <= Len(P) /\ Len(P) \in Nat
         /\ \/ n <= r /\ P[n] \in RemovalSteps(base, i)
            \/ r < n /\ n <= k /\ P[n] \in AbsenceSteps(base, i)
            \/ k < n /\ n <= g /\ P[n] \in DesignSteps(i)
            \/ g < n /\ P[n] \in GateSteps(i)
<1>1. /\ r \in Nat /\ k \in Nat /\ g \in Nat /\ r <= k /\ k <= g /\ g <= Len(P) /\ Len(P) \in Nat
  BY DEF Phases, Span
<1>2. \/ n \in (0 + 1)..r \/ n \in (r + 1)..k \/ n \in (k + 1)..g \/ n \in (g + 1)..Len(P)
  BY <1>1
<1> QED
  BY <1>1, <1>2 DEF Phases, Span

LEMMA OwnedManageable ==
  ASSUME NEW i \in Plannable, NEW d PROVE OwnedLines(i, d) \subseteq Manageable(d)
BY DEF Manageable

LEMMA ManageableOwned ==
  \A d : \A l \in Manageable(d) : IsLine(l) /\ ~Unicast(l)
BY OwnedLinesKnown DEF Manageable

\* A removal is sent.
LEMMA RemovalProgress ==
  ASSUME NEW base \in Plannable, NEW i, NEW P, NEW k \in Nat, NEW n, n <= k,
         NEW before, NEW c, NEW d0 \in Nodes, NEW r \in Stale(base, i, d0),
         P[n] = Send(d0, r.remove),
         Progress(P, k, n, i, before, c), Known(c)
  PROVE  LET e == [c EXCEPT ![d0] = Effect(r.remove, @)]
         IN  Progress(P, k, n + 1, i, before, e) /\ Known(e)
<1> DEFINE e == [c EXCEPT ![d0] = Effect(r.remove, @)]
<1>1. n \in Nat /\ n >= 1 /\ c = [d \in Nodes |-> c[d]]
  BY DEF Progress, Known
<1>2. /\ e = [d \in Nodes |-> e[d]]
      /\ \A d \in Nodes : e[d] = IF d = d0 THEN Effect(r.remove, c[d0]) ELSE c[d]
  BY <1>1
<1> HIDE DEF e
<1>3. r.remove.add = {} /\ \A l : Killed(r.remove, l) => ~Unicast(l)
  <2>1. r \in OwnedState(base, d0)
    BY DEF Stale
  <2>2. Sound(r)
    BY <2>1, OwnedSound
  <2> QED
    BY <2>2 DEF Sound, Block
<1>4. \A d \in Nodes : \A l : l \in e[d] <=> l \in c[d] /\ (d = d0 => ~Killed(r.remove, l))
  BY <1>2, <1>3, EffectLines
<1>5. P[n].kind = "block" /\ P[n].node = d0 /\ P[n].what = r.remove
  BY StepFields
<1>6. Origin(P, k, n + 1, i, before, e)
  <2>1. ASSUME NEW d \in Nodes, NEW l \in e[d]
        PROVE  l \in before[d] /\ ~Swept(P, k, n + 1, d, l)
    <3>1. l \in c[d] /\ (d = d0 => ~Killed(r.remove, l))
      BY <1>4, <2>1
    <3>2. l \in before[d] /\ ~Swept(P, k, n, d, l)
      BY <1>1, <3>1 DEF Progress, Origin
    <3>3. \A m \in Nat : m < n + 1 => m < n \/ m = n
      BY <1>1
    <3>4. ASSUME Swept(P, k, n + 1, d, l) PROVE FALSE
      <4>1. PICK m \in Nat : /\ 1 <= m /\ m < n + 1 /\ m <= k
                             /\ P[m].kind = "block" /\ P[m].node = d /\ Killed(P[m].what, l)
        BY <3>4 DEF Swept
      <4>2. CASE m = n
        BY <1>5, <3>1, <4>1, <4>2
      <4>3. CASE m < n
        BY <3>2, <4>1, <4>3 DEF Swept
      <4> QED
        BY <3>3, <4>1, <4>2, <4>3
    <3> QED
      BY <3>2, <3>4
  <2> QED
    BY <2>1 DEF Origin
<1>7. Entered(P, k, n + 1, e)
  <2>1. \A m \in Nat : ~(k < m /\ m < n + 1)
    BY <1>1
  <2> QED
    BY <2>1 DEF Entered
<1>8. UnicastKept(before, e)
  BY <1>3, <1>4 DEF Progress, UnicastKept
<1>9. Progress(P, k, n + 1, i, before, e)
  BY <1>1, <1>6, <1>7, <1>8 DEF Progress
<1>10. Known(e)
  BY <1>2, <1>4 DEF Known
<1> QED
  BY <1>9, <1>10 DEF e

\* A block of the design is sent.
LEMMA DesignProgress ==
  ASSUME NEW base, NEW i \in Plannable, Startable(i), NEW P, NEW r, NEW k, NEW g,
         Phases(P, base, i, r, k, g), NEW n, k < n, n <= g,
         NEW before, NEW c, NEW d0 \in Nodes, NEW b \in DesignBlocks(i, d0),
         P[n] = Send(d0, b),
         Progress(P, k, n, i, before, c), Known(c)
  PROVE  LET e == [c EXCEPT ![d0] = Effect(b, @)]
         IN  Progress(P, k, n + 1, i, before, e) /\ Known(e)
<1> DEFINE e == [c EXCEPT ![d0] = Effect(b, @)]
<1>1. n \in Nat /\ n >= 1 /\ c = [d \in Nodes |-> c[d]]
  BY DEF Progress, Known
<1>2. /\ e = [d \in Nodes |-> e[d]]
      /\ \A d \in Nodes : e[d] = IF d = d0 THEN Effect(b, c[d0]) ELSE c[d]
  BY <1>1
<1> HIDE DEF e
<1>3. FormOf(i)
  BY PlannableForm
<1>4. \A l : Killed(b, l) => l.sec[1] = "acl"
  BY <1>3, DesignAdds
<1>5. \A d \in Nodes : \A l : l \in e[d] <=>
        \/ l \in c[d] /\ (d = d0 => ~Killed(b, l))
        \/ d = d0 /\ l \in b.add
  BY <1>2, EffectLines
<1>6. P[n].kind = "block" /\ P[n].node = d0 /\ P[n].what = b
  BY StepFields
<1>7. /\ r \in Nat /\ k \in Nat /\ g \in Nat /\ r <= k /\ k <= g /\ g <= Len(P) /\ Len(P) \in Nat
  BY DEF Phases, Span
<1>8. Origin(P, k, n + 1, i, before, e)
  <2>1. ASSUME NEW d \in Nodes, NEW l \in e[d]
        PROVE  \/ n + 1 > k + 1 /\ l \in Deployed(i, d)
               \/ l \in before[d] /\ ~Swept(P, k, n + 1, d, l)
    <3>1. CASE d = d0 /\ l \in b.add
      <4>1. l \in Deployed(i, d)
        BY <1>3, <3>1, DeployedFrom
      <4> QED
        BY <1>1, <1>7, <4>1
    <3>2. CASE l \in c[d]
      <4>1. \/ n > k + 1 /\ l \in Deployed(i, d)
            \/ l \in before[d] /\ ~Swept(P, k, n, d, l)
        BY <3>2 DEF Progress, Origin
      <4>2. \A m \in Nat : m <= k => m < n
        BY <1>1, <1>7
      <4>3. ASSUME Swept(P, k, n + 1, d, l) PROVE Swept(P, k, n, d, l)
        <5>1. PICK m \in Nat : /\ 1 <= m /\ m < n + 1 /\ m <= k
                               /\ P[m].kind = "block" /\ P[m].node = d /\ Killed(P[m].what, l)
          BY <4>3 DEF Swept
        <5> QED
          BY <4>2, <5>1 DEF Swept
      <4> QED
        BY <1>1, <1>7, <4>1, <4>3
    <3> QED
      BY <1>5, <2>1, <3>1, <3>2
  <2> QED
    BY <2>1 DEF Origin
<1>9. Entered(P, k, n + 1, e)
  <2>1. ASSUME NEW m \in Nat, k < m, m < n + 1, P[m].kind = "block"
        PROVE  P[m].what.add \subseteq e[P[m].node]
    <3>1. (m = n \/ m < n) /\ m \in (k + 1)..g
      BY <1>1, <1>7, <2>1
    <3>2. CASE m = n
      BY <1>5, <1>6, <3>2
    <3>3. CASE m < n
      <4>1. P[m].what.add \subseteq c[P[m].node]
        BY <2>1, <3>1, <3>3 DEF Progress, Entered
      <4>2. P[m] \in DesignSteps(i)
        BY <3>1 DEF Phases, Span
      <4>3. PICK d \in Nodes : \E x \in DesignBlocks(i, d) : P[m] = Send(d, x)
        BY <4>2, StepSets
      <4>4. P[m].node = d /\ P[m].what \in DesignBlocks(i, d)
        BY <4>3, StepFields
      <4>5. d = d0 => \A l \in P[m].what.add : Killed(b, l) => l \in b.add
        BY <4>4, AnewComplete
      <4> QED
        BY <1>5, <4>1, <4>4, <4>5
    <3> QED
      BY <3>1, <3>2, <3>3
  <2> QED
    BY <2>1 DEF Entered
<1>10. UnicastKept(before, e)
  <2>1. \A l : Unicast(l) => ~Killed(b, l)
    BY <1>4 DEF Unicast
  <2> QED
    BY <1>5, <2>1 DEF Progress, UnicastKept
<1>11. Known(e)
  <2>1. \A l \in b.add : IsLine(l) /\ (Unicast(l) \/ l \in Manageable(d0))
    BY EnteredOwned, OwnedManageable
  <2> QED
    BY <1>2, <1>5, <2>1 DEF Known
<1>12. Progress(P, k, n + 1, i, before, e)
  BY <1>1, <1>8, <1>9, <1>10 DEF Progress
<1> QED
  BY <1>11, <1>12 DEF e

\* A gate passes and changes nothing.
LEMMA GateProgress ==
  ASSUME NEW P, NEW k \in Nat, NEW n, NEW i, NEW before, NEW c,
         P[n].kind # "block", Progress(P, k, n, i, before, c)
  PROVE  Progress(P, k, n + 1, i, before, c)
<1>1. n \in Nat /\ n >= 1 /\ \A m \in Nat : m < n + 1 <=> m < n \/ m = n
  BY DEF Progress
<1>2. \A d, l : Swept(P, k, n + 1, d, l) => Swept(P, k, n, d, l)
  <2> TAKE d, l
  <2> HAVE Swept(P, k, n + 1, d, l)
  <2>1. PICK m \in Nat : /\ 1 <= m /\ m < n + 1 /\ m <= k
                         /\ P[m].kind = "block" /\ P[m].node = d /\ Killed(P[m].what, l)
    BY DEF Swept
  <2>2. m < n
    BY <1>1, <2>1
  <2> QED
    BY <2>1, <2>2 DEF Swept
<1>3. Origin(P, k, n + 1, i, before, c)
  BY <1>1, <1>2 DEF Progress, Origin
<1>4. Entered(P, k, n + 1, c)
  BY <1>1 DEF Progress, Entered
<1> QED
  BY <1>1, <1>3, <1>4 DEF Progress

\* The removal of a stale resource has been sent before the reconciliation is
\* over, and has taken its lines.
LEMMA StaleSwept ==
  ASSUME NEW P, NEW base, NEW i, NEW r, NEW k, NEW g, Phases(P, base, i, r, k, g),
         NEW n \in Nat, r < n, NEW d \in Nodes, NEW s \in Stale(base, i, d), NEW l \in s.lines
  PROVE  Swept(P, k, n, d, l)
<1>1. s \in OwnedState(base, d)
  BY DEF Stale
<1>2. Killed(s.remove, l)
  BY <1>1, OwnedSound DEF Sound
<1>3. Send(d, s.remove) \in RemovalSteps(base, i)
  BY StepSets
<1>4. PICK m \in (0 + 1)..r : P[m] = Send(d, s.remove)
  BY <1>3 DEF Phases, Span
<1>5. r \in Nat /\ k \in Nat /\ r <= k
  BY DEF Phases, Span
<1>6. m \in Nat /\ 1 <= m /\ m < n /\ m <= k
  BY <1>4, <1>5
<1> QED
  BY <1>2, <1>4, <1>6, StepFields DEF Swept

\* A line of the design that has been entered as a whole is there.
LEMMA DesignThere ==
  ASSUME NEW P, NEW base, NEW i, NEW r, NEW k, NEW g, Phases(P, base, i, r, k, g),
         NEW n \in Nat, g < n, NEW c, Entered(P, k, n, c),
         NEW d \in Nodes, NEW b \in DesignBlocks(i, d)
  PROVE  b.add \subseteq c[d]
<1>1. Send(d, b) \in DesignSteps(i)
  BY StepSets
<1>2. PICK m \in (k + 1)..g : P[m] = Send(d, b)
  BY <1>1 DEF Phases, Span
<1>3. k \in Nat /\ g \in Nat
  BY DEF Phases, Span
<1>4. m \in Nat /\ k < m /\ m < n
  BY <1>2, <1>3
<1> QED
  BY <1>2, <1>4, StepFields DEF Entered

\* What is left of the lines the baseline owned proves absent.
LEMMA AbsenceHolds ==
  ASSUME NEW base \in Plannable, NEW i, NEW P, NEW r, NEW k, NEW g, Phases(P, base, i, r, k, g),
         NEW n, r < n, n <= k, NEW d \in Nodes, NEW s \in Stale(base, i, d),
         NEW before, NEW c, Progress(P, k, n, i, before, c), Known(c),
         before[d] \cap Manageable(d) = OwnedLines(base, d)
  PROVE  Absent(s, c[d])
<1> SUFFICES ASSUME NEW f \in s.forbidden, NEW l \in c[d],
                    (f.sec[1] = "lisp" /\ l.sec[1] = "lisp") \/ f.sec = l.sec,
                    l.text = f.text
             PROVE  FALSE
  BY DEF Absent
<1>1. n \in Nat /\ k \in Nat
  BY DEF Progress, Phases, Span
<1>2. l \in before[d] /\ ~Swept(P, k, n, d, l)
  BY <1>1 DEF Progress, Origin
<1>3. s \in OwnedState(base, d)
  BY DEF Stale
<1>4. f \in s.lines /\ f \in OwnedLines(base, d)
  BY <1>3, OwnedSound DEF Sound, OwnedLines
<1>5. IsLine(f) /\ ~Unicast(f) /\ IsLine(l)
  BY <1>4, OwnedLinesKnown DEF Known
<1>6. f = l
  <2>1. CASE f.sec = l.sec
    BY <1>5, <2>1 DEF IsLine
  <2>2. CASE f.sec[1] = "lisp" /\ l.sec[1] = "lisp"
    <3>1. ~Unicast(l)
      BY <1>5, <2>2 DEF Unicast
    <3>2. l \in Manageable(d)
      BY <3>1 DEF Known
    <3>3. l \in OwnedLines(base, d)
      BY <1>2, <3>2
    <3> QED
      BY <1>4, <2>2, <3>3, LispUnique
  <2> QED
    BY <2>1, <2>2
<1>7. Swept(P, k, n, d, f)
  BY <1>1, <1>4, StaleSwept
<1> QED
  BY <1>2, <1>6, <1>7

\* At the end the nodes hold the lines of the new manifest.
LEMMA RunExact ==
  ASSUME NEW base \in Plannable, NEW i \in Plannable, Startable(i), NEW P, NEW r, NEW k, NEW g,
         Phases(P, base, i, r, k, g), NEW n, n > Len(P), NEW d \in Nodes,
         NEW before, NEW c, Progress(P, k, n, i, before, c), Known(c),
         before[d] \cap Manageable(d) = OwnedLines(base, d)
  PROVE  c[d] \cap Manageable(d) = OwnedLines(i, d)
<1>1. /\ n \in Nat /\ r \in Nat /\ k \in Nat /\ g \in Nat /\ Len(P) \in Nat
      /\ r <= k /\ k <= g /\ g <= Len(P)
  BY DEF Progress, Phases, Span
<1>2. r < n /\ g < n
  BY <1>1
<1>3. ASSUME NEW l \in OwnedLines(i, d)
      PROVE  l \in c[d] /\ l \in Manageable(d)
  <2>1. PICK b \in DesignBlocks(i, d) : l \in b.add
    BY OwnedEntered
  <2>2. b.add \subseteq c[d]
    BY <1>1, <1>2, DesignThere DEF Progress
  <2> QED
    BY <2>1, <2>2, OwnedManageable
<1>4. ASSUME NEW l \in c[d], l \in Manageable(d)
      PROVE  l \in OwnedLines(i, d)
  <2>1. CASE l \in Deployed(i, d)
    <3>1. FormOf(i)
      BY PlannableForm
    <3>2. PICK b \in DesignBlocks(i, d) : l \in b.add
      BY <2>1, <3>1, DeployedFrom
    <3> QED
      BY <1>4, <3>2, EnteredOwned, ManageableOwned
  <2>2. CASE l \in before[d] /\ ~Swept(P, k, n, d, l)
    <3>1. l \in OwnedLines(base, d)
      BY <1>4, <2>2
    <3>2. PICK s \in OwnedState(base, d) : l \in s.lines
      BY <3>1 DEF OwnedLines
    <3>3. s \notin Stale(base, i, d)
      BY <1>1, <1>2, <2>2, <3>2, StaleSwept
    <3> QED
      BY <3>2, <3>3 DEF Stale, OwnedLines
  <2> QED
    BY <2>1, <2>2 DEF Progress, Origin
<1> QED
  BY <1>3, <1>4

-----------------------------------------------------------------------------
(* The invariant. *)

Plan == [intent : Plannable, base : Plannable \cup {None}]

PlanTypes ==
  /\ ledger \in Plannable \cup {None}
  /\ request # None => request \in Plan
  /\ plans \subseteq Plan
  /\ run = [plan |-> run.plan, pos |-> run.pos, before |-> run.before]
  /\ Locked => run.plan \in Plan /\ run.pos \in Nat

\* The run goes on from a baseline, which its checkpoints hold if it is the
\* newest and nothing was applied from an old one.
RunAnchored ==
  /\ run.plan.base \in Plannable /\ run.plan.base # None /\ Startable(run.plan.intent)
  /\ Known(run.before)
  /\ clean /\ ledger # None =>
       \A d \in Nodes : run.before[d] \cap Manageable(d) = OwnedLines(ledger, d)

RunProgress ==
  Progress(StepsOf(run.plan.base, run.plan.intent),
           Len(ReconciliationPhase(run.plan.base, run.plan.intent)),
           run.pos, run.plan.intent, run.before, config)

ReconcileInv ==
  /\ PlanTypes
  /\ Known(config)
  /\ LedgerIsReality
  /\ Running => RunAnchored /\ RunProgress

LEMMA MatchesLines ==
  ASSUME NEW i \in Plannable
  PROVE  Matches(i) <=> \A d \in Nodes : config[d] \cap Manageable(d) = OwnedLines(i, d)
BY DEF Matches, ManageableOn, OwnedOn

LEMMA PlanFields ==
  ASSUME NEW p \in Plan
  PROVE  /\ p.intent \in Plannable /\ p.base \in Plannable \cup {None}
         /\ \A r, b, n : [plan |-> p, pos |-> n, before |-> b].plan = p
BY DEF Plan

LEMMA RunSteps ==
  ASSUME PlanTypes, Running, RunAnchored
  PROVE  /\ Steps = StepsOf(run.plan.base, run.plan.intent)
         /\ run.plan.base \in Plannable /\ run.plan.intent \in Plannable
<1>1. run.plan.base \in Plannable /\ run.plan.intent \in Plannable
  BY PlanFields DEF PlanTypes, Running, RunAnchored
<1> QED
  BY <1>1 DEF Steps, Program

LEMMA ReconcileInit ==
  ASSUME RInit PROVE ReconcileInv
<1>1. PICK i \in Plannable : /\ ~(i.enabled /\ i.transport = "head_end")
                             /\ config = [d \in Nodes |-> Deployed(i, d)]
  BY DEF RInit
<1>2. FormOf(i)
  BY PlannableForm
<1>3. Startable(i)
  BY <1>1, <1>2 DEF Startable, Native, FormOf
<1>4. ASSUME NEW d \in Nodes, NEW l \in config[d]
      PROVE  IsLine(l) /\ (Unicast(l) \/ l \in Manageable(d))
  <2>1. l \in Deployed(i, d)
    BY <1>1
  <2>2. PICK b \in DesignBlocks(i, d) : l \in b.add
    BY <1>2, <2>1, DeployedFrom
  <2> QED
    BY <1>3, <2>2, EnteredOwned, OwnedManageable
<1>5. Known(config)
  BY <1>1, <1>4 DEF Known
<1>6. PlanTypes /\ ~Running /\ LedgerIsReality
  BY DEF RInit, PlanTypes, Running, Locked, LedgerIsReality, NoRun
<1> QED
  BY <1>5, <1>6 DEF ReconcileInv

LEMMA StartKeepsInv ==
  ASSUME ReconcileInv, Start PROVE ReconcileInv'
<1> DEFINE p == run.plan
<1>1. /\ Locked /\ ~Running /\ Blockers(p.intent, p.base) \subseteq Accepted
      /\ run' = [plan |-> p, pos |-> 1, before |-> config]
      /\ UNCHANGED <<config, ledger, request, plans, clean>>
  BY DEF Start
<1>2. p \in Plan
  BY <1>1 DEF ReconcileInv, PlanTypes
<1>4. run'.plan = p /\ run'.pos = 1 /\ run'.before = config
  BY <1>1
<1>5. p.intent \in Plannable /\ p.base \in Plannable \cup {None}
  BY <1>2, PlanFields
<1> HIDE DEF p
<1>6. p.base \in Plannable /\ p.base # None
  <2>1. "baseline_missing" \notin Blockers(p.intent, p.base)
    BY <1>1, AcceptedAssumption
  <2>2. p.base # None
    BY <2>1 DEF Blockers
  <2> QED
    BY <1>5, <2>2
<1>7. Startable(p.intent)
  <2>1. "head_end_pending" \notin Blockers(p.intent, p.base)
    BY <1>1, AcceptedAssumption
  <2> QED
    BY <2>1 DEF Blockers, Startable
<1>8. PlanTypes'
  BY <1>1, <1>2, <1>4 DEF ReconcileInv, PlanTypes
<1>9. RunAnchored'
  <2>1. clean /\ ledger # None => \A d \in Nodes : config[d] \cap Manageable(d) = OwnedLines(ledger, d)
    BY <1>1, MatchesLines DEF ReconcileInv, PlanTypes, LedgerIsReality
  <2> QED
    BY <1>1, <1>4, <1>6, <1>7, <2>1 DEF ReconcileInv, RunAnchored
<1>10. RunProgress'
  <2> DEFINE P == StepsOf(p.base, p.intent)
             k == Len(ReconciliationPhase(p.base, p.intent))
  <2>1. \A d, l : ~Swept(P, k, 1, d, l)
    BY DEF Swept
  <2>2. Progress(P, k, 1, p.intent, config, config)
    BY <2>1 DEF Progress, Origin, Entered, UnicastKept
  <2> QED
    BY <1>1, <1>4, <2>2 DEF RunProgress
<1>11. Running'
  BY <1>1, <1>4 DEF Running, Locked, p
<1> QED
  BY <1>1, <1>8, <1>9, <1>10, <1>11 DEF ReconcileInv, LedgerIsReality, Known

LEMMA SendKeepsInv ==
  ASSUME ReconcileInv, SendBlock PROVE ReconcileInv'
<1> DEFINE base == run.plan.base
           i == run.plan.intent
           P == StepsOf(base, i)
           k == Len(ReconciliationPhase(base, i))
           n == run.pos
<1>1. /\ Running /\ ~Finished /\ Step.kind = "block"
      /\ config' = [config EXCEPT ![Step.node] = Effect(Step.what, @)]
      /\ run' = [run EXCEPT !.pos = @ + 1]
      /\ UNCHANGED <<ledger, request, plans, clean>>
  BY DEF SendBlock
<1>2. PlanTypes /\ Known(config) /\ RunAnchored /\ RunProgress
  BY <1>1 DEF ReconcileInv
<1>3. Steps = P /\ base \in Plannable /\ i \in Plannable /\ Startable(i)
  BY <1>1, <1>2, RunSteps DEF RunAnchored
<1>4. run = [plan |-> run.plan, pos |-> n, before |-> run.before]
  BY <1>2 DEF PlanTypes
<1>5. run'.plan = run.plan /\ run'.pos = n + 1 /\ run'.before = run.before
      /\ run' = [plan |-> run'.plan, pos |-> run'.pos, before |-> run'.before]
  BY <1>1, <1>4
<1>6. Locked /\ Locked' /\ n \in Nat /\ n > 0 /\ n + 1 > 0 /\ n + 1 \in Nat
  BY <1>1, <1>2, <1>5 DEF Running, Locked, PlanTypes
<1>7. Running'
  BY <1>5, <1>6 DEF Running
<1>8. PlanTypes'
  BY <1>1, <1>2, <1>5, <1>6 DEF PlanTypes
<1>9. RunAnchored'
  BY <1>1, <1>2, <1>5 DEF RunAnchored, Known
<1>10. PICK r, g : Phases(P, base, i, r, k, g)
  BY <1>3, StepsPhases
<1>11. Progress(P, k, n, i, run.before, config)
  BY <1>2 DEF RunProgress
<1>12. Step = P[n] /\ ~(n > Len(P)) /\ k \in Nat /\ Len(P) \in Nat /\ n <= Len(P)
  <2>1. Step = P[n] /\ ~(n > Len(P))
    BY <1>1, <1>3 DEF Step, Finished
  <2> HIDE DEF P, k, n, base, i
  <2>2. k \in Nat /\ Len(P) \in Nat
    BY <1>10 DEF Phases, Span
  <2> QED
    BY <1>6, <2>1, <2>2
<1>13. P[n].kind = "block" /\ config' = [config EXCEPT ![P[n].node] = Effect(P[n].what, @)]
  BY <1>1, <1>12
<1>14. Progress(P, k, n + 1, i, run.before, config') /\ Known(config')
  <2> HIDE DEF P, k, n, base, i
  <2>1. \/ n <= r /\ P[n] \in RemovalSteps(base, i)
        \/ n <= k /\ P[n] \in AbsenceSteps(base, i)
        \/ k < n /\ n <= g /\ P[n] \in DesignSteps(i)
        \/ P[n] \in GateSteps(i)
    BY <1>6, <1>10, <1>12, StepKinds
  <2>2. r \in Nat /\ r <= k
    BY <1>10 DEF Phases, Span
  <2>3. P[n] \notin AbsenceSteps(base, i) /\ P[n] \notin GateSteps(i)
    BY <1>13, StepSets, StepFields
  <2>4. CASE n <= r /\ P[n] \in RemovalSteps(base, i)
    <3>1. PICK d \in Nodes : \E s \in Stale(base, i, d) : P[n] = Send(d, s.remove)
      BY <2>4, StepSets
    <3>2. PICK s \in Stale(base, i, d) : P[n] = Send(d, s.remove)
      BY <3>1
    <3>5. P[n].node = d /\ P[n].what = s.remove
      BY <3>2, StepFields
    <3>3. config' = [config EXCEPT ![d] = Effect(s.remove, @)]
      BY <1>13, <3>5
    <3>4. n <= k
      BY <1>6, <1>12, <2>2, <2>4
    <3> QED
      BY <1>2, <1>3, <1>11, <1>12, <3>2, <3>3, <3>4, RemovalProgress
  <2>5. CASE k < n /\ n <= g /\ P[n] \in DesignSteps(i)
    <3>1. PICK d \in Nodes : \E b \in DesignBlocks(i, d) : P[n] = Send(d, b)
      BY <2>5, StepSets
    <3>2. PICK b \in DesignBlocks(i, d) : P[n] = Send(d, b)
      BY <3>1
    <3>4. P[n].node = d /\ P[n].what = b
      BY <3>2, StepFields
    <3>3. config' = [config EXCEPT ![d] = Effect(b, @)]
      BY <1>13, <3>4
    <3> QED
      BY <1>2, <1>3, <1>10, <1>11, <2>5, <3>2, <3>3, DesignProgress
  <2> QED
    BY <2>1, <2>3, <2>4, <2>5
<1>15. RunProgress'
  BY <1>5, <1>14 DEF RunProgress
<1> QED
  BY <1>7, <1>8, <1>9, <1>14, <1>15 DEF ReconcileInv, LedgerIsReality

LEMMA PassKeepsInv ==
  ASSUME ReconcileInv, PassGate PROVE ReconcileInv'
<1> DEFINE base == run.plan.base
           i == run.plan.intent
           P == StepsOf(base, i)
           k == Len(ReconciliationPhase(base, i))
           n == run.pos
<1>1. /\ Running /\ ~Finished /\ Step.kind # "block"
      /\ run' = [run EXCEPT !.pos = @ + 1]
      /\ UNCHANGED <<config, ledger, request, plans, clean>>
  BY DEF PassGate
<1>2. PlanTypes /\ Known(config) /\ RunAnchored /\ RunProgress
  BY <1>1 DEF ReconcileInv
<1>3. Steps = P /\ base \in Plannable /\ i \in Plannable
  BY <1>1, <1>2, RunSteps
<1>4. run = [plan |-> run.plan, pos |-> n, before |-> run.before]
  BY <1>2 DEF PlanTypes
<1>5. run'.plan = run.plan /\ run'.pos = n + 1 /\ run'.before = run.before
      /\ run' = [plan |-> run'.plan, pos |-> run'.pos, before |-> run'.before]
  BY <1>1, <1>4
<1>6. Locked /\ Locked' /\ n \in Nat /\ n > 0 /\ n + 1 > 0 /\ n + 1 \in Nat
  BY <1>1, <1>2, <1>5 DEF Running, Locked, PlanTypes
<1>7. Running'
  BY <1>5, <1>6 DEF Running
<1>8. PlanTypes'
  BY <1>1, <1>2, <1>5, <1>6 DEF PlanTypes
<1>9. RunAnchored'
  BY <1>1, <1>2, <1>5 DEF RunAnchored, Known
<1>10. PICK r, g : Phases(P, base, i, r, k, g)
  BY <1>3, StepsPhases
<1>11. Progress(P, k, n, i, run.before, config)
  BY <1>2 DEF RunProgress
<1>12. P[n].kind # "block"
  BY <1>1, <1>3 DEF Step
<1>13. Progress(P, k, n + 1, i, run.before, config)
  <2> HIDE DEF P, k, n, base, i
  <2>1. k \in Nat
    BY <1>10 DEF Phases, Span
  <2> QED
    BY <1>11, <1>12, <2>1, GateProgress
<1>14. RunProgress'
  BY <1>1, <1>5, <1>13 DEF RunProgress
<1>15. Known(config)'
  BY <1>1, <1>2 DEF Known
<1> QED
  BY <1>7, <1>8, <1>9, <1>14, <1>15 DEF ReconcileInv, LedgerIsReality

LEMMA CompleteKeepsInv ==
  ASSUME ReconcileInv, Complete PROVE ReconcileInv'
<1> DEFINE base == run.plan.base
           i == run.plan.intent
           P == StepsOf(base, i)
           k == Len(ReconciliationPhase(base, i))
           n == run.pos
<1>1. /\ Running /\ Finished
      /\ ledger' = i
      /\ clean' = (clean /\ base = ledger)
      /\ run' = NoRun
      /\ UNCHANGED <<config, request, plans>>
  BY DEF Complete
<1>2. PlanTypes /\ Known(config) /\ RunAnchored /\ RunProgress
  BY <1>1 DEF ReconcileInv
<1>3. Steps = P /\ base \in Plannable /\ i \in Plannable /\ Startable(i)
  BY <1>1, <1>2, RunSteps DEF RunAnchored
<1>4. PICK r, g : Phases(P, base, i, r, k, g)
  BY <1>3, StepsPhases
<1>5. Progress(P, k, n, i, run.before, config) /\ n > Len(P)
  BY <1>1, <1>2, <1>3 DEF RunProgress, Finished
<1>6. ASSUME clean', ledger' # None
      PROVE  \A d \in Nodes : config'[d] \cap Manageable(d) = OwnedLines(ledger', d)
  <2>1. clean /\ base = ledger
    BY <1>1, <1>6
  <2>2. base # None
    BY <1>2 DEF RunAnchored
  <2>3. \A d \in Nodes : config[d] \cap Manageable(d) = OwnedLines(i, d)
    <3>1. \A d \in Nodes : run.before[d] \cap Manageable(d) = OwnedLines(base, d)
      BY <1>2, <2>1, <2>2 DEF RunAnchored
    <3> HIDE DEF P, k, n, base, i
    <3> QED
      BY <1>2, <1>3, <1>4, <1>5, <3>1, RunExact
  <2> QED
    BY <1>1, <2>3
<1>7. run'.plan = None /\ run' = [plan |-> run'.plan, pos |-> run'.pos, before |-> run'.before]
      /\ ~Locked' /\ ~Running'
  BY <1>1 DEF NoRun, Locked, Running
<1>8. PlanTypes'
  BY <1>1, <1>2, <1>3, <1>7 DEF PlanTypes
<1>9. Known(config)'
  BY <1>1, <1>2 DEF Known
<1>10. LedgerIsReality'
  <2>1. ASSUME clean', ledger' # None PROVE Matches(ledger)'
    <3>1. \A d \in Nodes : config'[d] \cap ManageableOn[d] = OwnedOn[ledger'][d]
      BY <1>1, <1>3, <1>6, <2>1 DEF ManageableOn, OwnedOn
    <3> QED
      BY <3>1 DEF Matches
  <2> QED
    BY <2>1 DEF LedgerIsReality
<1> QED
  BY <1>7, <1>8, <1>9, <1>10 DEF ReconcileInv

LEMMA FailKeepsInv ==
  ASSUME ReconcileInv, Fail PROVE ReconcileInv'
<1>1. /\ Running /\ config' = run.before /\ run' = NoRun
      /\ UNCHANGED <<ledger, request, plans, clean>>
  BY DEF Fail
<1>2. PlanTypes /\ RunAnchored
  BY <1>1 DEF ReconcileInv
<1>3. /\ run'.plan = None /\ run' = [plan |-> run'.plan, pos |-> run'.pos, before |-> run'.before]
      /\ ~Locked' /\ ~Running'
  BY <1>1 DEF NoRun, Locked, Running
<1>4. PlanTypes'
  BY <1>1, <1>2, <1>3 DEF PlanTypes
<1>5. Known(config)'
  BY <1>1, <1>2 DEF RunAnchored, Known
<1>6. LedgerIsReality'
  <2>1. ASSUME clean, ledger # None
        PROVE  \A d \in Nodes : config'[d] \cap ManageableOn[d] = OwnedOn[ledger][d]
    <3>1. ledger \in Plannable
      BY <1>2, <2>1 DEF PlanTypes
    <3>2. \A d \in Nodes : config'[d] \cap Manageable(d) = OwnedLines(ledger, d)
      BY <1>1, <1>2, <2>1 DEF RunAnchored
    <3> QED
      BY <3>1, <3>2 DEF ManageableOn, OwnedOn
  <2> QED
    BY <1>1, <2>1 DEF LedgerIsReality, Matches
<1> QED
  BY <1>3, <1>4, <1>5, <1>6 DEF ReconcileInv

LEMMA AdoptKeepsInv ==
  ASSUME ReconcileInv, NEW i \in Plannable, Adopt(i) PROVE ReconcileInv'
<1>1. /\ ~Locked /\ Matches(i) /\ ledger' = i
      /\ UNCHANGED <<config, request, plans, run>>
  BY DEF Adopt
<1>2. ~Running /\ ~Running' /\ (Locked' <=> Locked)
  BY <1>1 DEF Running, Locked
<1>3. PlanTypes'
  BY <1>1, <1>2 DEF ReconcileInv, PlanTypes
<1>4. LedgerIsReality'
  BY <1>1 DEF LedgerIsReality, Matches
<1>5. Known(config)'
  BY <1>1 DEF ReconcileInv, Known
<1> QED
  BY <1>2, <1>3, <1>4, <1>5 DEF ReconcileInv

\* Requests and plans are told apart from runs.
LEMMA PlansKeepInv ==
  ASSUME ReconcileInv, UNCHANGED <<config, ledger, run, clean>>,
         request' # None => request' \in Plan, plans' \subseteq Plan
  PROVE  ReconcileInv'
<1>1. (Running' <=> Running) /\ (Locked' <=> Locked)
  BY DEF Running, Locked
<1>2. PlanTypes'
  BY <1>1 DEF ReconcileInv, PlanTypes
<1>3. LedgerIsReality'
  BY <1>1 DEF ReconcileInv, LedgerIsReality, Matches
<1>4. Known(config)'
  BY DEF ReconcileInv, Known
<1>5. Running' => RunAnchored' /\ RunProgress'
  BY <1>1 DEF ReconcileInv, RunAnchored, RunProgress, Known
<1> QED
  BY <1>2, <1>3, <1>4, <1>5 DEF ReconcileInv

\* A run is queued, or refused before it starts.
LEMMA QueueKeepsInv ==
  ASSUME ReconcileInv, UNCHANGED <<config, ledger, request, plans, clean>>, ~Running,
         run' = [plan |-> run'.plan, pos |-> 0, before |-> run'.before],
         run'.plan # None => run'.plan \in Plan
  PROVE  ReconcileInv'
<1>1. run'.pos = 0 /\ run' = [plan |-> run'.plan, pos |-> run'.pos, before |-> run'.before]
  OBVIOUS
<1>2. ~Running'
  BY <1>1 DEF Running
<1>3. PlanTypes'
  BY <1>1 DEF ReconcileInv, PlanTypes, Locked
<1>4. LedgerIsReality'
  BY DEF ReconcileInv, LedgerIsReality, Matches
<1>5. Known(config)'
  BY DEF ReconcileInv, Known
<1> QED
  BY <1>2, <1>3, <1>4, <1>5 DEF ReconcileInv

LEMMA StepKeepsInv ==
  ReconcileInv /\ [RNext]_vars => ReconcileInv'
<1> SUFFICES ASSUME ReconcileInv, [RNext]_vars PROVE ReconcileInv'
  OBVIOUS
<1>0. PlanTypes
  BY DEF ReconcileInv
<1>1. ASSUME NEW i \in Plannable, Adopt(i) PROVE ReconcileInv'
  BY <1>1, AdoptKeepsInv
<1>2. ASSUME NEW i \in Plannable, Request(i) PROVE ReconcileInv'
  <2>1. request' \in Plan
    BY <1>0, <1>2 DEF Request, Plan, PlanTypes
  <2> QED
    BY <1>0, <1>2, <2>1, PlansKeepInv DEF Request, PlanTypes
<1>3. ASSUME NEW p \in plans, Expire(p) PROVE ReconcileInv'
  BY <1>0, <1>3, PlansKeepInv DEF Expire, PlanTypes
<1>4. ASSUME NEW p \in plans, Confirm(p) PROVE ReconcileInv'
  <2>1. /\ run' = [plan |-> p, pos |-> 0, before |-> None] /\ ~Locked
        /\ UNCHANGED <<config, ledger, request, plans, clean>>
    BY <1>4 DEF Confirm
  <2>2. run' = [plan |-> run'.plan, pos |-> 0, before |-> run'.before] /\ run'.plan = p
    BY <2>1
  <2>3. p \in Plan /\ ~Running
    BY <1>0, <2>1 DEF PlanTypes, Running
  <2> QED
    BY <2>1, <2>2, <2>3, QueueKeepsInv
<1>5. CASE SavePlan
  BY <1>0, <1>5, PlansKeepInv DEF SavePlan, PlanTypes
<1>6. CASE LoseRequest
  BY <1>0, <1>6, PlansKeepInv DEF LoseRequest, PlanTypes
<1>7. CASE Refuse
  <2>1. /\ run' = NoRun /\ ~Running
        /\ UNCHANGED <<config, ledger, request, plans, clean>>
    BY <1>7 DEF Refuse
  <2>2. run' = [plan |-> run'.plan, pos |-> 0, before |-> run'.before] /\ run'.plan = None
    BY <2>1 DEF NoRun
  <2> QED
    BY <2>1, <2>2, QueueKeepsInv
<1>8. CASE UNCHANGED vars
  BY <1>0, <1>8, PlansKeepInv DEF vars, PlanTypes
<1> QED
  BY <1>1, <1>2, <1>3, <1>4, <1>5, <1>6, <1>7, <1>8, StartKeepsInv, SendKeepsInv,
     PassKeepsInv, FailKeepsInv, CompleteKeepsInv DEF RNext

\* The invariant of plans, runs and configurations.
THEOREM ReconcileInvariant == RSpec => []ReconcileInv
<1>1. RInit => ReconcileInv
  BY ReconcileInit
<1> QED
  BY <1>1, StepKeepsInv, PTL DEF RSpec

\* Between runs the nodes hold exactly the multicast lines of the newest
\* manifest, as long as plans were applied on the baseline they were made from.
THEOREM LedgerHolds == RSpec => []LedgerIsReality
<1>1. ReconcileInv => LedgerIsReality
  BY DEF ReconcileInv
<1> QED
  BY <1>1, ReconcileInvariant, PTL

LEMMA CurrentFacts ==
  ASSUME ReconcileInv, Current
  PROVE  /\ PlanTypes /\ Known(config) /\ RunAnchored /\ RunProgress
         /\ ledger = run.plan.base /\ ledger \in Plannable
         /\ \A d \in Nodes : run.before[d] \cap Manageable(d) = OwnedLines(ledger, d)
<1>1. Running /\ clean /\ run.plan.base = ledger
  BY DEF Current
<1>2. PlanTypes /\ Known(config) /\ RunAnchored /\ RunProgress
  BY <1>1 DEF ReconcileInv
<1> QED
  BY <1>1, <1>2 DEF RunAnchored

\* A run removes no line that the baseline of its plan does not own.
THEOREM OnlyOwnedRemovedHolds == RSpec => []OnlyOwnedRemoved
<1>1. ASSUME ReconcileInv PROVE OnlyOwnedRemoved
  <2> SUFFICES ASSUME Current, NEW d \in Nodes, NEW l \in run.before[d], l \notin OwnedOn[ledger][d]
               PROVE  l \in config[d]
    BY DEF OnlyOwnedRemoved
  <2>1. ledger \in Plannable /\ run.before[d] \cap Manageable(d) = OwnedLines(ledger, d)
    BY <1>1, CurrentFacts
  <2>2. l \notin Manageable(d)
    BY <2>1 DEF OwnedOn
  <2>3. Unicast(l)
    BY <1>1, <2>2, CurrentFacts DEF RunAnchored, Known
  <2> QED
    BY <1>1, <2>3, CurrentFacts DEF RunProgress, Progress, UnicastKept
<1> QED
  BY <1>1, ReconcileInvariant, PTL

\* No gate of a run on a current baseline fails because of the configuration.
THEOREM GatesHoldAlways == RSpec => []GatesHold
<1>1. ASSUME ReconcileInv PROVE GatesHold
  <2> DEFINE base == run.plan.base
             i == run.plan.intent
             P == StepsOf(base, i)
             k == Len(ReconciliationPhase(base, i))
             n == run.pos
  <2> SUFFICES ASSUME Current, ~Finished, Step.kind # "block"
               PROVE  GatePasses(Step)
    BY DEF GatesHold
  <2>1. /\ PlanTypes /\ Known(config) /\ RunAnchored /\ RunProgress /\ Running
        /\ \A d \in Nodes : run.before[d] \cap Manageable(d) = OwnedLines(base, d)
    BY <1>1, CurrentFacts DEF Current
  <2>2. Steps = P /\ base \in Plannable /\ i \in Plannable
    BY <2>1, RunSteps
  <2>3. PICK r, g : Phases(P, base, i, r, k, g)
    BY <2>2, StepsPhases
  <2>4. Progress(P, k, n, i, run.before, config) /\ n \in Nat /\ n >= 1
    BY <2>1 DEF RunProgress, Progress
  <2>5. Step = P[n] /\ ~(n > Len(P))
    BY <2>2 DEF Step, Finished
  <2> HIDE DEF base, i, P, k, n
  <2>6. r \in Nat /\ k \in Nat /\ g \in Nat /\ Len(P) \in Nat /\ n <= Len(P)
    BY <2>3, <2>4, <2>5 DEF Phases, Span
  <2>7. \/ n <= r /\ P[n] \in RemovalSteps(base, i)
        \/ r < n /\ n <= k /\ P[n] \in AbsenceSteps(base, i)
        \/ P[n] \in DesignSteps(i)
        \/ g < n /\ P[n] \in GateSteps(i)
    BY <2>3, <2>4, <2>6, StepKinds
  <2>8. P[n] \notin RemovalSteps(base, i) /\ P[n] \notin DesignSteps(i)
    BY <2>5, StepSets, StepFields
  <2>9. CASE r < n /\ n <= k /\ P[n] \in AbsenceSteps(base, i)
    <3>1. PICK d \in Nodes : \E s \in Stale(base, i, d) : P[n] = Prove(d, s)
      BY <2>9, StepSets
    <3>2. PICK s \in Stale(base, i, d) : P[n] = Prove(d, s)
      BY <3>1
    <3>3. Absent(s, config[d])
      BY <2>1, <2>2, <2>3, <2>4, <2>9, AbsenceHolds
    <3> QED
      BY <2>5, <3>2, <3>3, StepFields DEF GatePasses
  <2>10. CASE g < n /\ P[n] \in GateSteps(i)
    <3>1. PICK d \in Nodes : \E h \in Elems(ConfigGates(i, d)) : P[n] = Observe(d, h)
      BY <2>10, StepSets
    <3>2. PICK h \in Elems(ConfigGates(i, d)) : P[n] = Observe(d, h)
      BY <3>1
    <3>3. ASSUME NEW l \in h PROVE l \in config[d]
      <4>1. PICK b \in DesignBlocks(i, d) : l \in b.add
        BY <2>2, GatesEntered
      <4>2. b.add \subseteq config[d]
        BY <2>3, <2>4, <2>10, DesignThere DEF Progress
      <4> QED
        BY <4>1, <4>2
    <3> QED
      BY <2>5, <3>2, <3>3, StepFields DEF GatePasses
  <2> QED
    BY <2>7, <2>8, <2>9, <2>10
<1> QED
  BY <1>1, ReconcileInvariant, PTL

-----------------------------------------------------------------------------
(* What names what, and in which order it goes and comes. *)

Nameless(l) == l.text[1] \notin {"ssm range", "rp-address", "mapping"}

LEMMA TextNames ==
  /\ \A l : Nameless(l) => Named(l) = {}
  /\ \A l : l.text[1] = "ssm range" => Named(l) = {Header(Acl(l.text[3]))}
  /\ \A l : l.text[1] = "rp-address" => Named(l) = {Header(Acl(l.text[4]))}
  /\ \A l : l.text[1] = "mapping" =>
              Named(l) = {Line(Loopback(l.sec[2]), <<"address", l.text[2]>>)}
<1>1. /\ "ssm range" # "rp-address" /\ "ssm range" # "mapping" /\ "rp-address" # "mapping"
  OBVIOUS
<1> QED
  BY <1>1 DEF Nameless, Named

\* The texts of the lines that name something, and of some that do not.
LEMMA TextParts ==
  /\ \A vn, a : LET t == <<"ssm range", vn, a>> IN t[1] = "ssm range" /\ t[3] = a
  /\ \A vn, p, a : LET t == <<"rp-address", vn, p, a>> IN t[1] = "rp-address" /\ t[4] = a
  /\ \A a : LET t == <<"mapping", a>> IN t[1] = "mapping" /\ t[2] = a
  /\ \A vn : LET t == <<"register-source", vn>> IN t[1] = "register-source"
  /\ \A a : LET t == <<"address", a>> IN t[1] = "address" /\ t[2] = a
  /\ \A a : LET t == <<"permit", a>> IN t[1] = "permit"
  /\ \A a : LET t == <<"core", a>> IN t[1] = "core"
  /\ \A a : LET t == <<"underlay", a>> IN t[1] = "underlay"
  /\ \A a : LET t == <<"routing", a>> IN t[1] = "routing"
  /\ \A a : LET t == <<"msdp", "peer", a>> IN t[1] = "msdp"
  /\ \A a : LET t == <<"msdp", a>> IN t[1] = "msdp"
  /\ \A a : LET t == <<a>> IN t[1] = a
  /\ \A a : LET t == <<"gateway", a>> IN t[1] = "gateway"
  /\ \A a : LET t == <<"vrf", a>> IN t[1] = "vrf"
  /\ \A n : Lisp(n)[2] = n /\ Loopback(n)[2] = n /\ Acl(n)[2] = n
BY DEF Lisp, Loopback, Acl

LEMMA NamelessTexts ==
  /\ \A sec : Nameless(Header(sec))
  /\ \A sec, a : /\ Nameless(Line(sec, <<"address", a>>)) /\ Nameless(Line(sec, <<"permit", a>>))
                 /\ Nameless(Line(sec, <<"core", a>>)) /\ Nameless(Line(sec, <<"underlay", a>>))
                 /\ Nameless(Line(sec, <<"routing", a>>)) /\ Nameless(Line(sec, <<"msdp", a>>))
                 /\ Nameless(Line(sec, <<"msdp", "peer", a>>))
                 /\ Nameless(Line(sec, <<"register-source", a>>))
                 /\ Nameless(Line(sec, <<"gateway", a>>)) /\ Nameless(Line(sec, <<"vrf", a>>))
  /\ \A sec : Nameless(Line(sec, <<"transport">>)) /\ Nameless(Line(sec, <<"eid-table">>))
  /\ \A v : Nameless(SparseMode(v))
  /\ \A p : \A l \in SviLines(p) : Nameless(l) /\ l.sec = Vlan(p)
<1>1. \A sec, t : Line(sec, t).text = t
  BY DEF Line
<1>2. \A sec, t : t[1] \notin {"ssm range", "rp-address", "mapping"} => Nameless(Line(sec, t))
  BY <1>1 DEF Nameless
<1>3. \A sec : Nameless(Header(sec))
  BY <1>2, TextParts DEF Header
<1>4. \A sec, a : /\ Nameless(Line(sec, <<"address", a>>)) /\ Nameless(Line(sec, <<"permit", a>>))
                  /\ Nameless(Line(sec, <<"core", a>>)) /\ Nameless(Line(sec, <<"underlay", a>>))
                  /\ Nameless(Line(sec, <<"routing", a>>)) /\ Nameless(Line(sec, <<"msdp", a>>))
                  /\ Nameless(Line(sec, <<"msdp", "peer", a>>))
                  /\ Nameless(Line(sec, <<"register-source", a>>))
                  /\ Nameless(Line(sec, <<"gateway", a>>)) /\ Nameless(Line(sec, <<"vrf", a>>))
  BY <1>2, TextParts
<1>5. \A sec : Nameless(Line(sec, <<"transport">>)) /\ Nameless(Line(sec, <<"eid-table">>))
  BY <1>2, TextParts
<1>6. \A v : Nameless(SparseMode(v))
  BY <1>2, TextParts DEF SparseMode
<1>7. ASSUME NEW p, NEW l \in SviLines(p) PROVE Nameless(l) /\ l.sec = Vlan(p)
  <2>1. PICK t \in {"pim passive", "igmp version", "igmp tracking"} : l = Line(Vlan(p), <<t>>)
    BY DEF SviLines
  <2>2. <<t>>[1] = t
    OBVIOUS
  <2> QED
    BY <1>2, <2>1, <2>2, LineFields
<1> QED
  BY <1>3, <1>4, <1>5, <1>6, <1>7

PolicyOf(i, d, vn)  == ExactLines(<<"policy", vn>>, 600, PolicyLines(i, d, vn))
ListOf(i, vn)       == WholeSection(<<"acl", vn>>, 500, Acl(i.policies[vn].acl),
                                    {<<"permit", i.policies[vn].group>>})
AddressOf(i, d, vn) == WholeSection(<<"segment_loopback", vn>>, 700, Loopback(vn),
                                    {<<"address", i.policies[vn].segment[d]>>})
MappingOf(i, d, vn) == ExactLines(<<"lisp_mapping", vn>>, 800,
                                  {Line(Lisp(vn), <<"mapping", i.policies[vn].segment[d]>>)})
AddressLine(i, d, vn) == Line(Loopback(vn), <<"address", i.policies[vn].segment[d]>>)
RpOf(i) == WholeSection(<<"rp_loopback">>, 200, Loopback("rp"), {<<"address", i.rpAddress>>})

\* A resource whose lines name nothing, and which is not what others name.
Aside(r) ==
  /\ \A l \in r.lines : Nameless(l)
  /\ \A l : Killed(r.remove, l) => l.sec[1] \notin {"acl", "loopback"}

LEMMA ExactFields ==
  \A key, order, lines :
    LET r == ExactLines(key, order, lines)
    IN  /\ r.lines = lines /\ r.order = order
        /\ \A l : Killed(r.remove, l) <=> l \in lines
BY DEF ExactLines, Killed, Block

LEMMA WholeFields ==
  \A key, order, sec, texts :
    LET r == WholeSection(key, order, sec, texts)
    IN  /\ r.order = order
        /\ \A l : l \in r.lines <=> l = Header(sec) \/ \E t \in texts : l = Line(sec, t)
        /\ \A l : Killed(r.remove, l) <=> l.sec = sec
BY DEF WholeSection, Killed, Block

LEMMA AsideExact ==
  ASSUME NEW key, NEW order, NEW lines,
         \A l \in lines : Nameless(l) /\ l.sec[1] \notin {"acl", "loopback"}
  PROVE  Aside(ExactLines(key, order, lines))
BY ExactFields DEF Aside

LEMMA AsideLine ==
  ASSUME NEW key, NEW order, NEW l, Nameless(l), l.sec[1] \notin {"acl", "loopback"}
  PROVE  Aside(ExactLines(key, order, {l}))
<1> DEFINE lines == {l}
<1>1. \A x \in lines : Nameless(x) /\ x.sec[1] \notin {"acl", "loopback"}
  OBVIOUS
<1> HIDE DEF lines
<1>2. Aside(ExactLines(key, order, lines))
  BY <1>1, AsideExact
<1> QED
  BY <1>2 DEF lines

\* The resources that matter here, with what they list and what they take.
LEMMA KeptKinds ==
  ASSUME NEW i, NEW d, NEW r \in OwnedState(i, d)
  PROVE  \/ Aside(r)
         \/ r = RpOf(i)
         \/ \E vn \in Networks(i) : /\ d \in Segments(i, vn) \cup FusionOf(i, vn)
                                    /\ r = PolicyOf(i, d, vn) \/ r = ListOf(i, vn)
         \/ \E vn \in Networks(i) : /\ d \in Segments(i, vn)
                                    /\ r = AddressOf(i, d, vn) \/ r = MappingOf(i, d, vn)
<1>1. ASSUME r \in RpResources(i, d) PROVE r = RpOf(i) \/ Aside(r)
  <2>1. \/ r = RpOf(i)
        \/ \E p : r = ExactLines(<<"msdp_peer", p>>, 300, {Line(Global, <<"msdp", "peer", p>>)})
        \/ \E x : r = ExactLines(<<"msdp", x>>, 250, {Line(Global, <<"msdp", x>>)})
    BY <1>1 DEF RpResources, RpOf
  <2>2. \A p, key, order : Aside(ExactLines(key, order, {Line(Global, <<"msdp", "peer", p>>)}))
    <3> TAKE p, key, order
    <3> DEFINE l == Line(Global, <<"msdp", "peer", p>>)
    <3>1. Nameless(l) /\ l.sec[1] \notin {"acl", "loopback"}
      BY NamelessTexts, LineFields, SectionsApart
    <3> HIDE DEF l
    <3>2. Aside(ExactLines(key, order, {l}))
      BY <3>1, AsideLine
    <3> QED
      BY <3>2 DEF l
  <2>3. \A p, key, order : Aside(ExactLines(key, order, {Line(Global, <<"msdp", p>>)}))
    <3> TAKE p, key, order
    <3> DEFINE l == Line(Global, <<"msdp", p>>)
    <3>1. Nameless(l) /\ l.sec[1] \notin {"acl", "loopback"}
      BY NamelessTexts, LineFields, SectionsApart
    <3> HIDE DEF l
    <3>2. Aside(ExactLines(key, order, {l}))
      BY <3>1, AsideLine
    <3> QED
      BY <3>2 DEF l
  <2> QED
    BY <2>1, <2>2, <2>3
<1>2. ASSUME r \in BumResources(i, d) PROVE Aside(r)
  <2> DEFINE bum(q) == ExactLines(<<"bum", q>>, 850, {Line(Lisp(q), <<"underlay", i.bum[q]>>)})
  <2>1. BumResources(i, d) = IF d \notin Edges(i) THEN {} ELSE {bum(q) : q \in DOMAIN i.bum}
    BY DEF BumResources
  <2> HIDE DEF bum
  <2>2. PICK p : r = bum(p)
    BY <1>2, <2>1
  <2> DEFINE x == i.bum[p]
             l == Line(Lisp(p), <<"underlay", x>>)
  <2> HIDE DEF x
  <2>3. Nameless(l) /\ l.sec[1] \notin {"acl", "loopback"}
    <3>1. Nameless(l)
      BY NamelessTexts
    <3>2. l.sec = Lisp(p)
      BY LineFields
    <3> QED
      BY <3>1, <3>2, SectionsApart
  <2> HIDE DEF l
  <2>4. Aside(ExactLines(<<"bum", p>>, 850, {l}))
    BY <2>3, AsideLine
  <2> QED
    BY <2>2, <2>4 DEF bum, l, x
<1>3. ASSUME NEW vn, r \in PolicyResources(i, d, vn)
      PROVE  Aside(r) \/ r = PolicyOf(i, d, vn) \/ r = ListOf(i, vn)
  <2> DEFINE l == Line(Global, <<"routing", vn>>)
             s == ExactLines(<<"routing", vn>>, 400, {l})
  <2>1. r = s \/ r = PolicyOf(i, d, vn) \/ r = ListOf(i, vn)
    BY <1>3 DEF PolicyResources, PolicyOf, ListOf
  <2>2. Nameless(l) /\ l.sec[1] \notin {"acl", "loopback"}
    BY NamelessTexts, LineFields, SectionsApart
  <2> HIDE DEF l
  <2>3. Aside(s)
    BY <2>2, AsideLine
  <2> QED
    BY <2>1, <2>3
<1>4. ASSUME NEW vn, r \in SegmentResources(i, d, vn)
      PROVE  Aside(r) \/ r = AddressOf(i, d, vn) \/ r = MappingOf(i, d, vn)
  <2> DEFINE c == i.policies[vn].core
             texts == {<<"transport">>, <<"core", c>>}
             s == WholeSection(<<"lisp_interface", vn>>, 750, LispPort(vn), texts)
  <2>1. r = s \/ r = AddressOf(i, d, vn) \/ r = MappingOf(i, d, vn)
    BY <1>4 DEF SegmentResources, AddressOf, MappingOf
  <2>2. \A t \in texts : Nameless(Line(LispPort(vn), t))
    BY NamelessTexts
  <2> HIDE DEF texts
  <2>3. \A l : Killed(s.remove, l) <=> l.sec = LispPort(vn)
    BY WholeFields
  <2>4. \A l \in s.lines : Nameless(l)
    BY <2>2, WholeFields, NamelessTexts
  <2> HIDE DEF s
  <2>5. Aside(s)
    BY <2>3, <2>4, SectionsApart DEF Aside
  <2> QED
    BY <2>1, <2>5
<1>5. ASSUME NEW vn, r \in SviResources(i, d, vn) PROVE Aside(r)
  <2>1. PICK p : r = ExactLines(<<"edge_svi", p>>, 900, SviLines(p))
    BY <1>5 DEF SviResources
  <2>2. \A l \in SviLines(p) : Nameless(l) /\ l.sec[1] \notin {"acl", "loopback"}
    BY NamelessTexts, SectionsApart
  <2> QED
    BY <2>1, <2>2, AsideExact
<1>6. ASSUME NEW vn, r \in HandoffResources(i, d, vn) PROVE Aside(r)
  <2> DEFINE border(v) == ExactLines(<<"border_handoff", vn, v>>, 900, {SparseMode(v)})
             fusion(v) == ExactLines(<<"fusion_handoff", vn, v>>, 900, {SparseMode(v)})
  <2>1. ASSUME NEW key, NEW v
        PROVE  Aside(ExactLines(key, 900, {SparseMode(v)}))
    <3>1. Nameless(SparseMode(v))
      BY NamelessTexts
    <3>2. SparseMode(v).sec = Vlan(v)
      BY LineFields DEF SparseMode
    <3> QED
      BY <3>1, <3>2, AsideLine, SectionsApart
  <2>2. \A v : Aside(border(v)) /\ Aside(fusion(v))
    BY <2>1
  <2>3. HandoffResources(i, d, vn) =
          {border(p.vlan) : p \in {q \in PeersOf(i, vn) : q.device = d}}
            \cup {fusion(p.vlan) : p \in {q \in PeersOf(i, vn) : q.fusion = d}}
    BY DEF HandoffResources
  <2> HIDE DEF border, fusion
  <2>4. \E v : r = border(v) \/ r = fusion(v)
    BY <1>6, <2>3
  <2> QED
    BY <2>2, <2>4
<1>7. \/ r \in RpResources(i, d) \/ r \in BumResources(i, d)
      \/ \E vn \in Networks(i) : /\ d \in Segments(i, vn) \cup FusionOf(i, vn)
                                 /\ r \in PolicyResources(i, d, vn)
      \/ \E vn \in Networks(i) :
           /\ d \in Segments(i, vn)
           /\ r \in SegmentResources(i, d, vn) \/ r \in SviResources(i, d, vn)
      \/ \E vn \in Networks(i) : r \in HandoffResources(i, d, vn)
  BY OwnedFrom
<1> QED
  BY <1>1, <1>2, <1>3, <1>4, <1>5, <1>6, <1>7

LEMMA PolicyNaming ==
  ASSUME NEW i, NEW d, NEW vn, NEW l \in PolicyLines(i, d, vn)
  PROVE  /\ l.sec = Global /\ l.text[1] # "mapping"
         /\ Nameless(l) \/ Named(l) = {Header(Acl(i.policies[vn].acl))}
<1> DEFINE a == i.policies[vn].acl
           rp == i.policies[vn].rp
           range == Line(Global, <<"ssm range", vn, a>>)
           address == Line(Global, <<"rp-address", vn, rp, a>>)
           source == Line(Global, <<"register-source", vn>>)
<1>1. l = range \/ l = address \/ l = source
  BY DEF PolicyLines
<1> HIDE DEF a, rp
<1>t. /\ range.sec = Global /\ range.text = <<"ssm range", vn, a>>
      /\ address.sec = Global /\ address.text = <<"rp-address", vn, rp, a>>
  BY LineFields
<1>2. range.sec = Global /\ range.text[1] = "ssm range" /\ range.text[3] = a
  <2>1. LET t == <<"ssm range", vn, a>> IN t[1] = "ssm range" /\ t[3] = a
    BY TextParts
  <2> HIDE DEF range
  <2> QED BY <1>t, <2>1
<1>3. address.sec = Global /\ address.text[1] = "rp-address" /\ address.text[4] = a
  <2>1. LET t == <<"rp-address", vn, rp, a>> IN t[1] = "rp-address" /\ t[4] = a
    BY TextParts
  <2> HIDE DEF address
  <2> QED BY <1>t, <2>1
<1>4. source.sec = Global /\ source.text[1] = "register-source"
  BY LineFields, TextParts
<1> HIDE DEF range, address, source
<1>5. Named(range) = {Header(Acl(a))} /\ Named(address) = {Header(Acl(a))}
  BY <1>2, <1>3, TextNames
<1>6. Nameless(source)
  BY <1>4 DEF Nameless
<1> QED
  BY <1>1, <1>2, <1>3, <1>4, <1>5, <1>6 DEF a

LEMMA MappingNaming ==
  ASSUME NEW i, NEW d, NEW vn, NEW l, l = Line(Lisp(vn), <<"mapping", i.policies[vn].segment[d]>>)
  PROVE  l.sec = Lisp(vn) /\ l.text[1] = "mapping" /\ Named(l) = {AddressLine(i, d, vn)}
<1> DEFINE x == i.policies[vn].segment[d]
<1> HIDE DEF x
<1>1. l.sec = Lisp(vn) /\ l.text[1] = "mapping" /\ l.text[2] = x /\ l.sec[2] = vn
  BY LineFields, TextParts DEF x
<1>2. Named(l) = {Line(Loopback(l.sec[2]), <<"address", l.text[2]>>)}
  BY <1>1, TextNames
<1> QED
  BY <1>1, <1>2 DEF AddressLine, x

\* What names something is a policy, next to its list, or a mapping, next to
\* the loopback it announces.
LEMMA OwnedNaming ==
  ASSUME NEW i, NEW d, NEW r \in OwnedState(i, d), NEW l \in r.lines, ~Nameless(l)
  PROVE  \/ \E vn \in Networks(i) :
              /\ r = PolicyOf(i, d, vn) /\ ListOf(i, vn) \in OwnedState(i, d)
              /\ Named(l) = {Header(Acl(i.policies[vn].acl))} /\ l.text[1] # "mapping"
         \/ \E vn \in Networks(i) :
              /\ d \in Segments(i, vn)
              /\ r = MappingOf(i, d, vn) /\ AddressOf(i, d, vn) \in OwnedState(i, d)
              /\ l.sec = Lisp(vn) /\ Named(l) = {AddressLine(i, d, vn)}
<1> DEFINE Policed(vn) == /\ r = PolicyOf(i, d, vn) /\ ListOf(i, vn) \in OwnedState(i, d)
                          /\ Named(l) = {Header(Acl(i.policies[vn].acl))}
                          /\ l.text[1] # "mapping"
           Placed(vn)  == /\ d \in Segments(i, vn)
                          /\ r = MappingOf(i, d, vn) /\ AddressOf(i, d, vn) \in OwnedState(i, d)
                          /\ l.sec = Lisp(vn) /\ Named(l) = {AddressLine(i, d, vn)}
<1>1. Native(i)
  BY OwnedFrom
<1>2. ~Aside(r)
  BY DEF Aside
<1>3. r # RpOf(i)
  <2>1. \A sec, a : Nameless(Header(sec)) /\ Nameless(Line(sec, <<"address", a>>))
    BY NamelessTexts
  <2>2. ASSUME r = RpOf(i) PROVE FALSE
    <3> DEFINE t == <<"address", i.rpAddress>>
    <3>1. l = Header(Loopback("rp")) \/ l = Line(Loopback("rp"), t)
      BY <2>2, ResourceLines DEF RpOf
    <3> QED
      BY <2>1, <3>1
  <2> QED
    BY <2>2
<1>4. ASSUME NEW vn \in Networks(i), d \in Segments(i, vn) \cup FusionOf(i, vn),
             r = PolicyOf(i, d, vn) \/ r = ListOf(i, vn)
      PROVE  Policed(vn)
  <2>1. r # ListOf(i, vn)
    <3>1. \A sec, a : Nameless(Header(sec)) /\ Nameless(Line(sec, <<"permit", a>>))
      BY NamelessTexts
    <3>2. ASSUME r = ListOf(i, vn) PROVE FALSE
      <4> DEFINE t == <<"permit", i.policies[vn].group>>
                 a == i.policies[vn].acl
      <4>1. l = Header(Acl(a)) \/ l = Line(Acl(a), t)
        BY <3>2, ResourceLines DEF ListOf
      <4> QED
        BY <3>1, <4>1
    <3> QED
      BY <3>2
  <2>2. r = PolicyOf(i, d, vn)
    BY <1>4, <2>1
  <2>3. l \in PolicyLines(i, d, vn)
    BY <2>2, ResourceLines DEF PolicyOf
  <2>4. ListOf(i, vn) \in PolicyResources(i, d, vn)
    BY DEF ListOf, PolicyResources
  <2>5. ListOf(i, vn) \in OwnedState(i, d)
    BY <1>1, <1>4, <2>4, OwnedFrom
  <2> QED
    BY <2>2, <2>3, <2>5, PolicyNaming
<1>5. ASSUME NEW vn \in Networks(i), d \in Segments(i, vn),
             r = AddressOf(i, d, vn) \/ r = MappingOf(i, d, vn)
      PROVE  Placed(vn)
  <2>1. r # AddressOf(i, d, vn)
    <3>1. \A sec, a : Nameless(Header(sec)) /\ Nameless(Line(sec, <<"address", a>>))
      BY NamelessTexts
    <3>2. ASSUME r = AddressOf(i, d, vn) PROVE FALSE
      <4> DEFINE t == <<"address", i.policies[vn].segment[d]>>
      <4>1. l = Header(Loopback(vn)) \/ l = Line(Loopback(vn), t)
        BY <3>2, ResourceLines DEF AddressOf
      <4> QED
        BY <3>1, <4>1
    <3> QED
      BY <3>2
  <2>2. r = MappingOf(i, d, vn)
    BY <1>5, <2>1
  <2>3. l = Line(Lisp(vn), <<"mapping", i.policies[vn].segment[d]>>)
    BY <2>2, ResourceLines DEF MappingOf
  <2>4. AddressOf(i, d, vn) \in SegmentResources(i, d, vn)
    BY DEF AddressOf, SegmentResources
  <2>5. AddressOf(i, d, vn) \in OwnedState(i, d)
    BY <1>1, <1>5, <2>4, OwnedFrom
  <2>6. l.sec = Lisp(vn) /\ Named(l) = {AddressLine(i, d, vn)}
    BY <2>3, MappingNaming
  <2> QED
    BY <1>5, <2>2, <2>5, <2>6
<1>6. (\E vn \in Networks(i) : Policed(vn)) \/ \E vn \in Networks(i) : Placed(vn)
  <2>1. \/ \E vn \in Networks(i) : /\ d \in Segments(i, vn) \cup FusionOf(i, vn)
                                   /\ r = PolicyOf(i, d, vn) \/ r = ListOf(i, vn)
        \/ \E vn \in Networks(i) : /\ d \in Segments(i, vn)
                                   /\ r = AddressOf(i, d, vn) \/ r = MappingOf(i, d, vn)
    BY <1>2, <1>3, KeptKinds
  <2>2. CASE \E vn \in Networks(i) : /\ d \in Segments(i, vn) \cup FusionOf(i, vn)
                                     /\ r = PolicyOf(i, d, vn) \/ r = ListOf(i, vn)
    <3>1. PICK vn \in Networks(i) : /\ d \in Segments(i, vn) \cup FusionOf(i, vn)
                                    /\ r = PolicyOf(i, d, vn) \/ r = ListOf(i, vn)
      BY <2>2
    <3>2. Policed(vn)
      BY <1>4, <3>1
    <3> QED
      BY <3>2
  <2>3. CASE \E vn \in Networks(i) : /\ d \in Segments(i, vn)
                                     /\ r = AddressOf(i, d, vn) \/ r = MappingOf(i, d, vn)
    <3>1. PICK vn \in Networks(i) : /\ d \in Segments(i, vn)
                                    /\ r = AddressOf(i, d, vn) \/ r = MappingOf(i, d, vn)
      BY <2>3
    <3>2. Placed(vn)
      BY <1>5, <3>1
    <3> QED
      BY <3>2
  <2> QED
    BY <2>1, <2>2, <2>3
<1> QED
  BY <1>6

\* What takes a section as a whole kills what is in it and nothing else.
LEMMA Takers ==
  ASSUME NEW i, NEW d
  PROVE  /\ \A l : Killed(RpOf(i).remove, l) <=> l.sec = Loopback("rp")
         /\ \A vn, l :
              /\ Killed(ListOf(i, vn).remove, l) <=> l.sec = Acl(i.policies[vn].acl)
              /\ Killed(AddressOf(i, d, vn).remove, l) <=> l.sec = Loopback(vn)
              /\ Killed(PolicyOf(i, d, vn).remove, l) => l.sec = Global
              /\ Killed(MappingOf(i, d, vn).remove, l) => l.sec = Lisp(vn)
<1>1. \A l : Killed(RpOf(i).remove, l) <=> l.sec = Loopback("rp")
  BY WholeFields DEF RpOf
<1>2. ASSUME NEW vn, NEW l
      PROVE  Killed(ListOf(i, vn).remove, l) <=> l.sec = Acl(i.policies[vn].acl)
  BY WholeFields DEF ListOf
<1>3. ASSUME NEW vn, NEW l
      PROVE  Killed(AddressOf(i, d, vn).remove, l) <=> l.sec = Loopback(vn)
  BY WholeFields DEF AddressOf
<1>4. ASSUME NEW vn, NEW l, Killed(PolicyOf(i, d, vn).remove, l)
      PROVE  l.sec = Global
  <2>1. l \in PolicyLines(i, d, vn)
    BY <1>4, ExactFields DEF PolicyOf
  <2> QED
    BY <2>1, PolicyNaming
<1>5. ASSUME NEW vn, NEW l, Killed(MappingOf(i, d, vn).remove, l)
      PROVE  l.sec = Lisp(vn)
  <2> DEFINE m == Line(Lisp(vn), <<"mapping", i.policies[vn].segment[d]>>)
  <2>1. m.sec = Lisp(vn)
    BY LineFields
  <2>2. MappingOf(i, d, vn) = ExactLines(<<"lisp_mapping", vn>>, 800, {m})
    BY DEF MappingOf
  <2> HIDE DEF m
  <2>3. l \in {m}
    BY <1>5, <2>2, ExactFields
  <2> QED
    BY <2>1, <2>3
<1> QED
  BY <1>1, <1>2, <1>3, <1>4, <1>5

\* No resource but its own takes an access list, and none but its own the
\* loopback of a segment.
LEMMA OwnTaker ==
  ASSUME NEW i \in Plannable, NEW d, NEW s \in OwnedState(i, d), NEW vn \in Networks(i)
  PROVE  /\ Killed(s.remove, Header(Acl(i.policies[vn].acl))) => s = ListOf(i, vn)
         /\ Killed(s.remove, AddressLine(i, d, vn)) => s = AddressOf(i, d, vn)
<1> DEFINE h == Header(Acl(i.policies[vn].acl))
           a == AddressLine(i, d, vn)
           Policed(wn) == s = PolicyOf(i, d, wn) \/ s = ListOf(i, wn)
           Placed(wn)  == s = AddressOf(i, d, wn) \/ s = MappingOf(i, d, wn)
<1>1. h.sec = Acl(i.policies[vn].acl) /\ a.sec = Loopback(vn)
  BY LineFields DEF AddressLine
<1>2. \A n : /\ Acl(n)[1] = "acl" /\ Acl(n)[2] = n /\ Loopback(n)[1] = "loopback"
             /\ Loopback(n)[2] = n /\ Lisp(n)[1] = "lisp"
  BY SectionsApart, TextParts
<1>3. Global[1] = "global"
  BY SectionsApart
<1>4. \A wn \in Networks(i) : i.policies[vn].acl = i.policies[wn].acl => vn = wn
  BY PlannableForm DEF ValidIntent, ValidModes
<1>5. vn # "rp"
  BY LoopbackAssumption DEF Plannable
<1>6. \/ Aside(s) \/ s = RpOf(i)
      \/ \E wn \in Networks(i) : Policed(wn)
      \/ \E wn \in Networks(i) : Placed(wn)
  BY KeptKinds
<1> HIDE DEF h, a
<1>7. CASE Aside(s)
  BY <1>1, <1>2, <1>7 DEF Aside, h, a
<1>8. CASE s = RpOf(i)
  <2>1. \A l : Killed(s.remove, l) <=> l.sec = Loopback("rp")
    BY <1>8, Takers
  <2>2. Acl(i.policies[vn].acl) # Loopback("rp") /\ Loopback(vn) # Loopback("rp")
    BY <1>2, <1>5
  <2> QED
    BY <1>1, <2>1, <2>2 DEF h, a
<1>9. ASSUME NEW wn \in Networks(i), Policed(wn)
      PROVE  /\ Killed(s.remove, h) => s = ListOf(i, vn)
             /\ ~Killed(s.remove, a)
  <2>1. CASE s = PolicyOf(i, d, wn)
    <3>1. \A l : Killed(s.remove, l) => l.sec = Global
      BY <2>1, Takers
    <3> QED
      BY <1>1, <1>2, <1>3, <3>1
  <2>2. CASE s = ListOf(i, wn)
    <3>1. \A l : Killed(s.remove, l) <=> l.sec = Acl(i.policies[wn].acl)
      BY <2>2, Takers
    <3>2. ~Killed(s.remove, a)
      BY <1>1, <1>2, <3>1
    <3>3. ASSUME Killed(s.remove, h) PROVE wn = vn
      <4>1. Acl(i.policies[vn].acl) = Acl(i.policies[wn].acl)
        BY <1>1, <3>1, <3>3
      <4>2. i.policies[vn].acl = i.policies[wn].acl
        BY <1>2, <4>1
      <4> QED
        BY <1>4, <4>2
    <3> QED
      BY <2>2, <3>2, <3>3
  <2> QED
    BY <1>9, <2>1, <2>2
<1>10. ASSUME NEW wn \in Networks(i), Placed(wn)
       PROVE  /\ ~Killed(s.remove, h)
              /\ Killed(s.remove, a) => s = AddressOf(i, d, vn)
  <2>1. CASE s = MappingOf(i, d, wn)
    <3>1. ~Killed(s.remove, h) /\ ~Killed(s.remove, a)
      BY <1>1, <1>2, <2>1, Takers
    <3> QED
      BY <3>1
  <2>2. CASE s = AddressOf(i, d, wn)
    <3>1. \A l : Killed(s.remove, l) <=> l.sec = Loopback(wn)
      BY <2>2, Takers
    <3>2. ~Killed(s.remove, h)
      BY <1>1, <1>2, <3>1
    <3>3. ASSUME Killed(s.remove, a) PROVE wn = vn
      BY <1>1, <1>2, <3>1, <3>3
    <3> QED
      BY <2>2, <3>2, <3>3
  <2> QED
    BY <1>10, <2>1, <2>2
<1> QED
  BY <1>6, <1>7, <1>8, <1>9, <1>10 DEF h, a

-----------------------------------------------------------------------------
(* The trace of a run: what is gone was killed by a block that was sent, and *)
(* what is there was entered by one, or was there before and not killed.     *)

Sent(P, n, d, m) == m \in 1..Len(P) /\ m < n /\ P[m].kind = "block" /\ P[m].node = d

Gone(P, n, d, l) == \E m : Sent(P, n, d, m) /\ Killed(P[m].what, l)
Came(P, n, d, l) == \E m : Sent(P, n, d, m) /\ l \in P[m].what.add

Traced(P, n, before, c) ==
  \A d \in Nodes :
    /\ \A l \in before[d] : l \in c[d] \/ Gone(P, n, d, l)
    /\ \A l \in c[d] : Came(P, n, d, l) \/ (l \in before[d] /\ ~Gone(P, n, d, l))

RunTraced ==
  Running => Traced(StepsOf(run.plan.base, run.plan.intent), run.pos, run.before, config)

LEMMA SentNext ==
  ASSUME NEW P, Len(P) \in Nat, NEW n \in 1..Len(P), NEW d, NEW m
  PROVE  Sent(P, n + 1, d, m) <=>
           Sent(P, n, d, m) \/ (m = n /\ P[n].kind = "block" /\ P[n].node = d)
<1>1. m \in 1..Len(P) => (m < n + 1 <=> m < n \/ m = n)
  OBVIOUS
<1> QED
  BY <1>1 DEF Sent

LEMMA TraceGate ==
  ASSUME NEW P, Len(P) \in Nat, NEW n \in 1..Len(P), P[n].kind # "block", NEW before, NEW c,
         Traced(P, n, before, c)
  PROVE  Traced(P, n + 1, before, c)
<1>1. \A d, m : Sent(P, n + 1, d, m) <=> Sent(P, n, d, m)
  BY SentNext
<1>2. \A d, l : /\ Gone(P, n + 1, d, l) <=> Gone(P, n, d, l)
                /\ Came(P, n + 1, d, l) <=> Came(P, n, d, l)
  BY <1>1 DEF Gone, Came
<1> QED
  BY <1>2 DEF Traced

LEMMA TraceBlock ==
  ASSUME NEW P, Len(P) \in Nat, NEW n \in 1..Len(P), NEW d0 \in Nodes, NEW b,
         P[n].kind = "block", P[n].node = d0, P[n].what = b,
         NEW before, NEW c, c = [d \in Nodes |-> c[d]], Traced(P, n, before, c)
  PROVE  Traced(P, n + 1, before, [c EXCEPT ![d0] = Effect(b, @)])
<1> DEFINE e == [c EXCEPT ![d0] = Effect(b, @)]
<1>1. \A d \in Nodes : e[d] = IF d = d0 THEN Effect(b, c[d0]) ELSE c[d]
  OBVIOUS
<1> HIDE DEF e
<1>2. \A d \in Nodes : \A l : l \in e[d] <=>
        \/ l \in c[d] /\ ~(d = d0 /\ Killed(b, l))
        \/ d = d0 /\ l \in b.add
  BY <1>1, EffectLines
<1>3. \A d, m : Sent(P, n + 1, d, m) <=> Sent(P, n, d, m) \/ (m = n /\ d = d0)
  BY SentNext
<1>4. \A d, l : /\ Gone(P, n + 1, d, l) <=> Gone(P, n, d, l) \/ (d = d0 /\ Killed(b, l))
                /\ Came(P, n + 1, d, l) <=> Came(P, n, d, l) \/ (d = d0 /\ l \in b.add)
  <2> TAKE d, l
  <2>1. Gone(P, n + 1, d, l) <=> Gone(P, n, d, l) \/ (d = d0 /\ Killed(b, l))
    BY <1>3 DEF Gone
  <2>2. Came(P, n + 1, d, l) <=> Came(P, n, d, l) \/ (d = d0 /\ l \in b.add)
    BY <1>3 DEF Came
  <2> QED
    BY <2>1, <2>2
<1>5. ASSUME NEW d \in Nodes, NEW l \in before[d]
      PROVE  l \in e[d] \/ Gone(P, n + 1, d, l)
  BY <1>2, <1>4 DEF Traced
<1>6. ASSUME NEW d \in Nodes, NEW l \in e[d]
      PROVE  Came(P, n + 1, d, l) \/ (l \in before[d] /\ ~Gone(P, n + 1, d, l))
  BY <1>2, <1>4 DEF Traced
<1>7. Traced(P, n + 1, before, e)
  BY <1>5, <1>6 DEF Traced
<1> QED
  BY <1>7 DEF e

LEMMA StartTraces ==
  ASSUME Start PROVE RunTraced'
<1>1. run' = [plan |-> run.plan, pos |-> 1, before |-> config] /\ config' = config
  BY DEF Start
<1>2. run'.pos = 1 /\ run'.before = config'
  BY <1>1
<1>3. \A P, d, m : ~Sent(P, 1, d, m)
  BY DEF Sent
<1>4. \A P : Traced(P, 1, config', config')
  BY <1>3 DEF Traced, Gone, Came
<1> QED
  BY <1>2, <1>4 DEF RunTraced

\* The step that a run is at, and what moves on with it.
LEMMA RunStep ==
  ASSUME ReconcileInv, Running, ~Finished, run' = [run EXCEPT !.pos = @ + 1]
  PROVE  LET P == StepsOf(run.plan.base, run.plan.intent)
             n == run.pos
         IN  /\ Step = P[n] /\ Len(P) \in Nat /\ n \in 1..Len(P)
             /\ Step.kind = "block" => Step.node \in Nodes
             /\ run'.plan = run.plan /\ run'.pos = n + 1 /\ run'.before = run.before
<1> DEFINE base == run.plan.base
           i == run.plan.intent
           P == StepsOf(base, i)
           k == Len(ReconciliationPhase(base, i))
           n == run.pos
<1>1. PlanTypes /\ RunAnchored
  BY DEF ReconcileInv
<1>2. Steps = P /\ base \in Plannable /\ i \in Plannable
  BY <1>1, RunSteps
<1>3. run = [plan |-> run.plan, pos |-> n, before |-> run.before]
  BY <1>1 DEF PlanTypes
<1>4. run'.plan = run.plan /\ run'.pos = n + 1 /\ run'.before = run.before
  BY <1>3
<1>5. n \in Nat /\ n > 0
  BY <1>1 DEF Running, PlanTypes
<1>6. PICK r, g : Phases(P, base, i, r, k, g)
  BY <1>2, StepsPhases
<1>7. Step = P[n] /\ ~(n > Len(P))
  BY <1>2 DEF Step, Finished
<1> HIDE DEF P, k, n, base, i
<1>8. Len(P) \in Nat
  BY <1>6 DEF Phases, Span
<1>9. n >= 1 /\ n <= Len(P)
  BY <1>5, <1>7, <1>8
<1>10. \/ P[n] \in RemovalSteps(base, i) \/ P[n] \in AbsenceSteps(base, i)
       \/ P[n] \in DesignSteps(i) \/ P[n] \in GateSteps(i)
  BY <1>5, <1>6, <1>9, StepKinds
<1>11. \E d \in Nodes : \E w : P[n] = Send(d, w) \/ P[n] = Prove(d, w) \/ P[n] = Observe(d, w)
  BY <1>10, StepSets
<1>12. P[n].node \in Nodes
  BY <1>11, StepFields
<1> QED
  BY <1>4, <1>5, <1>7, <1>8, <1>9, <1>12 DEF P, n, base, i

LEMMA SendTraces ==
  ASSUME ReconcileInv, RunTraced, SendBlock PROVE RunTraced'
<1> DEFINE P == StepsOf(run.plan.base, run.plan.intent)
           n == run.pos
<1>1. /\ Running /\ ~Finished /\ Step.kind = "block"
      /\ config' = [config EXCEPT ![Step.node] = Effect(Step.what, @)]
      /\ run' = [run EXCEPT !.pos = @ + 1]
  BY DEF SendBlock
<1>2. /\ Step = P[n] /\ Len(P) \in Nat /\ n \in 1..Len(P) /\ Step.node \in Nodes
      /\ run'.plan = run.plan /\ run'.pos = n + 1 /\ run'.before = run.before
  BY <1>1, RunStep
<1>3. Traced(P, n, run.before, config)
  BY <1>1 DEF RunTraced
<1>4. config = [d \in Nodes |-> config[d]]
  BY DEF ReconcileInv, Known
<1>5. Traced(P, n + 1, run.before, config')
  <2> HIDE DEF P, n
  <2>1. Traced(P, n + 1, run.before, [config EXCEPT ![Step.node] = Effect(Step.what, @)])
    BY <1>1, <1>2, <1>3, <1>4, TraceBlock
  <2> QED
    BY <1>1, <2>1
<1> QED
  BY <1>2, <1>5 DEF RunTraced

LEMMA PassTraces ==
  ASSUME ReconcileInv, RunTraced, PassGate PROVE RunTraced'
<1> DEFINE P == StepsOf(run.plan.base, run.plan.intent)
           n == run.pos
<1>1. /\ Running /\ ~Finished /\ Step.kind # "block" /\ config' = config
      /\ run' = [run EXCEPT !.pos = @ + 1]
  BY DEF PassGate
<1>2. /\ Step = P[n] /\ Len(P) \in Nat /\ n \in 1..Len(P)
      /\ run'.plan = run.plan /\ run'.pos = n + 1 /\ run'.before = run.before
  BY <1>1, RunStep
<1>3. Traced(P, n, run.before, config)
  BY <1>1 DEF RunTraced
<1>4. Traced(P, n + 1, run.before, config)
  <2> HIDE DEF P, n
  <2> QED
    BY <1>1, <1>2, <1>3, TraceGate
<1> QED
  BY <1>1, <1>2, <1>4 DEF RunTraced

\* Every run has the trace.
THEOREM TraceInvariant == RSpec => []RunTraced
<1>1. RInit => RunTraced
  BY DEF RInit, RunTraced, Running, Locked, NoRun
<1>2. ASSUME ReconcileInv, RunTraced, [RNext]_vars PROVE RunTraced'
  <2>1. ASSUME UNCHANGED <<config, run>> PROVE RunTraced'
    BY <1>2, <2>1 DEF RunTraced, Running, Locked
  <2>2. ASSUME NEW p, Confirm(p) PROVE RunTraced'
    <3>1. run'.pos = 0
      BY <2>2 DEF Confirm
    <3> QED
      BY <3>1 DEF RunTraced, Running
  <2>3. ASSUME run' = NoRun PROVE RunTraced'
    BY <2>3 DEF RunTraced, Running, Locked, NoRun
  <2>4. \/ UNCHANGED <<config, run>> \/ (\E p : Confirm(p)) \/ run' = NoRun
        \/ Start \/ SendBlock \/ PassGate
    BY <1>2 DEF RNext, vars, Adopt, Request, Expire, SavePlan, LoseRequest, Refuse, Fail, Complete
  <2> QED
    BY <1>2, <2>1, <2>2, <2>3, <2>4, StartTraces, SendTraces, PassTraces
<1> QED
  BY <1>1, <1>2, ReconcileInvariant, PTL DEF RSpec

-----------------------------------------------------------------------------
(* The order of the steps of a run. *)

LEMMA AbsentPrecedes ==
  ASSUME NEW s, IsSequence(s), NEW x, NEW y, y \notin Elems(s)
  PROVE  Precedes(s, x, y)
BY DEF Precedes, Elems

\* One part after another: what comes first comes first in the whole.
LEMMA PrecedesOn ==
  ASSUME NEW s, NEW t, IsSequence(s), IsSequence(t), NEW x, NEW y,
         Precedes(s, x, y), Precedes(t, x, y) \/ x \in Elems(s)
  PROVE  /\ IsSequence(s \o t) /\ Precedes(s \o t, x, y)
         /\ x \in Elems(s) \cup Elems(t) => x \in Elems(s \o t)
BY PrecedesConcat, ElemsConcat

LEMMA ForEachPrecedes ==
  ASSUME NEW steps, \A d \in Nodes : IsSequence(steps[d]), NEW x, NEW y,
         \A d \in Nodes : Precedes(steps[d], x, y)
  PROVE  Precedes(ForEachNode(steps), x, y)
<1> DEFINE k == Len(NodeOrder)
           seqs == [n \in 1..k |-> steps[NodeOrder[n]]]
<1>1. ForEachNode(steps) = FlattenSeq(seqs)
  BY DEF ForEachNode
<1>2. k \in Nat /\ \A n \in 1..k : NodeOrder[n] \in Nodes
  BY NodeAssumption
<1> HIDE DEF k
<1>3. seqs = [n \in 1..k |-> seqs[n]] /\ \A n \in 1..k : seqs[n] = steps[NodeOrder[n]]
  OBVIOUS
<1> HIDE DEF seqs
<1>4. IsSequence(seqs) /\ Len(seqs) = k
  BY <1>2, <1>3, SequenceOfFunction
<1>5. \A n \in 1..Len(seqs) : IsSequence(seqs[n]) /\ Precedes(seqs[n], x, y)
  BY <1>2, <1>3, <1>4
<1>6. Precedes(FlattenSeq(seqs), x, y)
  BY <1>4, <1>5, FlattenPrecedes
<1> QED
  BY <1>1, <1>6

LEMMA RemoveOrdersFall ==
  \A m, n \in 1..11 : RemoveOrders[m] > RemoveOrders[n] => m < n
<1>1. /\ RemoveOrders[1] = 900 /\ RemoveOrders[2] = 850 /\ RemoveOrders[3] = 800
      /\ RemoveOrders[4] = 750 /\ RemoveOrders[5] = 700 /\ RemoveOrders[6] = 600
      /\ RemoveOrders[7] = 500 /\ RemoveOrders[8] = 400 /\ RemoveOrders[9] = 300
      /\ RemoveOrders[10] = 250 /\ RemoveOrders[11] = 200
  BY DEF RemoveOrders
<1>2. \A n \in 1..11 : \/ n = 1 \/ n = 2 \/ n = 3 \/ n = 4 \/ n = 5 \/ n = 6 \/ n = 7
                       \/ n = 8 \/ n = 9 \/ n = 10 \/ n = 11
  OBVIOUS
<1> QED
  BY <1>1, <1>2

\* The higher order is removed first.
LEMMA RemovalsOrder ==
  ASSUME NEW base \in Plannable, NEW i, NEW d,
         NEW q \in Stale(base, i, d), NEW s \in Stale(base, i, d), q.order > s.order
  PROVE  Precedes(Removals(base, i, d), q, s)
<1> DEFINE S == [n \in 1..11 |-> {r \in Stale(base, i, d) : r.order = RemoveOrders[n]}]
           seqs == [n \in 1..11 |-> Ordered(S[n])]
<1>1. Removals(base, i, d) = FlattenSeq(seqs)
  <2>1. Removals(base, i, d) = FlattenSeq([n \in 1..Len(RemoveOrders) |->
                     Ordered({r \in Stale(base, i, d) : r.order = RemoveOrders[n]})])
    BY DEF Removals
  <2>2. [n \in 1..11 |-> Ordered({r \in Stale(base, i, d) : r.order = RemoveOrders[n]})] = seqs
    OBVIOUS
  <2> QED
    BY <2>1, <2>2, RemoveOrdersCover
<1>2. IsFiniteSet(Stale(base, i, d))
  BY OwnedFinite, FS_Difference DEF Stale
<1>3. \A n \in 1..11 : IsFiniteSet(S[n])
  <2> TAKE n \in 1..11
  <2>1. S[n] \in SUBSET Stale(base, i, d)
    OBVIOUS
  <2> QED
    BY <1>2, <2>1, FS_Subset
<1>4. PICK m \in 1..11 : RemoveOrders[m] = q.order
  BY OwnedSound, RemoveOrdersCover DEF Stale, Sound
<1>5. q \in S[m] /\ \A n \in 1..11 : s \in S[n] => RemoveOrders[m] > RemoveOrders[n]
  BY <1>4
<1>6. \A n \in 1..11 : s \in S[n] => m < n
  BY <1>5, RemoveOrdersFall
<1> HIDE DEF S
<1>7. \A n \in 1..11 : IsSequence(seqs[n]) /\ Elems(seqs[n]) = S[n]
  BY <1>3, OrderedElems
<1>8. seqs = [n \in 1..11 |-> seqs[n]]
  OBVIOUS
<1> HIDE DEF seqs
<1>9. IsSequence(seqs) /\ Len(seqs) = 11
  BY <1>8, SequenceOfFunction
<1>10. ASSUME NEW n \in 1..11
       PROVE  Precedes(seqs[n], q, s) \/ \E j \in 1..(n - 1) : q \in Elems(seqs[j])
  <2>1. CASE s \in S[n]
    <3>1. m < n /\ m \in 1..(n - 1)
      BY <1>6, <2>1
    <3>2. q \in Elems(seqs[m])
      BY <1>5, <1>7
    <3> QED
      BY <3>1, <3>2
  <2>2. CASE s \notin S[n]
    BY <1>7, <2>2, AbsentPrecedes
  <2> QED
    BY <2>1, <2>2
<1>11. Precedes(FlattenSeq(seqs), q, s)
  BY <1>7, <1>9, <1>10, FlattenPrecedes
<1> QED
  BY <1>1, <1>11

\* Steps that send the blocks of a sequence keep its order.
LEMMA BlockStepsPrecede ==
  ASSUME NEW d, NEW blocks, IsSequence(blocks), NEW a, NEW b, Precedes(blocks, a, b)
  PROVE  Precedes(BlockSteps(d, blocks), Send(d, a), Send(d, b))
<1> DEFINE t == BlockSteps(d, blocks)
           k == Len(blocks)
<1>1. t = [n \in 1..k |-> Send(d, blocks[n])]
  BY DEF BlockSteps, Send
<1>2. k \in Nat /\ \A n \in 1..k : blocks[n] = b => \E m \in 1..(n - 1) : blocks[m] = a
  BY SequenceShape DEF Precedes
<1> HIDE DEF t, k
<1>3. t = [n \in 1..k |-> t[n]] /\ \A n \in 1..k : t[n] = Send(d, blocks[n])
  BY <1>1
<1>4. Len(t) = k
  BY <1>2, <1>3, SequenceOfFunction
<1>5. ASSUME NEW n \in 1..Len(t), t[n] = Send(d, b)
      PROVE  \E m \in 1..(n - 1) : t[m] = Send(d, a)
  <2>1. n \in 1..k /\ Send(d, blocks[n]) = Send(d, b)
    BY <1>3, <1>4, <1>5
  <2>4. blocks[n] = b
    BY <2>1, StepFields
  <2>2. PICK m \in 1..(n - 1) : blocks[m] = a
    BY <1>2, <2>1, <2>4
  <2>3. m \in 1..k
    BY <1>2, <2>1
  <2> QED
    BY <1>3, <2>2, <2>3
<1>6. Precedes(t, Send(d, a), Send(d, b))
  BY <1>5 DEF Precedes
<1> QED
  BY <1>6 DEF t

\* Among all removals, if no other resource is removed like s.
LEMMA RemovePartOrder ==
  ASSUME NEW base \in Plannable, NEW i, NEW d0 \in Nodes,
         NEW q \in Stale(base, i, d0), NEW s \in Stale(base, i, d0), q.order > s.order,
         \A r \in Stale(base, i, d0) : r.remove = s.remove => r = s
  PROVE  /\ Precedes(RemovePart(base, i), Send(d0, q.remove), Send(d0, s.remove))
         /\ Send(d0, q.remove) \in Elems(RemovePart(base, i))
<1> DEFINE x == Send(d0, q.remove)
           y == Send(d0, s.remove)
           blocks(d) == [n \in 1..Len(Removals(base, i, d)) |-> Removals(base, i, d)[n].remove]
           steps == [d \in Nodes |-> BlockSteps(d, blocks(d))]
<1>1. \A d \in Nodes : /\ IsSequence(blocks(d)) /\ Len(blocks(d)) = Len(Removals(base, i, d))
                       /\ \A n \in 1..Len(blocks(d)) : blocks(d)[n] = Removals(base, i, d)[n].remove
  <2> TAKE d \in Nodes
  <2> DEFINE u == Removals(base, i, d)
             b == blocks(d)
             k == Len(u)
  <2>1. k \in Nat
    BY RemovalsElems, SequenceShape
  <2>2. b = [n \in 1..k |-> u[n].remove]
    OBVIOUS
  <2> HIDE DEF u, b, k
  <2>3. b = [n \in 1..k |-> b[n]] /\ \A n \in 1..k : b[n] = u[n].remove
    BY <2>2
  <2>4. IsSequence(b) /\ Len(b) = k
    BY <2>1, <2>3, SequenceOfFunction
  <2> QED
    BY <2>3, <2>4 DEF u, b, k
<1>2. Precedes(blocks(d0), q.remove, s.remove)
  <2> DEFINE u == Removals(base, i, d0)
             b == blocks(d0)
  <2>1. Precedes(u, q, s)
    BY RemovalsOrder
  <2>2. IsSequence(u) /\ \A r : r \in Elems(u) <=> r \in Stale(base, i, d0)
    BY RemovalsElems
  <2>3. Len(b) = Len(u) /\ \A n \in 1..Len(b) : b[n] = u[n].remove
    BY <1>1
  <2> HIDE DEF u, b
  <2>4. ASSUME NEW n \in 1..Len(b), b[n] = s.remove
        PROVE  \E m \in 1..(n - 1) : b[m] = q.remove
    <3>1. n \in 1..Len(u) /\ u[n].remove = s.remove /\ u[n] \in Stale(base, i, d0)
      BY <2>2, <2>3, <2>4 DEF Elems
    <3>2. u[n] = s
      BY <3>1
    <3>3. PICK m \in 1..(n - 1) : u[m] = q
      BY <2>1, <3>1, <3>2 DEF Precedes
    <3>4. Len(u) \in Nat
      BY <2>2, SequenceShape
    <3>5. m \in 1..Len(b)
      BY <2>3, <3>1, <3>4
    <3> QED
      BY <2>3, <3>3, <3>5
  <2>5. Precedes(b, q.remove, s.remove)
    BY <2>4 DEF Precedes
  <2> QED
    BY <2>5 DEF b
<1> HIDE DEF blocks
<1>3. ASSUME NEW d \in Nodes
      PROVE  IsSequence(steps[d]) /\ Precedes(steps[d], x, y)
  <2>1. /\ IsSequence(steps[d])
        /\ \A z : z \in Elems(steps[d]) <=> \E b \in Elems(blocks(d)) : z = Send(d, b)
    BY <1>1, BlockStepsElems
  <2>2. CASE d = d0
    <3>1. Precedes(BlockSteps(d0, blocks(d0)), x, y)
      BY <1>1, <1>2, BlockStepsPrecede
    <3> QED
      BY <2>1, <2>2, <3>1
  <2>3. CASE d # d0
    <3>1. y \notin Elems(steps[d])
      BY <2>1, <2>3, StepFields
    <3> QED
      BY <2>1, <3>1, AbsentPrecedes
  <2> QED
    BY <2>1, <2>2, <2>3
<1>4. RemovePart(base, i) = ForEachNode(steps)
  BY DEF RemovePart, blocks
<1> HIDE DEF steps, x, y
<1>5. Precedes(ForEachNode(steps), x, y)
  BY <1>3, ForEachPrecedes
<1>6. x \in Elems(RemovePart(base, i))
  BY RemovePartElems, StepSets DEF x
<1> QED
  BY <1>4, <1>5, <1>6 DEF x, y

\* What holds of every part holds of the whole; after the part where x is
\* there is nothing to show.
LEMMA PartsPrecede ==
  ASSUME NEW base \in Plannable, NEW i \in Plannable, NEW x, NEW y,
         Precedes(RemovePart(base, i), x, y),
         \/ x \in Elems(RemovePart(base, i))
         \/ /\ Precedes(AbsentPart(base, i), x, y) /\ Precedes(UnderlayPart(i), x, y)
            /\ Precedes(EdgePart(i), x, y) /\ Precedes(HandoffPart(i), x, y)
            /\ Precedes(MulticastPart(i), x, y) /\ Precedes(GatePart(i), x, y)
  PROVE  Precedes(StepsOf(base, i), x, y)
<1> DEFINE R == RemovePart(base, i)
           A == AbsentPart(base, i)
           U == UnderlayPart(i)
           E == EdgePart(i)
           H == HandoffPart(i)
           M == MulticastPart(i)
           G == GatePart(i)
           s1 == R \o A
           s2 == s1 \o U
           s3 == s2 \o E
           s4 == s3 \o H
           t  == M \o G
           There(s) == x \in Elems(s)
<1>1. StepsOf(base, i) = s4 \o t
  BY StepsParts
<1>2. /\ IsSequence(R) /\ IsSequence(A) /\ IsSequence(U) /\ IsSequence(E)
      /\ IsSequence(H) /\ IsSequence(M) /\ IsSequence(G)
  BY StepsParts, RemovePartElems, GatePartElems
<1>3. /\ Precedes(R, x, y)
      /\ There(R) \/ /\ Precedes(A, x, y) /\ Precedes(U, x, y) /\ Precedes(E, x, y)
                     /\ Precedes(H, x, y) /\ Precedes(M, x, y) /\ Precedes(G, x, y)
  OBVIOUS
<1>4. \A s, u : IsSequence(s) /\ IsSequence(u) /\ Precedes(s, x, y) /\ (Precedes(u, x, y) \/ There(s))
        => /\ IsSequence(s \o u) /\ Precedes(s \o u, x, y)
           /\ There(s) => There(s \o u)
  BY PrecedesOn
<1> HIDE DEF R, A, U, E, H, M, G, There
<1>5. IsSequence(s1) /\ Precedes(s1, x, y) /\ (There(R) => There(s1))
  BY <1>2, <1>3, <1>4
<1> HIDE DEF s1
<1>6. IsSequence(s2) /\ Precedes(s2, x, y) /\ (There(R) => There(s2))
  BY <1>2, <1>3, <1>4, <1>5
<1> HIDE DEF s2
<1>7. IsSequence(s3) /\ Precedes(s3, x, y) /\ (There(R) => There(s3))
  BY <1>2, <1>3, <1>4, <1>6
<1> HIDE DEF s3
<1>8. IsSequence(s4) /\ Precedes(s4, x, y) /\ (There(R) => There(s4))
  BY <1>2, <1>3, <1>4, <1>7
<1> HIDE DEF s4
<1>9. CASE There(R)
  <2>1. IsSequence(t)
    BY <1>2, ElemsConcat
  <2> HIDE DEF t
  <2>2. Precedes(s4 \o t, x, y)
    BY <1>4, <1>8, <1>9, <2>1
  <2> QED
    BY <1>1, <2>2 DEF s4, s3, s2, s1
<1>10. CASE ~There(R)
  <2>1. IsSequence(t) /\ Precedes(t, x, y)
    BY <1>2, <1>3, <1>4, <1>10
  <2> HIDE DEF t
  <2>2. Precedes(s4 \o t, x, y)
    BY <1>4, <1>8, <2>1
  <2> QED
    BY <1>1, <2>2 DEF s4, s3, s2, s1
<1> QED
  BY <1>9, <1>10

\* A stale resource of a higher order is removed before one that no other is
\* removed like.
LEMMA RemovedBefore ==
  ASSUME NEW base \in Plannable, NEW i \in Plannable, NEW d \in Nodes,
         NEW q \in Stale(base, i, d), NEW s \in Stale(base, i, d), q.order > s.order,
         \A r \in Stale(base, i, d) : r.remove = s.remove => r = s
  PROVE  Precedes(StepsOf(base, i), Send(d, q.remove), Send(d, s.remove))
BY RemovePartOrder, PartsPrecede

-----------------------------------------------------------------------------
(* The blocks of one design that name something. *)

MappingLine(i, d, vn)  == Line(Lisp(vn), <<"mapping", i.policies[vn].segment[d]>>)
AddressBlock(i, d, vn) == Enter({Header(Loopback(vn)), AddressLine(i, d, vn)})
PortBlock(i, vn) ==
  Enter({Header(LispPort(vn)), Line(LispPort(vn), <<"transport">>),
         Line(LispPort(vn), <<"core", i.policies[vn].core>>)})
MappingBlock(i, d, vn) == Enter({MappingLine(i, d, vn)})

Quiet(b) == \A l \in b.add : Nameless(l)

LEMMA EnterAdds == \A add : Enter(add).add = add
BY DEF Enter, Block

LEMMA SegmentParts ==
  ASSUME NEW i, NEW d, NEW vn
  PROVE  /\ SegmentBlocks(i, d, vn) =
              <<AddressBlock(i, d, vn), PortBlock(i, vn), MappingBlock(i, d, vn)>>
         /\ Elems(SegmentBlocks(i, d, vn)) =
              {AddressBlock(i, d, vn), PortBlock(i, vn), MappingBlock(i, d, vn)}
         /\ SegmentBlocks(i, d, vn)[1] = AddressBlock(i, d, vn)
         /\ SegmentBlocks(i, d, vn)[2] = PortBlock(i, vn)
         /\ SegmentBlocks(i, d, vn)[3] = MappingBlock(i, d, vn)
<1>1. SegmentBlocks(i, d, vn) =
        <<AddressBlock(i, d, vn), PortBlock(i, vn), MappingBlock(i, d, vn)>>
  BY DEF SegmentBlocks, AddressBlock, AddressLine, PortBlock, MappingBlock, MappingLine
<1>2. \A x, y, z : <<x, y, z>>[1] = x /\ <<x, y, z>>[2] = y /\ <<x, y, z>>[3] = z
  OBVIOUS
<1> QED
  BY <1>1, <1>2, ElemsPair

LEMMA QuietBlocks ==
  /\ \A i : Quiet(RpBlock(i))
  /\ \A i, d : Quiet(MsdpBlock(i, d))
  /\ \A p : Quiet(GatewayBlock(p)) /\ Quiet(HandoffBlock(p)) /\ Quiet(Enter(SviLines(p)))
  /\ \A v : Quiet(Enter({SparseMode(v)}))
  /\ \A i, p : Quiet(InstanceBlock(i, p))
  /\ \A i, d, vn : Quiet(AddressBlock(i, d, vn)) /\ Quiet(PortBlock(i, vn))
<1>1. ASSUME NEW i PROVE Quiet(RpBlock(i))
  <2> DEFINE a == i.rpAddress
             l == Line(Loopback("rp"), <<"address", a>>)
  <2> HIDE DEF a
  <2>1. Nameless(l) /\ Nameless(Header(Loopback("rp")))
    BY NamelessTexts
  <2> HIDE DEF l
  <2>2. Quiet(Enter({Header(Loopback("rp")), l}))
    BY <2>1, EnterAdds DEF Quiet
  <2> QED
    BY <2>2 DEF RpBlock, l, a
<1>2. ASSUME NEW i, NEW d PROVE Quiet(MsdpBlock(i, d))
  <2> DEFINE S == {Line(Global, <<"msdp", "peer", p>>) : p \in i.rps \ {d}}
             T == {Line(Global, <<"msdp", x>>) : x \in {"cache", "originator"}}
  <2>1. \A l \in S : Nameless(l)
    BY NamelessTexts
  <2>2. \A l \in T : Nameless(l)
    BY NamelessTexts
  <2>3. MsdpBlock(i, d) = Enter(S \cup T)
    BY DEF MsdpBlock
  <2> HIDE DEF S, T
  <2> QED
    BY <2>1, <2>2, <2>3, EnterAdds DEF Quiet
<1>3. ASSUME NEW p PROVE Quiet(GatewayBlock(p)) /\ Quiet(HandoffBlock(p))
  <2> DEFINE n == NetworkOf[p]
             v == p.vlan
             w == p.vn
             l == Line(Vlan(p), <<"gateway", n>>)
             m == Line(Vlan(v), <<"vrf", w>>)
  <2> HIDE DEF n, v, w
  <2>1. /\ Nameless(l) /\ Nameless(Header(Vlan(p)))
        /\ Nameless(m) /\ Nameless(Header(Vlan(v)))
    BY NamelessTexts
  <2> HIDE DEF l, m
  <2>2. Quiet(Enter({Header(Vlan(p)), l})) /\ Quiet(Enter({Header(Vlan(v)), m}))
    BY <2>1, EnterAdds DEF Quiet
  <2> QED
    BY <2>2 DEF GatewayBlock, HandoffBlock, l, m, n, v, w
<1>4. ASSUME NEW p PROVE Quiet(Enter(SviLines(p)))
  BY NamelessTexts, EnterAdds DEF Quiet
<1>5. ASSUME NEW v PROVE Quiet(Enter({SparseMode(v)}))
  <2>1. Nameless(SparseMode(v))
    BY NamelessTexts
  <2> QED
    BY <2>1, EnterAdds DEF Quiet
<1>6. ASSUME NEW i, NEW p PROVE Quiet(InstanceBlock(i, p))
  <2> DEFINE g == i.bum[p]
             l == Line(Lisp(p), <<"eid-table">>)
             m == Line(Lisp(p), <<"underlay", g>>)
             S == {l} \cup IF p \in DOMAIN i.bum THEN {m} ELSE {}
  <2>1. InstanceBlock(i, p) = Enter(S)
    BY DEF InstanceBlock
  <2> HIDE DEF g
  <2>2. Nameless(l) /\ Nameless(m)
    BY NamelessTexts
  <2> HIDE DEF l, m
  <2>3. \A x \in S : Nameless(x)
    BY <2>2
  <2> HIDE DEF S
  <2> QED
    BY <2>1, <2>3, EnterAdds DEF Quiet
<1>7. ASSUME NEW i, NEW d, NEW vn PROVE Quiet(AddressBlock(i, d, vn)) /\ Quiet(PortBlock(i, vn))
  <2> DEFINE a == i.policies[vn].segment[d]
             c == i.policies[vn].core
             l == Line(Loopback(vn), <<"address", a>>)
             m == Line(LispPort(vn), <<"transport">>)
             n == Line(LispPort(vn), <<"core", c>>)
  <2>1. AddressBlock(i, d, vn) = Enter({Header(Loopback(vn)), l})
    BY DEF AddressBlock, AddressLine
  <2>2. PortBlock(i, vn) = Enter({Header(LispPort(vn)), m, n})
    BY DEF PortBlock
  <2> HIDE DEF a, c
  <2>3. /\ Nameless(l) /\ Nameless(m) /\ Nameless(n)
        /\ Nameless(Header(Loopback(vn))) /\ Nameless(Header(LispPort(vn)))
    BY NamelessTexts
  <2> HIDE DEF l, m, n
  <2> QED
    BY <2>1, <2>2, <2>3, EnterAdds DEF Quiet
<1> QED
  BY <1>1, <1>2, <1>3, <1>4, <1>5, <1>6, <1>7

\* A block that enters what names something is that of a policy or of a mapping.
LEMMA NamingBlocks ==
  ASSUME NEW i \in Plannable, NEW d, NEW b \in DesignBlocks(i, d), ~Quiet(b)
  PROVE  /\ Native(i)
         /\ \E vn \in Networks(i) :
              \/ b = PolicyBlock(i, d, vn)
              \/ d \in Segments(i, vn) /\ b = MappingBlock(i, d, vn)
<1>1. FormOf(i)
  BY PlannableForm
<1>2. \A vn : ~OfFusion(i, d, vn, b) \/ b = PolicyBlock(i, d, vn)
  BY QuietBlocks DEF OfFusion
<1>3. \A vn : ~OfNetwork(i, d, vn, b) \/ b = PolicyBlock(i, d, vn) \/ b = MappingBlock(i, d, vn)
  <2> TAKE vn
  <2>1. \A c \in Elems(SegmentBlocks(i, d, vn)) : Quiet(c) \/ c = MappingBlock(i, d, vn)
    BY SegmentParts, QuietBlocks
  <2> QED
    BY <2>1, QuietBlocks DEF OfNetwork
<1>4. \/ /\ i.enabled /\ d \in i.rps /\ i.rpAddress # None
         /\ \/ b = RpBlock(i)
            \/ i.rpMode = "anycast" /\ i.rps \ {d} # {} /\ b = MsdpBlock(i, d)
      \/ d \in Edges(i) /\ \E p \in i.pools : b = GatewayBlock(p) \/ b = InstanceBlock(i, p)
      \/ \E p \in i.peers : (p.device = d \/ p.fusion = d) /\ b = HandoffBlock(p)
      \/ /\ Native(i)
         /\ \/ /\ d \in i.devices
               /\ \E vn \in Networks(i) : d \in Segments(i, vn) /\ OfNetwork(i, d, vn, b)
            \/ /\ d \in i.fusion /\ d \notin i.devices
               /\ \E vn \in Networks(i) : d \in FusionOf(i, vn) /\ OfFusion(i, d, vn, b)
  BY <1>1, DesignFrom
<1> QED
  BY <1>2, <1>3, <1>4, QuietBlocks

LEMMA MappingFields ==
  ASSUME NEW i, NEW d, NEW vn
  PROVE  /\ ~Nameless(MappingLine(i, d, vn)) /\ ~Quiet(MappingBlock(i, d, vn))
         /\ MappingLine(i, d, vn).sec = Lisp(vn)
         /\ MappingBlock(i, d, vn).add = {MappingLine(i, d, vn)}
         /\ Named(MappingLine(i, d, vn)) = {AddressLine(i, d, vn)}
         /\ AddressLine(i, d, vn) \in AddressBlock(i, d, vn).add
<1> DEFINE l == MappingLine(i, d, vn)
<1>1. l.sec = Lisp(vn) /\ l.text[1] = "mapping" /\ Named(l) = {AddressLine(i, d, vn)}
  BY MappingNaming DEF MappingLine
<1> HIDE DEF l
<1>2. ~Nameless(l)
  BY <1>1 DEF Nameless
<1>3. MappingBlock(i, d, vn).add = {l}
  BY EnterAdds DEF MappingBlock, l
<1>4. ~Quiet(MappingBlock(i, d, vn))
  BY <1>2, <1>3 DEF Quiet
<1>5. AddressLine(i, d, vn) \in AddressBlock(i, d, vn).add
  BY EnterAdds DEF AddressBlock
<1> QED
  BY <1>1, <1>2, <1>3, <1>4, <1>5 DEF l

\* Mappings of two networks differ.
LEMMA MappingApart ==
  ASSUME NEW i, NEW d, NEW vn, NEW wn, MappingBlock(i, d, vn) = MappingBlock(i, d, wn)
  PROVE  vn = wn
<1>1. MappingLine(i, d, vn) = MappingLine(i, d, wn)
  <2>1. /\ MappingBlock(i, d, vn).add = {MappingLine(i, d, vn)}
        /\ MappingBlock(i, d, wn).add = {MappingLine(i, d, wn)}
    BY MappingFields
  <2> QED
    BY <2>1
<1>2. Lisp(vn) = Lisp(wn)
  BY <1>1, MappingFields
<1> QED
  BY <1>2, TextParts

\* A network's loopback is entered before its mapping.
LEMMA NetworkOrder ==
  ASSUME NEW i \in Plannable, NEW d, NEW vn, NEW wn
  PROVE  Precedes(NetworkBlocks(i, d, wn), AddressBlock(i, d, vn), MappingBlock(i, d, vn))
<1> DEFINE x == AddressBlock(i, d, vn)
           y == MappingBlock(i, d, vn)
           peers == {p \in PeersOf(i, wn) : p.device = d}
           a == <<PolicyBlock(i, d, wn)>>
           b == SegmentBlocks(i, d, wn)
           c == SviBlocks(i, d, wn)
           e == SparseModeBlocks(peers)
<1>0. FormOf(i)
  BY PlannableForm
<1>1. IsFiniteSet(peers) /\ IsFiniteSet(i.pools)
  <2>1. peers \in SUBSET i.peers
    BY DEF PeersOf
  <2> QED
    BY <1>0, <2>1, FS_Subset DEF FormOf
<1>2. IsSequence(a) /\ Precedes(a, x, y)
  <2>1. IsSequence(a) /\ Elems(a) = {PolicyBlock(i, d, wn)}
    BY ElemsPair
  <2>2. y # PolicyBlock(i, d, wn)
    <3>1. PolicyBlock(i, d, wn).drop = {Acl(i.policies[wn].acl)}
      BY PolicyNegates
    <3>2. y.drop = {}
      BY ResourceLines DEF MappingBlock
    <3> QED
      BY <3>1, <3>2
  <2> QED
    BY <2>1, <2>2, AbsentPrecedes
<1>3. IsSequence(b) /\ Precedes(b, x, y)
  <2>1. /\ IsSequence(b) /\ Len(b) = 3
        /\ b[1] = AddressBlock(i, d, wn) /\ b[2] = PortBlock(i, wn) /\ b[3] = MappingBlock(i, d, wn)
    BY SegmentSequence, SegmentParts
  <2>2. b[1] # y /\ b[2] # y
    BY <2>1, QuietBlocks, MappingFields
  <2>3. b[3] = y => b[1] = x
    BY <2>1, MappingApart
  <2> HIDE DEF b, x, y
  <2>4. ASSUME NEW n \in 1..3, b[n] = y PROVE \E m \in 1..(n - 1) : b[m] = x
    <3>1. n = 3
      <4>1. n = 1 \/ n = 2 \/ n = 3
        OBVIOUS
      <4> QED
        BY <2>2, <2>4, <4>1
    <3>2. 1 \in 1..(n - 1)
      BY <3>1
    <3> QED
      BY <2>3, <2>4, <3>1, <3>2
  <2> QED
    BY <2>1, <2>4 DEF Precedes
<1>4. IsSequence(c) /\ Precedes(c, x, y)
  <2>1. y \notin Elems(c)
    BY <1>1, SviElems, QuietBlocks, MappingFields
  <2> QED
    BY <1>1, <2>1, SviElems, AbsentPrecedes
<1>5. IsSequence(e) /\ Precedes(e, x, y)
  <2> HIDE DEF peers
  <2>1. /\ IsSequence(e)
        /\ \A z : z \in Elems(e) => \E p \in peers : z = Enter({SparseMode(p.vlan)})
    BY <1>1, SparseElems
  <2>2. ~Quiet(y)
    BY MappingFields
  <2> HIDE DEF e, y
  <2>3. y \notin Elems(e)
    BY <2>1, <2>2, QuietBlocks
  <2> QED
    BY <2>1, <2>3, AbsentPrecedes
<1>6. NetworkBlocks(i, d, wn) = a \o b \o c \o e
  BY DEF NetworkBlocks
<1> HIDE DEF a, b, c, e, x, y
<1>7. IsSequence(a \o b) /\ Precedes(a \o b, x, y)
  BY <1>2, <1>3, PrecedesOn
<1> DEFINE ab == a \o b
<1> HIDE DEF ab
<1>8. IsSequence(ab \o c) /\ Precedes(ab \o c, x, y)
  BY <1>4, <1>7, PrecedesOn DEF ab
<1> DEFINE abc == ab \o c
<1> HIDE DEF abc
<1>9. Precedes(abc \o e, x, y)
  BY <1>5, <1>8, PrecedesOn DEF abc
<1> QED
  BY <1>6, <1>9 DEF abc, ab, x, y

LEMMA OverlayOrder ==
  ASSUME NEW i \in Plannable, NEW d, NEW vn, d \in i.devices
  PROVE  Precedes(MulticastBlocks(i, d), AddressBlock(i, d, vn), MappingBlock(i, d, vn))
<1> DEFINE x == AddressBlock(i, d, vn)
           y == MappingBlock(i, d, vn)
           S == {v \in Networks(i) : d \in Segments(i, v)}
           k == Len(Ordered(S))
           seqs == [n \in 1..k |-> NetworkBlocks(i, d, Ordered(S)[n])]
<1>0. FormOf(i)
  BY PlannableForm
<1>1. k \in Nat
  <2>1. IsFiniteSet(S)
    BY <1>0, FS_Subset DEF FormOf
  <2> HIDE DEF S
  <2> QED
    BY <2>1, OrderedElems
<1>2. MulticastOverlayBlocks(i, d) = FlattenSeq(seqs)
  BY DEF MulticastOverlayBlocks, NetworkBlocks
<1> HIDE DEF k, S
<1>3. seqs = [n \in 1..k |-> seqs[n]] /\ \A n \in 1..k : seqs[n] = NetworkBlocks(i, d, Ordered(S)[n])
  OBVIOUS
<1> HIDE DEF seqs
<1>4. IsSequence(seqs) /\ Len(seqs) = k
  BY <1>1, <1>3, SequenceOfFunction
<1>5. \A wn : IsSequence(NetworkBlocks(i, d, wn)) /\ Precedes(NetworkBlocks(i, d, wn), x, y)
  BY <1>0, NetworkElems, NetworkOrder DEF FormOf
<1> HIDE DEF x, y
<1>6. Precedes(FlattenSeq(seqs), x, y)
  BY <1>3, <1>4, <1>5, FlattenPrecedes
<1>7. Precedes(<<>>, x, y)
  <2>1. y \notin Elems(<<>>) /\ IsSequence(<<>>)
    BY ElemsPair
  <2> QED
    BY <2>1, AbsentPrecedes
<1> QED
  BY <1>2, <1>6, <1>7 DEF MulticastBlocks, x, y

\* In a run a node is sent the loopback of a network before LISP announces its
\* address.
LEMMA AddressBefore ==
  ASSUME NEW base \in Plannable, NEW i \in Plannable, NEW vn \in Networks(i),
         NEW d0 \in Nodes, d0 \in Segments(i, vn)
  PROVE  Precedes(StepsOf(base, i), Send(d0, AddressBlock(i, d0, vn)),
                                    Send(d0, MappingBlock(i, d0, vn)))
<1> DEFINE a == AddressBlock(i, d0, vn)
           m == MappingBlock(i, d0, vn)
           x == Send(d0, a)
           y == Send(d0, m)
<1>0. FormOf(i) /\ d0 \in i.devices
  BY PlannableForm, NetworkNodes
<1>1. ~Quiet(m) /\ m.add # {}
  BY MappingFields
<1>2. Precedes(RemovePart(base, i), x, y)
  <2>1. ASSUME y \in Elems(RemovePart(base, i)) PROVE FALSE
    <3>1. PICK d \in Nodes : \E s \in Stale(base, i, d) : y = Send(d, s.remove)
      BY <2>1, RemovePartElems, StepSets
    <3>2. PICK s \in Stale(base, i, d) : y = Send(d, s.remove)
      BY <3>1
    <3>3. s.remove = Block(s.remove.drop, s.remove.minus, {})
      BY OwnedSound DEF Stale, Sound
    <3>4. m = s.remove
      BY <3>2, StepFields
    <3>5. s.remove.add = {}
      BY <3>3, BlockFields
    <3> QED
      BY <1>1, <3>4, <3>5
  <2> QED
    BY <2>1, RemovePartElems, AbsentPrecedes
<1>3. Precedes(AbsentPart(base, i), x, y) /\ Precedes(GatePart(i), x, y)
  <2>1. y \notin AbsenceSteps(base, i) /\ y \notin GateSteps(i)
    BY StepSets, StepFields
  <2> QED
    BY <2>1, RemovePartElems, GatePartElems, AbsentPrecedes
<1>4. \A d : \A b \in Elems(UnderlayBlocks(i, d)) : Quiet(b)
  BY UnderlayElems, QuietBlocks
<1>5. \A d : \A b \in Elems(EdgeOverlayBlocks(i, d)) : Quiet(b)
  BY <1>0, EdgeElems, QuietBlocks DEF FormOf
<1>6. \A d : \A b \in Elems(BorderHandoffBlocks(i, d)) \cup Elems(FusionHandoffBlocks(i, d)) : Quiet(b)
  <2> TAKE d
  <2>1. IsFiniteSet({p \in i.peers : p.device = d}) /\ IsFiniteSet({p \in i.peers : p.fusion = d})
    BY <1>0, FS_Subset DEF FormOf
  <2> QED
    BY <2>1, HandoffElems, QuietBlocks DEF BorderHandoffBlocks, FusionHandoffBlocks
<1>7. \A d, b : Quiet(b) => y # Send(d, b)
  <2> HIDE DEF m
  <2> QED
    BY <1>1, StepFields
<1>8. /\ Precedes(UnderlayPart(i), x, y) /\ Precedes(EdgePart(i), x, y)
      /\ Precedes(HandoffPart(i), x, y)
  <2> HIDE DEF x, y
  <2>1. y \notin Elems(UnderlayPart(i))
    BY <1>4, <1>7, StepsParts
  <2>2. y \notin Elems(EdgePart(i))
    BY <1>5, <1>7, StepsParts
  <2>3. y \notin Elems(HandoffPart(i))
    <3>1. ASSUME y \in Elems(HandoffPart(i)) PROVE FALSE
      <4>1. PICK d \in Nodes : \E b \in Elems(BorderHandoffBlocks(i, d))
                                           \cup Elems(FusionHandoffBlocks(i, d)) : y = Send(d, b)
        BY <3>1, StepsParts
      <4> QED
        BY <1>6, <1>7, <4>1
    <3> QED
      BY <3>1
  <2> QED
    BY <2>1, <2>2, <2>3, StepsParts, AbsentPrecedes
<1>9. Precedes(MulticastPart(i), x, y)
  <2> DEFINE steps == [d \in Nodes |-> BlockSteps(d, MulticastBlocks(i, d))]
  <2>1. \A d \in Nodes : /\ IsSequence(steps[d]) /\ steps[d] = BlockSteps(d, MulticastBlocks(i, d))
                         /\ \A z : z \in Elems(steps[d]) <=>
                                     \E b \in Elems(MulticastBlocks(i, d)) : z = Send(d, b)
    BY <1>0, DesignFrom, BlockStepsElems
  <2>2. MulticastPart(i) = ForEachNode(steps)
    BY DEF MulticastPart, DesignPhase
  <2> HIDE DEF steps
  <2>3. ASSUME NEW d \in Nodes PROVE Precedes(steps[d], x, y)
    <3>1. CASE d = d0
      <4>1. IsSequence(MulticastBlocks(i, d0)) /\ Precedes(MulticastBlocks(i, d0), a, m)
        BY <1>0, DesignFrom, OverlayOrder
      <4>2. Precedes(BlockSteps(d0, MulticastBlocks(i, d0)), x, y)
        BY <4>1, BlockStepsPrecede
      <4> QED
        BY <2>1, <3>1, <4>2
    <3>2. CASE d # d0
      <4>1. y \notin Elems(steps[d])
        BY <2>1, <3>2, StepFields
      <4> QED
        BY <2>1, <4>1, AbsentPrecedes
    <3> QED
      BY <3>1, <3>2
  <2> QED
    BY <2>1, <2>2, <2>3, ForEachPrecedes
<1> HIDE DEF x, y
<1>10. Precedes(StepsOf(base, i), x, y)
  BY <1>2, <1>3, <1>8, <1>9, PartsPrecede
<1> QED
  BY <1>10 DEF x, y

-----------------------------------------------------------------------------
(* What is named is there. *)

\* What was sent to a node is the removal of a stale resource or a block of the
\* new design.
LEMMA SentKinds ==
  ASSUME NEW P, NEW base, NEW i, NEW r, NEW k, NEW g, Phases(P, base, i, r, k, g),
         NEW n, NEW d, NEW m, Sent(P, n, d, m)
  PROVE  \/ \E s \in Stale(base, i, d) : P[m] = Send(d, s.remove)
         \/ k < m /\ \E b \in DesignBlocks(i, d) : P[m] = Send(d, b)
<1>1. m \in 1..Len(P) /\ P[m].kind = "block" /\ P[m].node = d
  BY DEF Sent
<1>2. Len(P) \in Nat
  BY DEF Phases, Span
<1>3. \/ P[m] \in RemovalSteps(base, i)
      \/ P[m] \in AbsenceSteps(base, i)
      \/ k < m /\ P[m] \in DesignSteps(i)
      \/ P[m] \in GateSteps(i)
  BY <1>1, <1>2, StepKinds
<1>4. P[m] \notin AbsenceSteps(base, i) /\ P[m] \notin GateSteps(i)
  BY <1>1, StepSets, StepFields
<1>5. ASSUME P[m] \in RemovalSteps(base, i)
      PROVE  \E s \in Stale(base, i, d) : P[m] = Send(d, s.remove)
  <2>1. PICK e \in Nodes : \E s \in Stale(base, i, e) : P[m] = Send(e, s.remove)
    BY <1>5, StepSets
  <2>2. e = d
    BY <1>1, <2>1, StepFields
  <2> QED
    BY <2>1, <2>2
<1>6. ASSUME P[m] \in DesignSteps(i)
      PROVE  \E b \in DesignBlocks(i, d) : P[m] = Send(d, b)
  <2>1. PICK e \in Nodes : \E b \in DesignBlocks(i, e) : P[m] = Send(e, b)
    BY <1>6, StepSets
  <2>2. e = d
    BY <1>1, <2>1, StepFields
  <2> QED
    BY <2>1, <2>2
<1> QED
  BY <1>3, <1>4, <1>5, <1>6

LEMMA RemovalAddsNothing ==
  ASSUME NEW base, NEW i, NEW d, NEW s \in Stale(base, i, d)
  PROVE  s.remove.add = {}
<1>1. s.remove = Block(s.remove.drop, s.remove.minus, {})
  BY OwnedSound DEF Stale, Sound
<1> QED
  BY <1>1, BlockFields

\* What a run has entered, it entered after what it names.
LEMMA CameNamed ==
  ASSUME NEW base \in Plannable, NEW i \in Plannable, NEW P, P = StepsOf(base, i),
         NEW r, NEW k, NEW g, Phases(P, base, i, r, k, g),
         NEW n \in Nat, NEW d \in Nodes, NEW c, Entered(P, k, n, c),
         NEW l, Came(P, n, d, l), ~Nameless(l)
  PROVE  Named(l) \subseteq c[d]
<1>1. PICK m : Sent(P, n, d, m) /\ l \in P[m].what.add
  BY DEF Came
<1>2. m \in 1..Len(P) /\ m < n /\ k \in Nat /\ Len(P) \in Nat
  BY <1>1 DEF Sent, Phases, Span
<1>3. k < m /\ \E b \in DesignBlocks(i, d) : P[m] = Send(d, b)
  <2>1. ASSUME NEW s \in Stale(base, i, d), P[m] = Send(d, s.remove) PROVE FALSE
    <3>1. P[m].what = s.remove
      BY <2>1, StepFields
    <3> QED
      BY <1>1, <3>1, RemovalAddsNothing
  <2> QED
    BY <1>1, <2>1, SentKinds
<1>4. PICK b \in DesignBlocks(i, d) : P[m] = Send(d, b)
  BY <1>3
<1>5. P[m].what = b /\ P[m].kind = "block" /\ P[m].node = d
  BY <1>4, StepFields
<1>6. b.add \subseteq c[d]
  <2>1. m \in Nat
    BY <1>2
  <2> QED
    BY <1>2, <1>3, <1>5, <2>1 DEF Entered
<1>7. PICK vn \in Networks(i) : \/ b = PolicyBlock(i, d, vn)
                                \/ d \in Segments(i, vn) /\ b = MappingBlock(i, d, vn)
  BY <1>1, <1>5, NamingBlocks DEF Quiet
<1>8. CASE b = PolicyBlock(i, d, vn)
  <2> DEFINE a == Acl(i.policies[vn].acl)
             p == Line(a, <<"permit", i.policies[vn].group>>)
             q == Line(Global, <<"routing", vn>>)
  <2>1. b.add = {q} \cup AclLines(i, vn) \cup PolicyLines(i, d, vn)
    BY <1>8, PolicyAdds
  <2>2. Nameless(q) /\ Nameless(Header(a))
    BY NamelessTexts
  <2>3. Nameless(p)
    <3> DEFINE x == i.policies[vn].group
    <3> HIDE DEF x
    <3>1. Nameless(Line(a, <<"permit", x>>))
      BY NamelessTexts
    <3> QED
      BY <3>1 DEF x
  <2>4. AclLines(i, vn) = {Header(a), p}
    BY DEF AclLines
  <2> HIDE DEF a, p, q
  <2>5. l \in PolicyLines(i, d, vn) /\ Header(a) \in b.add
    BY <1>1, <1>5, <2>1, <2>2, <2>3, <2>4
  <2>6. Named(l) = {Header(a)}
    BY <2>5, PolicyNaming DEF a
  <2> QED
    BY <1>6, <2>5, <2>6
<1>9. CASE d \in Segments(i, vn) /\ b = MappingBlock(i, d, vn)
  <2> DEFINE a == AddressBlock(i, d, vn)
  <2>1. l = MappingLine(i, d, vn)
    BY <1>1, <1>5, <1>9, MappingFields
  <2>2. Named(l) = {AddressLine(i, d, vn)} /\ AddressLine(i, d, vn) \in a.add
    BY <2>1, MappingFields
  <2>3. Precedes(P, Send(d, a), Send(d, b))
    BY <1>9, AddressBefore
  <2> HIDE DEF a
  <2>4. PICK e \in 1..(m - 1) : P[e] = Send(d, a)
    BY <1>2, <1>4, <2>3 DEF Precedes
  <2>5. P[e].what = a /\ P[e].kind = "block" /\ P[e].node = d
    BY <2>4, StepFields
  <2>6. e \in 1..Len(P) /\ e < n /\ e \in Nat
    BY <1>2, <2>4
  <2>7. Sent(P, n, d, e)
    BY <2>5, <2>6 DEF Sent
  <2>8. k < e
    <3>1. ASSUME NEW s \in Stale(base, i, d), P[e] = Send(d, s.remove) PROVE FALSE
      <4>1. a = s.remove
        BY <2>5, <3>1, StepFields
      <4> QED
        BY <2>2, <4>1, RemovalAddsNothing
    <3> QED
      BY <2>7, <3>1, SentKinds
  <2>9. a.add \subseteq c[d]
    BY <2>5, <2>6, <2>8 DEF Entered
  <2> QED
    BY <2>2, <2>9
<1> QED
  BY <1>7, <1>8, <1>9

\* A stale resource of a higher order has gone when one of a lower order goes.
LEMMA GoneBefore ==
  ASSUME NEW base \in Plannable, NEW i \in Plannable, NEW P, P = StepsOf(base, i),
         NEW n \in Nat, NEW d \in Nodes, NEW m, Sent(P, n, d, m),
         NEW q \in Stale(base, i, d), NEW s \in Stale(base, i, d), P[m] = Send(d, s.remove),
         q.order > s.order, \A t \in Stale(base, i, d) : t.remove = s.remove => t = s,
         NEW l \in q.lines
  PROVE  Gone(P, n, d, l)
<1>1. Precedes(P, Send(d, q.remove), Send(d, s.remove))
  BY RemovedBefore
<1>2. m \in 1..Len(P) /\ m < n
  BY DEF Sent
<1>3. PICK e \in 1..(m - 1) : P[e] = Send(d, q.remove)
  BY <1>1, <1>2 DEF Precedes
<1>4. P[e].what = q.remove /\ P[e].kind = "block" /\ P[e].node = d
  BY <1>3, StepFields
<1>5. Len(P) \in Nat
  BY StepsPhases, SequenceShape
<1>6. Sent(P, n, d, e)
  BY <1>2, <1>3, <1>4, <1>5 DEF Sent
<1>7. Killed(q.remove, l)
  BY OwnedSound DEF Stale, Sound
<1> QED
  BY <1>4, <1>6, <1>7 DEF Gone

\* A list or a loopback that is gone was taken by its own resource.
LEMMA NamedTaken ==
  ASSUME NEW base \in Plannable, NEW i \in Plannable, NEW P,
         NEW r, NEW k, NEW g, Phases(P, base, i, r, k, g),
         NEW n \in Nat, NEW d \in Nodes, NEW c, Entered(P, k, n, c),
         NEW vn \in Networks(base)
  PROVE  LET h == Header(Acl(base.policies[vn].acl))
             x == AddressLine(base, d, vn)
         IN  /\ Gone(P, n, d, h) /\ h \notin c[d] =>
                  \E m : /\ Sent(P, n, d, m) /\ ListOf(base, vn) \in Stale(base, i, d)
                         /\ P[m] = Send(d, ListOf(base, vn).remove)
             /\ Gone(P, n, d, x) =>
                  \E m : /\ Sent(P, n, d, m) /\ AddressOf(base, d, vn) \in Stale(base, i, d)
                         /\ P[m] = Send(d, AddressOf(base, d, vn).remove)
<1> DEFINE h == Header(Acl(base.policies[vn].acl))
           x == AddressLine(base, d, vn)
<1>0. FormOf(i)
  BY PlannableForm
<1>1. h.sec = Acl(base.policies[vn].acl) /\ x.sec[1] = "loopback" /\ \A sec : h.sec = sec => h = Header(sec)
  <2>1. x.sec = Loopback(vn) /\ h.sec = Acl(base.policies[vn].acl)
    BY LineFields DEF AddressLine
  <2> QED
    BY <2>1, SectionsApart
<1>2. \A s \in Stale(base, i, d) : /\ Killed(s.remove, h) => s = ListOf(base, vn)
                                   /\ Killed(s.remove, x) => s = AddressOf(base, d, vn)
  BY OwnTaker DEF Stale
<1> HIDE DEF h, x
<1>3. ASSUME Gone(P, n, d, h), h \notin c[d]
      PROVE  \E m : /\ Sent(P, n, d, m) /\ ListOf(base, vn) \in Stale(base, i, d)
                    /\ P[m] = Send(d, ListOf(base, vn).remove)
  <2>1. PICK m : Sent(P, n, d, m) /\ Killed(P[m].what, h)
    BY <1>3 DEF Gone
  <2>2. ASSUME k < m, NEW b \in DesignBlocks(i, d), P[m] = Send(d, b) PROVE FALSE
    <3>1. P[m].what = b /\ P[m].kind = "block" /\ P[m].node = d /\ Killed(b, h)
      BY <2>1, <2>2, StepFields
    <3>2. b.add \subseteq c[d]
      <4>1. m \in Nat /\ m < n
        BY <2>1 DEF Sent
      <4> QED
        BY <2>2, <3>1, <4>1 DEF Entered
    <3>3. ~Plain(b)
      <4>1. ASSUME b = Block({}, {}, b.add) PROVE FALSE
        <5>1. b.drop = {} /\ b.minus = {}
          BY <4>1, BlockFields
        <5> QED
          BY <3>1, <5>1 DEF Killed
      <4> QED
        BY <4>1 DEF Plain
    <3>4. PICK wn \in Networks(i) : b = PolicyBlock(i, d, wn)
      BY <1>0, <3>3, DesignKinds
    <3> DEFINE a == Acl(i.policies[wn].acl)
    <3>5. b.drop = {a} /\ b.minus = {}
      BY <3>4, PolicyNegates
    <3>6. Header(a) \in b.add
      <4>1. b.add = {Line(Global, <<"routing", wn>>)} \cup AclLines(i, wn) \cup PolicyLines(i, d, wn)
        BY <3>4, PolicyAdds
      <4>2. Header(a) \in AclLines(i, wn)
        BY DEF AclLines
      <4> QED
        BY <4>1, <4>2
    <3> HIDE DEF a
    <3>7. h.sec = a
      BY <3>1, <3>5 DEF Killed
    <3>8. h = Header(a)
      BY <1>1, <3>7
    <3> QED
      BY <1>3, <3>2, <3>6, <3>8
  <2>3. PICK s \in Stale(base, i, d) : P[m] = Send(d, s.remove)
    BY <2>1, <2>2, SentKinds
  <2>4. s = ListOf(base, vn)
    BY <1>2, <2>1, <2>3, StepFields
  <2> QED
    BY <2>1, <2>3, <2>4
<1>4. ASSUME Gone(P, n, d, x)
      PROVE  \E m : /\ Sent(P, n, d, m) /\ AddressOf(base, d, vn) \in Stale(base, i, d)
                    /\ P[m] = Send(d, AddressOf(base, d, vn).remove)
  <2>1. PICK m : Sent(P, n, d, m) /\ Killed(P[m].what, x)
    BY <1>4 DEF Gone
  <2>2. ASSUME NEW b \in DesignBlocks(i, d), P[m] = Send(d, b) PROVE FALSE
    <3>1. Killed(b, x)
      BY <2>1, <2>2, StepFields
    <3>2. x.sec[1] = "acl"
      BY <1>0, <3>1, DesignAdds
    <3> QED
      BY <1>1, <3>2
  <2>3. PICK s \in Stale(base, i, d) : P[m] = Send(d, s.remove)
    BY <2>1, <2>2, SentKinds
  <2>4. s = AddressOf(base, d, vn)
    BY <1>2, <2>1, <2>3, StepFields
  <2> QED
    BY <2>1, <2>3, <2>4
<1> QED
  BY <1>3, <1>4 DEF h, x

\* A mapping that both designs own has its address in both.
LEMMA MappingKept ==
  ASSUME NEW base, NEW i \in Plannable, NEW d, NEW vn,
         MappingOf(base, d, vn) \in OwnedState(i, d)
  PROVE  AddressOf(base, d, vn) \in OwnedState(i, d)
<1> DEFINE l == MappingLine(base, d, vn)
           a == base.policies[vn].segment[d]
<1>1. l \in OwnedLines(i, d)
  <2>1. l \in MappingOf(base, d, vn).lines
    BY ResourceLines DEF MappingOf, MappingLine
  <2> QED
    BY <2>1 DEF OwnedLines
<1>2. l.sec = Lisp(vn) /\ l.sec[1] = "lisp" /\ l.text = <<"mapping", a>>
  <2> HIDE DEF a
  <2>1. \A t : Line(Lisp(vn), t).sec = Lisp(vn) /\ Line(Lisp(vn), t).text = t
    BY LineFields
  <2> QED
    BY <2>1, SectionsApart DEF MappingLine, a
<1> HIDE DEF l
<1>3. Native(i)
  BY OwnedFrom
<1>4. PICK wn \in Networks(i) : /\ d \in Segments(i, wn) /\ l.sec = Lisp(wn)
                                /\ l.text = <<"mapping", i.policies[wn].segment[d]>>
  <2> DEFINE Mapped(wn) == /\ d \in Segments(i, wn) /\ l.sec = Lisp(wn)
                           /\ l.text = <<"mapping", i.policies[wn].segment[d]>>
  <2>1. ASSUME NEW p, l.text = <<"underlay", i.bum[p]>> PROVE FALSE
    <3> DEFINE x == i.bum[p]
    <3> HIDE DEF x, a
    <3>1. <<"mapping", a>>[1] = "mapping" /\ <<"underlay", x>>[1] = "underlay"
      OBVIOUS
    <3> QED
      BY <1>2, <2>1, <3>1 DEF x
  <2>2. (\E wn \in Networks(i) : Mapped(wn))
          \/ \E p \in DOMAIN i.bum : l.sec = Lisp(p) /\ l.text = <<"underlay", i.bum[p]>>
    BY <1>1, <1>2, LispLines
  <2> QED
    BY <2>1, <2>2
<1>5. wn = vn
  <2>1. Lisp(wn) = Lisp(vn)
    BY <1>2, <1>4
  <2>2. Lisp(wn)[2] = wn /\ Lisp(vn)[2] = vn
    BY TextParts
  <2> QED
    BY <2>1, <2>2
<1>6. i.policies[vn].segment[d] = a
  <2> DEFINE b == i.policies[vn].segment[d]
  <2>1. <<"mapping", a>> = <<"mapping", b>>
    BY <1>2, <1>4, <1>5
  <2> HIDE DEF a, b
  <2>2. a = b
    BY <2>1, TextParts
  <2> QED
    BY <2>2 DEF b
<1>7. AddressOf(base, d, vn) = AddressOf(i, d, vn)
  BY <1>6 DEF AddressOf
<1>8. AddressOf(i, d, vn) \in SegmentResources(i, d, vn)
  BY DEF AddressOf, SegmentResources
<1> QED
  BY <1>3, <1>4, <1>5, <1>7, <1>8, OwnedFrom

\* What was there before and has not gone still has what it names, if it is to
\* go or announces a loopback.
LEMMA LeftNamed ==
  ASSUME NEW base \in Plannable, NEW i \in Plannable, NEW P, P = StepsOf(base, i),
         NEW r, NEW k, NEW g, Phases(P, base, i, r, k, g),
         NEW n \in Nat, NEW d \in Nodes, NEW before, NEW c,
         Traced(P, n, before, c), Entered(P, k, n, c), OwnedLines(base, d) \subseteq before[d],
         NEW l \in OwnedLines(base, d), ~Gone(P, n, d, l), ~Nameless(l),
         \A q \in OwnedState(base, d) \cap OwnedState(i, d) : l \in q.lines => l.text[1] = "mapping"
  PROVE  Named(l) \subseteq c[d]
<1>1. PICK q \in OwnedState(base, d) : l \in q.lines
  BY DEF OwnedLines
<1>2. \A s \in OwnedState(base, d) : \A x \in s.lines : x \in c[d] \/ Gone(P, n, d, x)
  BY DEF OwnedLines, Traced
<1>3. ASSUME NEW vn \in Networks(base),
             q = PolicyOf(base, d, vn), ListOf(base, vn) \in OwnedState(base, d),
             Named(l) = {Header(Acl(base.policies[vn].acl))}, l.text[1] # "mapping"
      PROVE  Named(l) \subseteq c[d]
  <2> DEFINE h == Header(Acl(base.policies[vn].acl))
             s == ListOf(base, vn)
  <2>1. h \in s.lines
    BY ResourceLines DEF ListOf
  <2>2. q \in Stale(base, i, d)
    BY <1>1, <1>3 DEF Stale
  <2>3. q.order > s.order
    <3>1. q.order = 600 /\ s.order = 500
      BY <1>3, ExactFields, WholeFields DEF PolicyOf, ListOf
    <3> QED
      BY <3>1
  <2>4. ASSUME h \notin c[d] PROVE FALSE
    <3>1. Gone(P, n, d, h)
      BY <1>2, <1>3, <2>1, <2>4
    <3>2. PICK m : Sent(P, n, d, m) /\ s \in Stale(base, i, d) /\ P[m] = Send(d, s.remove)
      BY <2>4, <3>1, NamedTaken
    <3>3. Killed(s.remove, h)
      BY <1>3, <2>1, OwnedSound DEF Sound
    <3>4. ASSUME NEW t \in Stale(base, i, d), t.remove = s.remove PROVE t = s
      <4>1. t \in OwnedState(base, d)
        BY DEF Stale
      <4>2. Killed(t.remove, h)
        BY <3>3, <3>4
      <4> QED
        BY <4>1, <4>2, OwnTaker
    <3>5. Gone(P, n, d, l)
      BY <1>1, <2>2, <2>3, <3>2, <3>4, GoneBefore
    <3> QED
      BY <3>5
  <2> QED
    BY <1>3, <2>4
<1>4. ASSUME NEW vn \in Networks(base),
             q = MappingOf(base, d, vn), AddressOf(base, d, vn) \in OwnedState(base, d),
             Named(l) = {AddressLine(base, d, vn)}
      PROVE  Named(l) \subseteq c[d]
  <2> DEFINE x == AddressLine(base, d, vn)
             s == AddressOf(base, d, vn)
  <2>1. x \in s.lines
    BY ResourceLines DEF AddressOf, AddressLine
  <2>2. q.order > s.order
    <3>1. q.order = 800 /\ s.order = 700
      BY <1>4, ExactFields, WholeFields DEF MappingOf, AddressOf
    <3> QED
      BY <3>1
  <2>3. ASSUME x \notin c[d] PROVE FALSE
    <3>1. Gone(P, n, d, x)
      BY <1>2, <1>4, <2>1, <2>3
    <3>2. PICK m : Sent(P, n, d, m) /\ s \in Stale(base, i, d) /\ P[m] = Send(d, s.remove)
      BY <3>1, NamedTaken
    <3>3. Killed(s.remove, x)
      BY <1>4, <2>1, OwnedSound DEF Sound
    <3>4. ASSUME NEW t \in Stale(base, i, d), t.remove = s.remove PROVE t = s
      <4>1. t \in OwnedState(base, d)
        BY DEF Stale
      <4>2. Killed(t.remove, x)
        BY <3>3, <3>4
      <4> QED
        BY <4>1, <4>2, OwnTaker
    <3>5. q \in Stale(base, i, d)
      BY <1>1, <1>4, <3>2, MappingKept DEF Stale
    <3>6. Gone(P, n, d, l)
      BY <1>1, <2>2, <3>2, <3>4, <3>5, GoneBefore
    <3> QED
      BY <3>6
  <2> QED
    BY <1>4, <2>3
<1> QED
  BY <1>1, <1>3, <1>4, OwnedNaming

\* At no step of a run on a current baseline does a policy or LISP name what is
\* not there, unless both designs have the policy.
THEOREM NothingDanglesHolds == RSpec => []NothingDangles
<1>1. ASSUME ReconcileInv, RunTraced PROVE NothingDangles
  <2> DEFINE base == run.plan.base
             i == run.plan.intent
             P == StepsOf(base, i)
             k == Len(ReconciliationPhase(base, i))
             n == run.pos
  <2> SUFFICES ASSUME Current, NEW d \in Nodes, NEW l \in config[d],
                      Retained(d, l) => l.text[1] = "mapping"
               PROVE  Named(l) \subseteq config[d]
    BY DEF NothingDangles
  <2>1. /\ PlanTypes /\ Known(config) /\ RunAnchored /\ RunProgress /\ Running /\ ledger = base
        /\ run.before[d] \cap Manageable(d) = OwnedLines(base, d)
    BY <1>1, CurrentFacts DEF Current
  <2>2. base \in Plannable /\ i \in Plannable
    BY <2>1, RunSteps
  <2>3. PICK r, g : Phases(P, base, i, r, k, g)
    BY <2>2, StepsPhases
  <2>4. n \in Nat /\ Entered(P, k, n, config) /\ Known(run.before)
    BY <2>1 DEF RunProgress, Progress, RunAnchored
  <2>5. Traced(P, n, run.before, config)
    BY <1>1, <2>1 DEF RunTraced
  <2>6. \A q \in OwnedState(base, d) \cap OwnedState(i, d) :
          l \in q.lines => l.text[1] = "mapping"
    BY <2>1 DEF Retained
  <2> HIDE DEF k, n, i, base
  <2>7. CASE Nameless(l)
    BY <2>7, TextNames
  <2>8. CASE ~Nameless(l) /\ Came(P, n, d, l)
    BY <2>2, <2>3, <2>4, <2>8, CameNamed
  <2>9. CASE ~Nameless(l) /\ ~Came(P, n, d, l)
    <3>1. l \in run.before[d] /\ ~Gone(P, n, d, l)
      BY <2>5, <2>9 DEF Traced
    <3>2. ~Unicast(l)
      BY <2>9 DEF Unicast, Nameless
    <3>3. l \in OwnedLines(base, d)
      BY <2>1, <2>4, <3>1, <3>2 DEF Known
    <3>4. OwnedLines(base, d) \subseteq run.before[d]
      BY <2>1
    <3> QED
      BY <2>2, <2>3, <2>4, <2>5, <2>6, <2>9, <3>1, <3>3, <3>4, LeftNamed
  <2> QED
    BY <2>7, <2>8, <2>9
<1> QED
  BY <1>1, ReconcileInvariant, TraceInvariant, PTL
=============================================================================
