---------------------------- MODULE PacketMatch ----------------------------
(***************************************************************************)
(* Which PDR a packet meets: the look-up of the userspace driver           *)
(* (userspace/runtime.go, sdf.go), and the SDF filters the gtp5g driver    *)
(* gives the kernel for the same PDR (gtp5g.go, newPdi).                   *)
(*                                                                         *)
(* The PDRs of all sessions change by requests of main; after each one a   *)
(* snapshot with two indexes is published, uplink PDRs by tunnel and       *)
(* downlink PDRs by UE address.  Workers look packets up in it.  Both      *)
(* indexes are built and the uplink fallback reads them in map order, any  *)
(* order.                                                                  *)
(***************************************************************************)
EXTENDS FlowDescription

CONSTANTS
    PDRs,     \* PDRs a request may create
    Packets,  \* packets that arrive
    Rules,    \* reference: the rules whose texts the descriptions are
    MaxPDRs   \* bound: PDRs at a time

\* a PDR of a session; teid and ue may be None, sdf is a sequence of
\* descriptions
PDR == [seid : Nat, id : Nat, prec : Nat, access : BOOLEAN, teid : Nat \cup {None},
        ue : Addresses \cup {None}, sdf : Seq(Seq(STRING))]

Packet == [uplink : BOOLEAN, teid : Nat, src : Addresses, dst : Addresses, proto : Protocols,
           sport : Nat, dport : Nat]

\* the grammar of flowdesc.go:11, with any number of port fields, and any word
\* for the direction and the protocol
Endpoint == [addr : {"any", "assigned"} \cup DOMAIN NetOf, ports : Seq({"any"} \cup DOMAIN PortsOf)]
Rule == [dir : STRING, proto : STRING, from : Endpoint, to : Endpoint]

Text(r) ==
    <<"permit", r.dir, r.proto, "from", r.from.addr>> \o r.from.ports
        \o <<"to", r.to.addr>> \o r.to.ports

\* a description follows the grammar, or cannot be parsed (the userspace driver
\* would also read one without any source between "from" and "to")
ASSUME MatchAssumption ==
    /\ Rules \subseteq Rule
    /\ PDRs \subseteq PDR /\ None \notin PDRs
    /\ \A b \in PDRs : \A d \in Range(b.sdf) :
          parseFlowDescription(d) = None \/ \E r \in Rules : d = Text(r)
    /\ Packets \subseteq Packet
    /\ MaxPDRs \in Nat

VARIABLES
    pdrs,   \* the PDRs of all sessions
    look    \* the last look-up: its packet and the PDR it met, or None

vars == <<pdrs, look>>

Init == pdrs = {} /\ look = None

-----------------------------------------------------------------------------
(* SDF filters in the userspace driver                                     *)

HasPorts(pkt) == pkt.proto \in {6, 17}

protocolMatches(proto, actual) ==
    CASE proto = "ip"   -> TRUE
      [] proto = "tcp"  -> actual = 6
      [] proto = "udp"  -> actual = 17
      [] proto = "icmp" -> actual = 1
      [] OTHER -> proto \in DOMAIN NumberOf /\ NumberOf[proto] = actual

endpointMatches(ep, ue, ip, port, hasPorts) ==
    /\ ep.assigned => ue # None /\ ue = ip
    /\ ep.net # None => ip \in ep.net
    /\ ep.ports # {} => hasPorts /\ \E r \in ep.ports : port \in r[1] .. r[2]

ruleUsesAssigned(rule) == rule.src.assigned \/ rule.dst.assigned

endpointsMatchRule(rule, ue, pkt) ==
    /\ endpointMatches(rule.src, ue, pkt.src, pkt.sport, HasPorts(pkt))
    /\ endpointMatches(rule.dst, ue, pkt.dst, pkt.dport, HasPorts(pkt))

Reversed(pkt) ==
    [pkt EXCEPT !.src = pkt.dst, !.dst = pkt.src, !.sport = pkt.dport, !.dport = pkt.sport]

\* a rule with the assigned address holds in both directions, and an uplink
\* packet may meet it either way round
ruleMatches(rule, ue, pkt) ==
    /\ rule.dir = "out" /\ ~pkt.uplink => ruleUsesAssigned(rule)
    /\ rule.dir = "in" /\ pkt.uplink => ruleUsesAssigned(rule)
    /\ protocolMatches(rule.proto, pkt.proto)
    /\ \/ endpointsMatchRule(rule, ue, pkt)
       \/ /\ pkt.uplink /\ ruleUsesAssigned(rule)
          /\ endpointsMatchRule(rule, ue, Reversed(pkt))

matchSDF(b, pkt) ==
    b.sdf = <<>> \/ \E d \in Range(b.sdf) : ruleMatches(parseFlowDescription(d), b.ue, pkt)

-----------------------------------------------------------------------------
(* Look-up                                                                 *)

\* sortBindings: the highest precedence first, then the lowest ID
Before(a, b) == a.prec > b.prec \/ (a.prec = b.prec /\ a.id < b.id)

\* the bindings under one key of an index: sorted, two sessions' equals in any order
Sorted(S) == {q \in SetToSeqs(S) : \A i, j \in 1 .. Len(q) : i < j => ~Before(q[j], q[i])}

\* the PDRs under one key of snapshot.Uplink and snapshot.Downlink
Uplink(teid) == {b \in pdrs : b.access /\ b.teid = teid}
Downlink(ue) == {b \in pdrs : ~b.access /\ b.ue = ue}

\* those under all other keys of snapshot.Uplink: one key after the other in
\* map order, each sorted by itself
fallbackBindings(teid) ==
    {q \in SetToSeqs({b \in pdrs : b.access /\ b.teid \notin {teid, None}}) :
        \A i, j \in 1 .. Len(q) : i < j /\ q[i].teid = q[j].teid =>
            ~Before(q[j], q[i]) /\ \A k \in i .. j : q[k].teid = q[i].teid}

First(q, I) == IF I = {} THEN None ELSE q[Min(I)]

Matching(q, pkt) == {i \in 1 .. Len(q) : matchSDF(q[i], pkt)}

Fits(b, ue) == b.ue = None \/ b.ue = ue

\* mutant: a PDR of another UE address ends the search
selectFirst(q, pkt) == First(q, Matching(q, pkt))

\* the first PDR whose UE address fits, else the first one of another address
selectUplinkBinding(q, pkt) ==
    LET fits == {i \in Matching(q, pkt) : Fits(q[i], pkt.src)}
    IN  First(q, IF fits # {} THEN fits ELSE Matching(q, pkt))

\* the PDRs of the tunnel, and without a match those of all other tunnels
matchUplink(pkt) ==
    LET own == {selectUplinkBinding(q, pkt) : q \in Sorted(Uplink(pkt.teid))}
    IN  IF own # {None} THEN own
        ELSE {selectUplinkBinding(q, pkt) : q \in fallbackBindings(pkt.teid)}

matchDownlink(pkt) == {First(q, Matching(q, pkt)) : q \in Sorted(Downlink(pkt.dst))}

-----------------------------------------------------------------------------
(* Actions                                                                 *)

\* CreatePDR: a description that cannot be parsed refuses the PDR
PutPDR(b) ==
    /\ \A d \in Range(b.sdf) : parseFlowDescription(d) # None
    /\ pdrs' = {x \in pdrs : <<x.seid, x.id>> # <<b.seid, b.id>>} \cup {b}
    /\ Cardinality(pdrs') <= MaxPDRs
    /\ look' = None

RemovePDR(b) ==
    /\ b \in pdrs
    /\ pdrs' = pdrs \ {b}
    /\ look' = None

\* processUplink and processDownlink up to the look-up
Process(pkt) ==
    /\ \E b \in IF pkt.uplink THEN matchUplink(pkt) ELSE matchDownlink(pkt) :
          look' = [pkt |-> pkt, met |-> b]
    /\ UNCHANGED pdrs

Next ==
    \/ \E b \in PDRs : PutPDR(b) \/ RemovePDR(b)
    \/ \E pkt \in Packets : Process(pkt)

Spec == Init /\ [][Next]_vars

-----------------------------------------------------------------------------
(* Reference: a rule means the packets it permits, as sets.                *)

Addrs(end) == IF end.addr \in DOMAIN NetOf THEN NetOf[end.addr] ELSE Addresses
Ports(end) == UNION {PortsOf[t] : t \in Range(end.ports) \ {"any"}}

Protos(proto) ==
    CASE proto = "ip"   -> Protocols
      [] proto = "tcp"  -> {6}
      [] proto = "udp"  -> {17}
      [] proto = "icmp" -> {1}
      [] OTHER          -> {NumberOf[t] : t \in DOMAIN NumberOf \cap {proto}}

From(end, ue, ip, port, pkt) ==
    /\ IF end.addr = "assigned" THEN ip = ue ELSE ip \in Addrs(end)
    /\ Ports(end) = {} \/ (HasPorts(pkt) /\ \E x \in Ports(end) : port \in x[1] .. x[2])

Permits(r, ue, pkt) ==
    /\ pkt.proto \in Protos(r.proto)
    /\ From(r.from, ue, pkt.src, pkt.sport, pkt)
    /\ From(r.to, ue, pkt.dst, pkt.dport, pkt)

\* A flow of the assigned address goes both ways; another one has the
\* direction of its description, out of the UE and in to it, where any other
\* word is both.
Means(r, ue, pkt) ==
    IF "assigned" \in {r.from.addr, r.to.addr}
    THEN \/ Permits(r, ue, pkt)
         \/ pkt.uplink /\ Permits(r, ue, [pkt EXCEPT !.src = pkt.dst, !.dst = pkt.src,
                                           !.sport = pkt.dport, !.dport = pkt.sport])
    ELSE r.dir # (IF pkt.uplink THEN "in" ELSE "out") /\ Permits(r, ue, pkt)

Filters(b, pkt) ==
    b.sdf = <<>> \/ \E d \in Range(b.sdf), r \in Rules : d = Text(r) /\ Means(r, b.ue, pkt)

Best(S) ==
    {b \in S : \A c \in S : c.prec < b.prec \/ (c.prec = b.prec /\ c.id >= b.id)}

\* the PDRs an uplink packet may meet
UplinkChoice(pkt) ==
    LET Of(k)  == {b \in pdrs : b.access /\ b.teid = k /\ Filters(b, pkt)}
        Fit(k) == {b \in Of(k) : Fits(b, pkt.src)}
        others == {k \in {b.teid : b \in pdrs} \ {pkt.teid, None} : Of(k) # {}}
        fitting == {k \in others : Fit(k) # {}}
    IN  CASE Fit(pkt.teid) # {} -> Best(Fit(pkt.teid))
          [] Fit(pkt.teid) = {} /\ Of(pkt.teid) # {} -> Best(Of(pkt.teid))
          [] Of(pkt.teid) = {} /\ fitting # {} -> UNION {Best(Fit(k)) : k \in fitting}
          [] Of(pkt.teid) = {} /\ fitting = {} /\ others # {} -> UNION {Best(Of(k)) : k \in others}
          [] OTHER -> {None}

DownlinkChoice(pkt) ==
    LET S == {b \in pdrs : ~b.access /\ b.ue = pkt.dst /\ Filters(b, pkt)}
    IN  IF S # {} THEN Best(S) ELSE {None}

-----------------------------------------------------------------------------
(* The gtp5g driver, and the kernel behind it (external)                   *)

\* the filters the kernel gets: the source interface of the PDR, wherever it
\* stands in the PDI, decides which way round
newSdfFilter(d, access) == newFlowDesc(d, access)
newPdi(b) == {newSdfFilter(d, b.access) : d \in Range(b.sdf)}

FilterMatches(fd, pkt) ==
    /\ fd.proto \in {AnyProto, pkt.proto}
    /\ pkt.src \in fd.src /\ pkt.dst \in fd.dst
    /\ fd.sports # {} => \E r \in fd.sports : pkt.sport \in r[1] .. r[2]
    /\ fd.dports # {} => \E r \in fd.dports : pkt.dport \in r[1] .. r[2]

KernelMatches(b, pkt) == newPdi(b) = {} \/ \E fd \in newPdi(b) : FilterMatches(fd, pkt)

-----------------------------------------------------------------------------
(* Properties                                                              *)

\* Parsing, index, order and the search choose the PDR the reference
\* chooses, whatever the map orders: of the PDRs of the tunnel or UE address
\* whose filters permit the packet the one with the highest precedence, those
\* of the packet's own UE address first; and only for a tunnel without such a
\* PDR one of another tunnel.  There the reference asks no more than that the
\* PDR is the best one of its own tunnel: the comment at runtime.go:218 says
\* that precedence narrows the match over all tunnels, but the code takes the
\* tunnels in map order and sorts within each one only.
MeetsReference ==
    look # None =>
        look.met \in IF look.pkt.uplink THEN UplinkChoice(look.pkt) ELSE DownlinkChoice(look.pkt)

\* "permit out <proto> from <remote> to assigned", with a protocol number
\* other than 255, which is "ip" to the kernel, and at most one list of ports
\* on each side
StandardForm(r) ==
    /\ r.dir = "out" /\ r.to.addr = "assigned" /\ r.from.addr # "assigned"
    /\ r.proto \in DOMAIN NumberOf => NumberOf[r.proto] # AnyProto
    /\ Len(r.from.ports) <= 1 /\ Len(r.to.ports) <= 1

\* Both drivers classify alike what flow descriptions of the standard form
\* that both accept say of a UE's TCP and UDP packets to and from others: the
\* gtp5g driver swaps the ends of the filter for an access PDR, the userspace
\* driver those of the packet.  (A packet without ports is left out: what the
\* kernel compares a list of ports with is not in this repository.)
DriversAgree ==
    look # None =>
        LET pkt == look.pkt IN
        \A b \in pdrs :
            /\ b.access = pkt.uplink
            /\ b.ue = (IF pkt.uplink THEN pkt.src ELSE pkt.dst) /\ pkt.src # pkt.dst
            /\ HasPorts(pkt)
            /\ \A d \in Range(b.sdf) :
                  ParseFlowDesc(d) # None /\ \E r \in Rules : d = Text(r) /\ StandardForm(r)
            => (KernelMatches(b, pkt) <=> matchSDF(b, pkt))
=============================================================================
