-------------------------- MODULE FlowDescription --------------------------
(***************************************************************************)
(* The two parsers of SDF flow descriptions: parseFlowDescription of the   *)
(* userspace driver (userspace/sdf.go) and ParseFlowDesc of the gtp5g      *)
(* driver (flowdesc.go).                                                   *)
(*                                                                         *)
(* A description is the sequence of its fields.  What a field is as an     *)
(* address, a list of ports or a number is given by the constants, for     *)
(* both parsers alike; case and white space are left out, and so are       *)
(* fields only one of them can read (IPv6 addresses, lists with empty      *)
(* parts).                                                                 *)
(***************************************************************************)
EXTENDS Naturals, Sequences, FiniteSets, SequencesExt

CONSTANTS
    Addresses,  \* IPv4 addresses
    NetOf,      \* NetOf[t]: the addresses of the network a field denotes
    PortsOf,    \* PortsOf[t]: the ranges <<from, to>> of a field with ports
    NumberOf,   \* NumberOf[t]: the number of a numeric protocol field
    None

Protocols == 0 .. 255
Networks  == {NetOf[t] : t \in DOMAIN NetOf}
PortLists == {UNION {PortsOf[t] : t \in T} : T \in SUBSET DOMAIN PortsOf}

Directions == {"in", "out"}
ProtoNames == {"ip", "tcp", "udp", "icmp"}

\* what the userspace driver makes of an endpoint and of a description, and
\* the gtp5g driver of a description
FlowEndpoint  == [assigned : BOOLEAN, net : Networks \cup {None}, ports : PortLists]
SDFFilterRule == [dir : STRING, proto : STRING, src : FlowEndpoint, dst : FlowEndpoint]
FlowDesc      == [dir : Directions, proto : Protocols, src : Networks \cup {Addresses},
                  dst : Networks \cup {Addresses}, sports : PortLists, dports : PortLists]

ASSUME FieldAssumption ==
    /\ \A t \in DOMAIN NetOf : NetOf[t] \subseteq Addresses
    /\ \A t \in DOMAIN PortsOf : PortsOf[t] \subseteq Nat \X Nat
    /\ \A t \in DOMAIN NumberOf : NumberOf[t] \in Protocols
    /\ {"any", "assigned", "to"} \cap (DOMAIN NetOf \cup DOMAIN PortsOf) = {}
    /\ ProtoNames \cap DOMAIN NumberOf = {}
    /\ None \notin Addresses \cup Networks \cup PortLists
    /\ None \notin FlowEndpoint /\ None \notin SDFFilterRule /\ None \notin FlowDesc

-----------------------------------------------------------------------------
(* userspace/sdf.go.  None is an error.                                    *)

\* the ranges of all fields; "any" adds none, which leaves every port
parsePortList(fields) ==
    LET lists == Range(fields) \ {"any"} IN
    IF lists \subseteq DOMAIN PortsOf THEN UNION {PortsOf[t] : t \in lists} ELSE None

\* net is None where the address is not looked at
parseFlowEndpoint(fields) ==
    LET addr  == IF fields = <<>> THEN "any" ELSE Head(fields)
        ports == IF fields = <<>> THEN {} ELSE parsePortList(Tail(fields))
    IN  IF addr \notin {"any", "assigned"} \cup DOMAIN NetOf \/ ports = None
        THEN None
        ELSE [assigned |-> addr = "assigned",
              net      |-> IF addr \in DOMAIN NetOf THEN NetOf[addr] ELSE None,
              ports    |-> ports]

\* direction and protocol may be any words; the first "to" after the source
\* splits the endpoints
parseFlowDescription(d) ==
    LET to == {i \in 5 .. Len(d) : d[i] = "to"} IN
    IF Len(d) < 7 \/ d[1] # "permit" \/ d[4] # "from" \/ to = {} \/ Len(d) \in to
    THEN None
    ELSE LET i   == CHOOSE x \in to : \A y \in to : x <= y
             src == parseFlowEndpoint(SubSeq(d, 5, i - 1))
             dst == parseFlowEndpoint(SubSeq(d, i + 1, Len(d)))
         IN  IF src = None \/ dst = None THEN None
             ELSE [dir |-> d[2], proto |-> d[3], src |-> src, dst |-> dst]

-----------------------------------------------------------------------------
(* flowdesc.go and newFlowDesc of gtp5g.go                                 *)

AnyProto == 255   \* 0xff, the protocol of "ip"

\* any and assigned are the network 0.0.0.0/0
ParseFlowDescIPNet(t) == IF t \in DOMAIN NetOf THEN NetOf[t] ELSE Addresses

IsAddress(t) == t \in {"any", "assigned"} \cup DOMAIN NetOf

\* no ports are any ports
ParseFlowDescPorts(t) == IF t \in DOMAIN PortsOf THEN PortsOf[t] ELSE {}

\* a field that is no list of ports is taken for the next part, after the
\* destination it is ignored
ParseFlowDesc(d) ==
    IF ~ /\ Len(d) >= 6
         /\ d[1] = "permit" /\ d[2] \in {"in", "out"}
         /\ d[3] \in {"ip"} \cup DOMAIN NumberOf
         /\ d[4] = "from" /\ IsAddress(d[5])
    THEN None
    ELSE LET to == IF d[6] \in DOMAIN PortsOf THEN 7 ELSE 6 IN
         IF ~ /\ Len(d) >= to + 1
              /\ d[to] = "to" /\ IsAddress(d[to + 1])
         THEN None
         ELSE [dir    |-> d[2],
               proto  |-> IF d[3] = "ip" THEN AnyProto ELSE NumberOf[d[3]],
               src    |-> ParseFlowDescIPNet(d[5]),
               dst    |-> ParseFlowDescIPNet(d[to + 1]),
               sports |-> ParseFlowDescPorts(d[6]),
               dports |-> IF Len(d) > to + 1 THEN ParseFlowDescPorts(d[to + 2]) ELSE {}]

\* mutant: the addresses are swapped, the ports are not
newFlowDescKeepsPorts(d, swapSrcDst) ==
    LET fd == ParseFlowDesc(d) IN
    IF fd = None \/ ~swapSrcDst THEN fd
    ELSE [fd EXCEPT !.src = fd.dst, !.dst = fd.src]

\* what the kernel gets: for a PDR of the access side source and destination
\* change places
newFlowDesc(d, swapSrcDst) ==
    LET fd == ParseFlowDesc(d) IN
    IF fd = None \/ ~swapSrcDst THEN fd
    ELSE [fd EXCEPT !.src = fd.dst, !.dst = fd.src,
                    !.sports = fd.dports, !.dports = fd.sports]
=============================================================================
