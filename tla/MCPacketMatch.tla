--------------------------- MODULE MCPacketMatch ---------------------------
(* Two sessions, two UEs, one server, two tunnels, ports 1 to 4.           *)
EXTENDS PacketMatch, TLC

CONSTANTS u1, u2, n1

MCAddresses == {u1, u2, n1}
MCNetOf     == "server" :> {n1} @@ "ues" :> {u1, u2}
MCPortsOf   == "2" :> {<<2, 2>>} @@ "1-2,4" :> {<<1, 2>>, <<4, 4>>}
MCNumberOf  == "6" :> 6 @@ "17" :> 17

Ends(addr, ports) == [addr |-> addr, ports |-> ports]
NewRule(dir, proto, from, to) == [dir |-> dir, proto |-> proto, from |-> from, to |-> to]

Default  == NewRule("out", "ip", Ends("any", <<>>), Ends("assigned", <<>>))
Remote   == NewRule("out", "17", Ends("server", <<"2">>), Ends("assigned", <<"1-2,4">>))
NamedUDP == NewRule("in", "udp", Ends("ues", <<"any">>), Ends("assigned", <<"any", "2">>))
Plain    == NewRule("out", "6", Ends("any", <<"2">>), Ends("server", <<>>))

\* words that only the userspace driver accepts
AnyWay   == NewRule("both", "17", Ends("any", <<>>), Ends("server", <<"2">>))
NoProto  == NewRule("out", "sctp", Ends("any", <<>>), Ends("any", <<>>))

MCRules == {Default, Remote, NamedUDP, Plain, AnyWay, NoProto}

\* no "to"
Malformed == <<"permit", "out", "ip", "from", "any", "2", "assigned">>

SDFs == {<<>>, <<Malformed>>, <<Text(Remote)>>, <<Text(Default)>>, <<Text(NamedUDP), Text(Plain)>>,
         <<Text(NoProto), Text(AnyWay)>>}

IDs == {<<1, 1>>, <<1, 2>>, <<2, 1>>}

MCPDRs ==
    {[seid |-> i[1], id |-> i[2], prec |-> p, access |-> TRUE, teid |-> t, ue |-> u, sdf |-> f] :
        i \in IDs, p \in {1, 2}, t \in {1, 2}, u \in {u1, None}, f \in SDFs}
    \cup
    {[seid |-> i[1], id |-> i[2], prec |-> p, access |-> FALSE, teid |-> None, ue |-> u1, sdf |-> f] :
        i \in IDs, p \in {1, 2}, f \in SDFs}

Up(t, s, d, proto, sport, dport) ==
    [uplink |-> TRUE, teid |-> t, src |-> s, dst |-> d, proto |-> proto, sport |-> sport, dport |-> dport]
Down(s, d, proto, sport, dport) ==
    [uplink |-> FALSE, teid |-> 0, src |-> s, dst |-> d, proto |-> proto, sport |-> sport, dport |-> dport]

MCPackets ==
    {Up(1, u1, n1, 17, 4, 2), Up(1, u1, n1, 17, 2, 4), Up(2, u2, n1, 6, 2, 2), Up(1, u1, n1, 1, 0, 0),
     Up(2, u1, u2, 17, 2, 3), Up(3, u1, n1, 17, 4, 2), Up(3, u2, n1, 6, 2, 2),
     Down(n1, u1, 17, 2, 4), Down(n1, u1, 6, 4, 2), Down(u2, u1, 17, 3, 2)}
=============================================================================
