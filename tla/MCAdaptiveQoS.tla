---------------------------- MODULE MCAdaptiveQoS ----------------------------
(* Session s1 has the UE address 1, a PDR that refers to q1, and up to two *)
(* QERs; s2 is there or not.  Flow f1 is reported for the address or for   *)
(* the SEID, with an arrival and, once, with a burst of no size, and by    *)
(* another UE for s2, with a burst whose rate wraps around to 64; flow f2  *)
(* without either, which binds it to the only session.                     *)
EXTENDS AdaptiveQoS, TLC

CONSTANTS s1, s2, f1, f2, q1, q2

R(type, flow, hint, ue, stamp, arrival, burst, size) ==
    [type |-> type, flow |-> flow, hint |-> hint, ue |-> ue, stamp |-> stamp,
     arrival |-> arrival, burst |-> burst, kind |-> 0, size |-> size,
     deadline |-> 1, length |-> 0]

MCReports ==
    {R("intent", f1, None, 1, 0, 1, TRUE, 1),
     R("intent", f1, s1, 0, 2, 2, TRUE, 0),
     R("intent", f1, s2, 0, 0, 1, TRUE, 14549),
     R("intent", f2, None, 0, 0, 0, FALSE, 1),
     R("end", f1, None, 0, 0, 0, FALSE, 0)}

MCPDRRules == s1 :> {[ue |-> 1, qers |-> {q1}]} @@ s2 :> {}
MCQERs     == s1 :> {q1, q2} @@ s2 :> {q2}
MCRates(mbr) == [mbrDL |-> mbr, mbrUL |-> mbr, gfbrDL |-> 1, gfbrUL |-> 1]
MCRules    == << [kinds |-> {1}, rates |-> MCRates(7), dur |-> 1],
                 [kinds |-> {0}, rates |-> MCRates(9), dur |-> 0] >>
=============================================================================
