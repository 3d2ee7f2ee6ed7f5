----------------------------- MODULE MCPfcpNode -----------------------------
(* Two SMFs with one address each, two remote SEIDs, three session slots.  *)
(* Three RemoteNode objects: two registered ones and an orphan, or a new   *)
(* one.  Handles and remote SEIDs are interchangeable.                     *)
EXTENDS PfcpNode, TLC

CONSTANTS smf1, smf2, addr1, addr2

MCNodeIDs == {smf1, smf2}
MCAddrs   == {addr1, addr2}
MCAddrOf  == smf1 :> addr1 @@ smf2 :> addr2

Symmetry ==
    {f @@ g : f \in Permutations(Handles), g \in Permutations(RSeids)}
=============================================================================
