-------------------------- MODULE MCUserspaceDriver --------------------------
(* One rule of each kind.  The FAR forwards, or buffers with notification; *)
(* with the BAR, one packet is held and the notification is delayed,       *)
(* without it neither holds.                                               *)
EXTENDS UserspaceDriver

CONSTANTS f1, b1, u1

MCPDRRules == {[far |-> f1, urrs |-> {u1}]}
MCFARRules == {[act |-> {"FORW"}, bar |-> None],
               [act |-> {"BUFF", "NOCP"}, bar |-> b1]}
MCBARRules == {[limit |-> 1, delay |-> TRUE]}
MCURRRules == {[threshold |-> 2, perio |-> TRUE]}

MCPrecedence == [p \in PDRs |-> 10]
MCAccepts    == [p \in PDRs |-> Packets]
=============================================================================
