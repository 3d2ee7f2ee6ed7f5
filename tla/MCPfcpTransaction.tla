-------------------------- MODULE MCPfcpTransaction -------------------------
(* One peer, two server requests that overlap, one peer sequence number    *)
(* that is repeated and used again, and every channel at its limit.        *)
EXTENDS PfcpTransaction
=============================================================================
