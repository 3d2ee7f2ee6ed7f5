----------------------------- MODULE PfcpConfig -----------------------------
(***************************************************************************)
(* The setting of the PFCP server (type Pfcp, pkg/factory/config.go) that  *)
(* sent and received transactions share.                                   *)
(***************************************************************************)
EXTENDS Naturals

CONSTANT MaxRetrans   \* cfg.Pfcp.MaxRetrans, a uint8

ASSUME ConfigConstants == MaxRetrans \in 0 .. 255
=============================================================================
