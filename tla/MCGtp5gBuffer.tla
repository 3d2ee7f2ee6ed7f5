--------------------------- MODULE MCGtp5gBuffer ---------------------------
(* One SEID used twice, one PDR, two FARs; one packet more than srCh has   *)
(* room for.                                                               *)
EXTENDS Gtp5gBuffer, TLC

CONSTANTS g1

BUFF == {"BUFF", "NOCP"}
FORW == {"FORW"}
DROP == {"DROP"}
NONE == {"NOCP"}

MCActions == {BUFF, FORW, DROP, NONE}
\* FAR 1 is that of a UE that goes idle and returns; FAR 0, which is asked for
\* when the FAR ID comes late, buffers and has no outer header
MCNewFARs == [f \in {0, 1} |-> {[action |-> BUFF, param |-> IF f = 0 THEN None ELSE g1]}]
MCChanges == [f \in {0, 1} |->
                IF f = 0 THEN {}
                ELSE {[action |-> a, param |-> None] : a \in MCActions}
                     \cup {[action |-> None, param |-> g1]}]
=============================================================================
