---------------------------- MODULE SessionTable ----------------------------
(***************************************************************************)
(* What the session tables of the PFCP server promise, whatever their      *)
(* layout: a set of sessions, each known by a local SEID no other live     *)
(* session has and owned by one control-plane association.  Establishment  *)
(* uses an unused SEID; deletion ends one session; setting an association  *)
(* up again ends the sessions of one owner, all of them and no other.      *)
(***************************************************************************)
CONSTANTS
    Seids,    \* local SEIDs
    RSeids,   \* SEIDs allocated by the control plane
    Owners    \* associations

VARIABLE table   \* the live sessions: a set of [seid, rseid, owner]

Init == table = {}

Establish(s, r, o) ==
    /\ \A e \in table : e.seid # s
    /\ table' = table \cup {[seid |-> s, rseid |-> r, owner |-> o]}

Delete(e) == table' = table \ {e}

ResetOwner(o) == table' = {e \in table : e.owner # o}

Next ==
    \/ \E s \in Seids, r \in RSeids, o \in Owners : Establish(s, r, o)
    \/ \E e \in table : Delete(e)
    \/ \E o \in Owners : ResetOwner(o)

Spec == Init /\ [][Next]_table
=============================================================================
