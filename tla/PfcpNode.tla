------------------------------ MODULE PfcpNode ------------------------------
(***************************************************************************)
(* The association and session tables of the PFCP server:                  *)
(*   - LocalNode (internal/pfcp/node.go): the slice of session slots,      *)
(*     indexed by local SEID - 1, and the LIFO list of free SEIDs;         *)
(*   - RemoteNode: one heap object per association, holding the node ID,   *)
(*     the address the association came from and the set of its SEIDs;     *)
(*   - PfcpServer.rnodes: the map from node ID to RemoteNode.              *)
(*                                                                         *)
(* All of this state is touched by the `main' goroutine only, so every     *)
(* handler is one atomic action.  RemoteNode objects are pointers in the   *)
(* code (Sess.rnode, rnodes[id]); they are Handles here, and a handle that *)
(* nothing refers to may be allocated again, as the garbage collector      *)
(* does.  Rule tables inside a session are the subject of PfcpSession.     *)
(***************************************************************************)
EXTENDS Naturals, Sequences, FiniteSets

CONSTANTS
    NodeIDs,      \* Node IDs carried by PFCP messages
    Addrs,        \* UDP addresses of control-plane functions
    AddrOf,       \* AddrOf[id]: what "<id>:8805" resolves to
    RSeids,       \* SEIDs allocated by the control plane
    Handles,      \* identities of RemoteNode objects
    Nil,          \* the nil pointer
    MaxSlots,     \* bound: session slots the model may allocate
    MaxPending    \* bound: unanswered reports per (remote SEID, address)

ASSUME NodeConstants ==
    /\ AddrOf \in [NodeIDs -> Addrs]
    /\ Nil \notin NodeIDs \cup Addrs \cup Handles
    /\ Nil \notin [rseid : RSeids, rnode : Handles]
    /\ MaxSlots \in Nat
    /\ MaxPending \in Nat

VARIABLES
    sess,     \* LocalNode.sess: Seq of Nil or [rseid, rnode]
    free,     \* LocalNode.free: Seq of SEIDs, last one is reused first
    nodes,    \* the RemoteNode objects: handle -> [id, addr, sess]
    rnodes,   \* PfcpServer.rnodes: node ID -> handle or Nil
    pending,  \* unanswered SessionReportRequests per <<req.SEID, address>>
    crashed   \* main has panicked (recovered by Fatalf: the process exits)

vars == <<sess, free, nodes, rnodes, pending, crashed>>

Session == [rseid : RSeids, rnode : Handles]
Node    == [id : NodeIDs \cup {Nil}, addr : Addrs \cup {Nil}, sess : SUBSET Nat]
Slots   == 1 .. Len(sess)

TypeOK ==
    /\ sess \in Seq(Session \cup {Nil})
    /\ free \in Seq(Nat)
    /\ nodes \in [Handles -> Node]
    /\ rnodes \in [NodeIDs -> Handles \cup {Nil}]
    /\ pending \in [RSeids \X Addrs -> Nat]
    /\ crashed \in BOOLEAN

-----------------------------------------------------------------------------
(* Look-ups                                                                *)

\* LocalNode.Sess(k) finds a session
Live(k) == k \in Slots /\ sess[k] # Nil

LiveSeids == {k \in Slots : sess[k] # Nil}

\* some map entry or session still points to the object
Reachable(h) ==
    \/ \E id \in NodeIDs : rnodes[id] = h
    \/ \E k \in LiveSeids : sess[k].rnode = h

\* LocalNode.RemoteSess dereferences each slot in turn: what stops the scan
\* is a match, or a nil slot, whose field access panics
Stops(k, r, a) ==
    \/ sess[k] = Nil
    \/ sess[k].rseid = r /\ nodes[sess[k].rnode].addr = a

RemoteSess(r, a) ==
    {k \in Slots : Stops(k, r, a) /\ \A j \in 1 .. (k - 1) : ~Stops(j, r, a)}

-----------------------------------------------------------------------------
(* LocalNode and RemoteNode operations                                     *)

NewRemoteNode(id, a) == [id |-> id, addr |-> a, sess |-> {}]

\* LocalNode.NewSess: the SEID it hands out
NextSeid == IF free # <<>> THEN free[Len(free)] ELSE Len(sess) + 1

\* mutant: the SEID stays on the free list
NewSessKeepsFree(s) ==
    IF free # <<>>
    THEN sess' = [sess EXCEPT ![free[Len(free)]] = s] /\ UNCHANGED free
    ELSE sess' = Append(sess, s) /\ UNCHANGED free

\* ... and what it does to the slots and the free list
NewSess(s) ==
    IF free # <<>>
    THEN /\ sess' = [sess EXCEPT ![free[Len(free)]] = s]
         /\ free' = SubSeq(free, 1, Len(free) - 1)
    ELSE /\ sess' = Append(sess, s)
         /\ UNCHANGED free

\* mutant: the SEID is freed but the slot is not cleared
LocalDeleteSessKeepsSlot(k) ==
    /\ free' = Append(free, k)
    /\ UNCHANGED sess

\* LocalNode.DeleteSess
LocalDeleteSess(k) ==
    /\ sess' = [sess EXCEPT ![k] = Nil]
    /\ free' = Append(free, k)

\* mutant: the node keeps the SEID
DeleteSessKeepsOwner(h, k) ==
    /\ k \in nodes[h].sess
    /\ LocalDeleteSess(k)
    /\ UNCHANGED nodes

\* RemoteNode.DeleteSess: nothing when the node does not own the SEID
DeleteSess(h, k) ==
    /\ k \in nodes[h].sess
    /\ nodes' = [nodes EXCEPT ![h].sess = @ \ {k}]
    /\ LocalDeleteSess(k)

\* the orders in which a Go map with key set S may be iterated
Orders(S) ==
    {f \in [1 .. Cardinality(S) -> S] :
        /\ \A i, j \in 1 .. Cardinality(S) : f[i] = f[j] => i = j
        /\ \A x \in S : \E i \in 1 .. Cardinality(S) : f[i] = x}

\* RemoteNode.Reset: DeleteSess on every session of the node
ResetSess(h) ==
    LET closed == nodes[h].sess \cap LiveSeids IN
    /\ sess' = [k \in Slots |-> IF k \in closed THEN Nil ELSE sess[k]]
    /\ \E order \in Orders(closed) : free' = free \o order

-----------------------------------------------------------------------------
(* Handlers                                                                *)

Init ==
    /\ sess = <<>>
    /\ free = <<>>
    /\ nodes = [h \in Handles |-> NewRemoteNode(Nil, Nil)]
    /\ rnodes = [id \in NodeIDs |-> Nil]
    /\ pending = [p \in RSeids \X Addrs |-> 0]
    /\ crashed = FALSE

\* handleAssociationSetupRequest, first association of this node ID
AssociationSetupNew(id, a, h) ==
    /\ ~crashed
    /\ rnodes[id] = Nil
    /\ ~Reachable(h)
    /\ nodes' = [nodes EXCEPT ![h] = NewRemoteNode(id, a)]
    /\ rnodes' = [rnodes EXCEPT ![id] = h]
    /\ UNCHANGED <<sess, free, pending, crashed>>

\* handleAssociationSetupRequest, the node ID is already associated
AssociationSetupAgain(id, a, h) ==
    /\ ~crashed
    /\ rnodes[id] # Nil
    /\ ~Reachable(h)
    /\ ResetSess(rnodes[id])
    /\ nodes' = [nodes EXCEPT ![rnodes[id]].sess = {}, ![h] = NewRemoteNode(id, a)]
    /\ rnodes' = [rnodes EXCEPT ![id] = h]
    /\ UNCHANGED <<pending, crashed>>

\* handleSessionEstablishmentRequest: an unknown node ID is dropped unanswered
SessionEstablishment(id, r) ==
    /\ ~crashed
    /\ rnodes[id] # Nil
    /\ NextSeid <= MaxSlots
    /\ NewSess([rseid |-> r, rnode |-> rnodes[id]])
    /\ nodes' = [nodes EXCEPT ![rnodes[id]].sess = @ \cup {NextSeid}]
    /\ UNCHANGED <<rnodes, pending, crashed>>

\* mutant: the entry under the old ID is not deleted
UpdateNodeIDKeepsOld(n, newId) ==
    /\ nodes' = [nodes EXCEPT ![n].id = newId]
    /\ rnodes' = [rnodes EXCEPT ![newId] = n]

\* UpdateNodeID(n, newId)
UpdateNodeID(n, newId) ==
    /\ nodes' = [nodes EXCEPT ![n].id = newId]
    /\ rnodes' = [[rnodes EXCEPT ![nodes[n].id] = Nil] EXCEPT ![newId] = n]

\* handleSessionModificationRequest with a Node ID: a new SMF of the SMF set
\* takes the session over
SessionTakeOver(k, newId) ==
    /\ ~crashed
    /\ Live(k)
    /\ UpdateNodeID(sess[k].rnode, newId)
    /\ UNCHANGED <<sess, free, pending, crashed>>

\* handleSessionDeletionRequest
SessionDeletion(k) ==
    /\ ~crashed
    /\ Live(k)
    /\ DeleteSess(sess[k].rnode, k)
    /\ UNCHANGED <<rnodes, pending, crashed>>

\* ServeReport: a SessionReportRequest goes to "<node ID>:8805"
ServeReport(k) ==
    /\ ~crashed
    /\ Live(k)
    /\ LET to == <<sess[k].rseid, AddrOf[nodes[sess[k].rnode].id]>> IN
       /\ pending[to] < MaxPending
       /\ pending' = [pending EXCEPT ![to] = @ + 1]
    /\ UNCHANGED <<sess, free, nodes, rnodes, crashed>>

\* mutant: the transaction need not exist
ReportDoneUnguarded(r, a) ==
    /\ ~crashed
    /\ pending' = [pending EXCEPT ![<<r, a>>] = @ - 1]
    /\ UNCHANGED <<sess, free, nodes, rnodes, crashed>>

\* a report is given up after MaxRetrans retransmissions, or answered with a
\* SEID: neither changes the tables
ReportDone(r, a) ==
    /\ ~crashed
    /\ pending[<<r, a>>] > 0
    /\ pending' = [pending EXCEPT ![<<r, a>>] = @ - 1]
    /\ UNCHANGED <<sess, free, nodes, rnodes, crashed>>

\* handleSessionReportResponse with SEID 0: the control plane does not know
\* the session
ReportResponseSeidZero(r, a) ==
    /\ ~crashed
    /\ pending[<<r, a>>] > 0
    /\ pending' = [pending EXCEPT ![<<r, a>>] = @ - 1]
    /\ UNCHANGED rnodes
    /\ \/ /\ RemoteSess(r, a) = {}
          /\ UNCHANGED <<sess, free, nodes, crashed>>
       \/ \E k \in RemoteSess(r, a) :
             /\ sess[k] = Nil
             /\ crashed' = TRUE
             /\ UNCHANGED <<sess, free, nodes>>
       \/ \E k \in RemoteSess(r, a) :
             /\ sess[k] # Nil
             /\ DeleteSess(sess[k].rnode, k)
             /\ UNCHANGED crashed

Next ==
    \/ \E id \in NodeIDs, a \in Addrs, h \in Handles :
          AssociationSetupNew(id, a, h) \/ AssociationSetupAgain(id, a, h)
    \/ \E id \in NodeIDs, r \in RSeids : SessionEstablishment(id, r)
    \/ \E k \in Slots, id \in NodeIDs : SessionTakeOver(k, id)
    \/ \E k \in Slots : SessionDeletion(k) \/ ServeReport(k)
    \/ \E r \in RSeids, a \in Addrs : ReportDone(r, a) \/ ReportResponseSeidZero(r, a)

Spec == Init /\ [][Next]_vars

-----------------------------------------------------------------------------
(* Properties                                                              *)

\* LocalNode.free holds the SEIDs of exactly the empty slots, each once: no
\* live session's SEID can be handed out again, and no slot is ever lost.
FreeListExact ==
    /\ \A i \in 1 .. Len(free) : free[i] \in Slots /\ sess[free[i]] = Nil
    /\ \A i, j \in 1 .. Len(free) : free[i] = free[j] => i = j
    /\ \A k \in Slots : sess[k] = Nil => \E i \in 1 .. Len(free) : free[i] = k

\* Sess.rnode and RemoteNode.sess are inverse to each other: a session is in
\* the set of the node object it points to and in no other, and a node's set
\* names live sessions only (so Reset closes exactly the node's sessions).
OwnedByOneNode ==
    /\ \A k \in LiveSeids : k \in nodes[sess[k].rnode].sess
    /\ \A h \in Handles : \A k \in nodes[h].sess :
          k \in LiveSeids /\ sess[k].rnode = h

\* PfcpServer.rnodes files every node under the ID the node itself carries,
\* across associations set up again and sessions taken over: so no node is
\* registered twice.
RegisteredUnderOwnID ==
    \A id \in NodeIDs : rnodes[id] # Nil => nodes[rnodes[id]].id = id

\* the live sessions, as the abstract session table has them
Entry(k) == [seid |-> k, rseid |-> sess[k].rseid, owner |-> sess[k].rnode]
Entries  == {Entry(k) : k \in LiveSeids}

Abstract == INSTANCE SessionTable WITH
    Seids <- 1 .. MaxSlots, Owners <- Handles, table <- Entries

\* The tables implement the abstract session table: a new session gets an
\* unused SEID, a deletion ends that session only, an association set up
\* again ends the sessions of one node object and nobody else's.
ImplementsSessionTable == Abstract!Spec

\* handleSessionReportResponse, SEID 0: "no this session on remote; delete it
\* on local".  When a live session has the remote SEID and the address of the
\* response, the response deletes a session.
SeidZeroDeletesSession ==
    [][\A r \in RSeids, a \in Addrs :
         /\ ReportResponseSeidZero(r, a)
         /\ \E k \in LiveSeids : sess[k].rseid = r /\ nodes[sess[k].rnode].addr = a
         => LiveSeids' # LiveSeids]_vars
=============================================================================
