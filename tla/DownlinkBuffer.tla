--------------------------- MODULE DownlinkBuffer ---------------------------
(***************************************************************************)
(* What the userspace driver promises for the downlink packets of a UE     *)
(* address, whatever workers, snapshots, locks and channels it uses: they  *)
(* pass one at a time, in the order of their arrival, through a decision   *)
(* that forwards, drops or holds; every PDR holds its packets in a queue,  *)
(* where a packet may take the place of the oldest ones and of no other;   *)
(* and a change of rules empties queues as a whole, to send the packets in *)
(* the order of the queue or to discard them, and nothing joins a queue    *)
(* before they are sent.                                                   *)
(***************************************************************************)
EXTENDS Naturals, Sequences, SequencesExt

CONSTANT PDRs

VARIABLES
    arrived,    \* number of packets that have arrived
    pipe,       \* the packets not decided on yet
    held,       \* per PDR, the packets it holds
    releasing,  \* per PDR, the packets to be sent next
    sent,       \* the packets sent: [pkt, pdr, held]
    lost        \* the packets dropped, evicted or discarded

vars == <<arrived, pipe, held, releasing, sent, lost>>

Empty == [p \in PDRs |-> <<>>]

Init ==
    /\ arrived = 0 /\ pipe = <<>> /\ sent = <<>> /\ lost = {}
    /\ held = Empty /\ releasing = Empty

Arrive ==
    /\ arrived' = arrived + 1
    /\ pipe' = Append(pipe, arrived + 1)
    /\ UNCHANGED <<held, releasing, sent, lost>>

\* the packet that came first is decided on
Decide == pipe # <<>> /\ pipe' = Tail(pipe) /\ UNCHANGED <<arrived, releasing>>

Forward(p) ==
    /\ Decide
    /\ sent' = Append(sent, [pkt |-> Head(pipe), pdr |-> p, held |-> FALSE])
    /\ UNCHANGED <<held, lost>>

Drop ==
    /\ Decide
    /\ lost' = lost \cup {Head(pipe)}
    /\ UNCHANGED <<held, sent>>

\* the n oldest of the packets held are evicted
Hold(p) ==
    /\ releasing = Empty
    /\ Decide
    /\ LET all == Append(held[p], Head(pipe))
       IN \E n \in 0 .. Len(held[p]) :
            LET kept == SubSeq(all, n + 1, Len(all))
            IN /\ held' = [held EXCEPT ![p] = kept]
               /\ lost' = lost \cup (ToSet(all) \ ToSet(kept))
    /\ UNCHANGED sent

\* the queues of the PDRs in P are emptied
Empties(P) ==
    /\ releasing = Empty
    /\ held' = [p \in PDRs |-> IF p \in P THEN <<>> ELSE held[p]]
    /\ UNCHANGED <<arrived, pipe, sent>>

Release(P) ==
    /\ Empties(P)
    /\ releasing' = [p \in PDRs |-> IF p \in P THEN held[p] ELSE <<>>]
    /\ UNCHANGED lost

Discard(P) ==
    /\ Empties(P)
    /\ lost' = lost \cup UNION {ToSet(held[p]) : p \in P}
    /\ UNCHANGED releasing

Send(p) ==
    /\ releasing[p] # <<>>
    /\ sent' = Append(sent, [pkt |-> Head(releasing[p]), pdr |-> p,
                             held |-> TRUE])
    /\ releasing' = [releasing EXCEPT ![p] = Tail(@)]
    /\ UNCHANGED <<arrived, pipe, held, lost>>

Next ==
    \/ Arrive \/ Drop
    \/ \E p \in PDRs : Forward(p) \/ Hold(p) \/ Send(p)
    \/ \E P \in SUBSET PDRs : Release(P) \/ Discard(P)

Spec == Init /\ [][Next]_vars
=============================================================================
