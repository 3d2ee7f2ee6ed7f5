-------------------------- MODULE PfcpTransaction ---------------------------
(***************************************************************************)
(* The event loop of the PFCP server and its transactions                  *)
(* (internal/pfcp/pfcp.go, transaction.go).                                *)
(*                                                                         *)
(* Processes: the `main' goroutine, which owns both transaction maps and   *)
(* selects over three channels; the `receiver' goroutine, which feeds      *)
(* datagrams to rcvCh; the data plane, which feeds session reports to      *)
(* srCh; and one goroutine per expired timer, which posts to trToCh and    *)
(* blocks while that channel is full.  Stopping a timer does not recall a  *)
(* goroutine that has already started.                                     *)
(*                                                                         *)
(* A request handler is abstracted to whether it sends a response: the     *)
(* handlers of session.go and association.go return without one when a     *)
(* mandatory IE or the association is missing.                             *)
(***************************************************************************)
EXTENDS PfcpConfig, Sequences, FiniteSets

CONSTANTS
    Peers,        \* control-plane addresses
    PeerSeqs,     \* sequence numbers the peers use for their own requests
    MaxReqs,      \* bound: requests the server sends (txSeq never wraps at 2^32)
    WireMod,      \* sequence numbers on the wire: 2^24 in PFCP
    SrLen,        \* REPORT_CHANNEL_LEN
    RcvLen,       \* RECEIVE_CHANNEL_LEN
    ToLen         \* TRANS_TIMEOUT_CHANNEL_LEN

ASSUME TransactionConstants ==
    /\ MaxReqs \in Nat
    /\ WireMod \in Nat \ {0}
    /\ {SrLen, RcvLen, ToLen} \subseteq Nat \ {0}

VARIABLES
    txSeq,      \* PfcpServer.txSeq
    txTrans,    \* keys of PfcpServer.txTrans
    retrans,    \* retransCount of each transaction sent so far
    rxTrans,    \* keys of PfcpServer.rxTrans
    answered,   \* rx transactions whose msgBuf holds a response
    armed,      \* running timers
    firing,     \* expired timers whose goroutine has not yet posted
    trToCh,     \* channel of transaction timeouts
    rcvCh,      \* channel of received packets
    srCh,       \* channel of session reports
    phase,      \* "running"; "closing": the socket is closed, main serves;
                \* "halted": main has returned, the receiver still reads;
                \* "stopped": both have ended; "panicked"
    copies,     \* history: datagrams written for each request
    completed   \* history: calls of rspDispacher and txtoDispacher per request

maps     == <<txSeq, txTrans, retrans, rxTrans, answered>>
timers   == <<armed, firing, trToCh>>
history  == <<copies, completed>>
vars     == <<maps, timers, rcvCh, srCh, phase, history>>

-----------------------------------------------------------------------------
(* Transaction IDs are "RemoteAddr-Sequence" strings; pairs here.          *)

TxIDs == Peers \X (0 .. MaxReqs - 1)
RxIDs == Peers \X PeerSeqs

Timeouts == ({"TX"} \X TxIDs) \cup ({"RX"} \X RxIDs)

\* what a marshalled header keeps of a sequence number
WireSeq(seq) == seq % WireMod

\* a datagram: a peer's request; a peer's response to request `of', which
\* carries the sequence number it read on the wire; or the empty packet with
\* which the receiver tells main that the socket is closed, and which is also
\* what it makes of a datagram of length zero
Request(id)  == [kind |-> "req", id |-> id]
Response(id) == [kind |-> "rsp", id |-> <<id[1], WireSeq(id[2])>>, of |-> id]
Empty        == [kind |-> "empty"]

Packets == {Request(id) : id \in RxIDs} \cup {Response(id) : id \in TxIDs} \cup {Empty}

TypeOK ==
    /\ txSeq \in 0 .. MaxReqs
    /\ txTrans \in SUBSET TxIDs
    /\ retrans \in [TxIDs -> 0 .. MaxRetrans]
    /\ rxTrans \in SUBSET RxIDs
    /\ answered \in SUBSET rxTrans
    /\ armed \in SUBSET Timeouts
    /\ firing \in SUBSET Timeouts
    /\ trToCh \in Seq(Timeouts) /\ Len(trToCh) <= ToLen
    /\ rcvCh \in Seq(Packets) /\ Len(rcvCh) <= RcvLen
    /\ srCh \in Seq(Peers) /\ Len(srCh) <= SrLen
    /\ phase \in {"running", "closing", "halted", "stopped", "panicked"}
    /\ copies \in [TxIDs -> Nat]
    /\ completed \in [TxIDs -> Nat]

Queued == {trToCh[i] : i \in 1 .. Len(trToCh)}

\* main is in its select loop
Serving == phase \in {"running", "closing"}

\* main has returned and closed its channels
Returned == phase \in {"halted", "stopped"}

Init ==
    /\ txSeq = 0 /\ txTrans = {} /\ retrans = [id \in TxIDs |-> 0]
    /\ rxTrans = {} /\ answered = {}
    /\ armed = {} /\ firing = {} /\ trToCh = <<>>
    /\ rcvCh = <<>> /\ srCh = <<>> /\ phase = "running"
    /\ copies = [id \in TxIDs |-> 0] /\ completed = [id \in TxIDs |-> 0]

-----------------------------------------------------------------------------
(* The data plane and the receiver goroutine                               *)

\* NotifySessReport blocks while srCh is full and panics once main closed it
NotifySessReport(p) ==
    \/ /\ Serving
       /\ Len(srCh) < SrLen
       /\ srCh' = Append(srCh, p)
       /\ UNCHANGED <<maps, timers, rcvCh, phase, history>>
    \/ /\ Returned
       /\ phase' = "panicked"
       /\ UNCHANGED <<maps, timers, rcvCh, srCh, history>>

\* mutant: the queue has no limit
ReceiveUnbounded(m) ==
    /\ phase = "running"
    /\ Len(rcvCh) <= RcvLen
    /\ rcvCh' = Append(rcvCh, m)
    /\ UNCHANGED <<maps, timers, srCh, phase, history>>

\* the receiver's send: it blocks while rcvCh is full and panics once main,
\* sent home by an empty datagram, has closed it
Receive(m) ==
    \/ /\ phase = "running"
       /\ Len(rcvCh) < RcvLen
       /\ rcvCh' = Append(rcvCh, m)
       /\ UNCHANGED <<maps, timers, srCh, phase, history>>
    \/ /\ phase = "halted"
       /\ phase' = "panicked"
       /\ UNCHANGED <<maps, timers, rcvCh, srCh, history>>

\* a peer's request, new or repeated, arrives; a peer's response arrives,
\* which needs a copy of the request on the wire; an empty datagram arrives
ReceiveRequest(id)  == Receive(Request(id))
ReceiveResponse(id) == copies[id] > 0 /\ Receive(Response(id))
ReceiveEmpty        == Receive(Empty)

\* Stop closes the socket; receiver's read fails and it posts an empty packet
Stop ==
    \/ /\ phase = "running"
       /\ Len(rcvCh) < RcvLen
       /\ phase' = "closing"
       /\ rcvCh' = Append(rcvCh, Empty)
       /\ UNCHANGED <<maps, timers, srCh, history>>
    \/ /\ phase = "halted"
       /\ phase' = "panicked"
       /\ UNCHANGED <<maps, timers, rcvCh, srCh, history>>

-----------------------------------------------------------------------------
(* Timers                                                                  *)

\* the timer expires and its function starts in a goroutine of its own
Expire(t) ==
    /\ t \in armed
    /\ armed' = armed \ {t}
    /\ firing' = firing \cup {t}
    /\ UNCHANGED <<maps, trToCh, rcvCh, srCh, phase, history>>

\* NotifyTransTimeout: a blocking send, a panic once main closed the channel
NotifyTransTimeout(t) ==
    /\ t \in firing
    /\ \/ /\ Serving
          /\ Len(trToCh) < ToLen
          /\ firing' = firing \ {t}
          /\ trToCh' = Append(trToCh, t)
          /\ UNCHANGED <<armed, phase>>
       \/ /\ Returned
          /\ phase' = "panicked"
          /\ UNCHANGED timers
    /\ UNCHANGED <<maps, rcvCh, srCh, history>>

-----------------------------------------------------------------------------
(* The main loop, one action per event                                     *)

\* TxTransaction.send: the timer runs, the request is on the wire
TxSend(id) ==
    /\ armed' = armed \cup {<<"TX", id>>}
    /\ copies' = [copies EXCEPT ![id] = @ + 1]

\* sendReqTo, NewTxTransaction
SendReqTo(p) ==
    /\ txSeq < MaxReqs
    /\ txSeq' = txSeq + 1
    /\ txTrans' = txTrans \cup {<<p, txSeq>>}
    /\ TxSend(<<p, txSeq>>)

\* case sr := <-srCh: ServeReport sends one request
ServeReport ==
    /\ Serving
    /\ srCh # <<>>
    /\ SendReqTo(Head(srCh))
    /\ srCh' = Tail(srCh)
    /\ UNCHANGED <<retrans, rxTrans, answered, firing, trToCh, rcvCh, phase, completed>>

\* mutant: a repeated request restarts the transaction's timer
HandleRequestRestartsTimer(answers) ==
    /\ Serving
    /\ rcvCh # <<>> /\ Head(rcvCh).kind = "req"
    /\ LET id == Head(rcvCh).id IN
       /\ rxTrans' = rxTrans \cup {id}
       /\ armed' = armed \cup {<<"RX", id>>}
       /\ answered' = IF answers THEN answered \cup {id} ELSE answered
    /\ rcvCh' = Tail(rcvCh)
    /\ UNCHANGED <<txSeq, txTrans, retrans, firing, trToCh, srCh, phase, history>>

\* NewRxTransaction starts the timer
NewRxTransaction(id) ==
    /\ rxTrans' = rxTrans \cup {id}
    /\ armed' = armed \cup {<<"RX", id>>}

\* RxTransaction.send stores the response
RxSend(id) == answered' = answered \cup {id}

\* a request: dispatched when its transaction is new; otherwise the stored
\* response, if any, is written again
HandleRequest(answers) ==
    /\ Serving
    /\ rcvCh # <<>> /\ Head(rcvCh).kind = "req"
    /\ LET id == Head(rcvCh).id IN
       \/ /\ id \notin rxTrans
          /\ NewRxTransaction(id)
          /\ IF answers THEN RxSend(id) ELSE UNCHANGED answered
       \/ /\ id \in rxTrans
          /\ UNCHANGED <<rxTrans, armed, answered>>
    /\ rcvCh' = Tail(rcvCh)
    /\ UNCHANGED <<txSeq, txTrans, retrans, firing, trToCh, srCh, phase, history>>

\* TxTransaction.recv stops the timer and deletes the transaction
TxRecv(id) ==
    /\ armed' = armed \ {<<"TX", id>>}
    /\ txTrans' = txTrans \ {id}

\* a response: the request it answers is handed to rspDispacher; without a
\* transaction it is ignored
HandleResponse ==
    /\ Serving
    /\ rcvCh # <<>> /\ Head(rcvCh).kind = "rsp"
    /\ LET id == Head(rcvCh).id IN
       \/ /\ id \in txTrans
          /\ TxRecv(id)
          /\ completed' = [completed EXCEPT ![id] = @ + 1]
       \/ /\ id \notin txTrans
          /\ UNCHANGED <<armed, txTrans, completed>>
    /\ rcvCh' = Tail(rcvCh)
    /\ UNCHANGED <<txSeq, retrans, rxTrans, answered, firing, trToCh, srCh, phase, copies>>

\* mutant: off by one in the retransmission limit
TxTimeoutOnceMore(id) ==
    \/ /\ copies[id] <= MaxRetrans + 1
       /\ copies' = [copies EXCEPT ![id] = @ + 1]
       /\ armed' = armed \cup {<<"TX", id>>}
       /\ UNCHANGED <<txTrans, completed, retrans>>
    \/ /\ copies[id] > MaxRetrans + 1
       /\ txTrans' = txTrans \ {id}
       /\ completed' = [completed EXCEPT ![id] = @ + 1]
       /\ UNCHANGED <<retrans, copies, armed>>

\* mutant: the timer is not started again
TxTimeoutNoRestart(id) ==
    \/ /\ retrans[id] < MaxRetrans
       /\ retrans' = [retrans EXCEPT ![id] = @ + 1]
       /\ copies' = [copies EXCEPT ![id] = @ + 1]
       /\ UNCHANGED <<txTrans, completed, armed>>
    \/ /\ retrans[id] = MaxRetrans
       /\ txTrans' = txTrans \ {id}
       /\ completed' = [completed EXCEPT ![id] = @ + 1]
       /\ UNCHANGED <<retrans, copies, armed>>

\* TxTransaction.handleTimeout
TxTimeout(id) ==
    \/ /\ retrans[id] < MaxRetrans
       /\ retrans' = [retrans EXCEPT ![id] = @ + 1]
       /\ TxSend(id)
       /\ UNCHANGED <<txTrans, completed>>
    \/ /\ retrans[id] = MaxRetrans
       /\ txTrans' = txTrans \ {id}
       /\ completed' = [completed EXCEPT ![id] = @ + 1]
       /\ UNCHANGED <<retrans, copies, armed>>

\* mutant: a stale timeout is not recognised
HandleTxTimeoutUnchecked ==
    /\ Serving
    /\ trToCh # <<>> /\ Head(trToCh)[1] = "TX"
    /\ TxTimeout(Head(trToCh)[2])
    /\ trToCh' = Tail(trToCh)
    /\ UNCHANGED <<txSeq, rxTrans, answered, firing, rcvCh, srCh, phase>>

\* case trTo := <-trToCh: a timeout that lost the race against a response, or
\* whose transaction is gone, is ignored
HandleTxTimeout ==
    /\ Serving
    /\ trToCh # <<>> /\ Head(trToCh)[1] = "TX"
    /\ LET id == Head(trToCh)[2] IN
       \/ id \in txTrans /\ TxTimeout(id)
       \/ id \notin txTrans /\ UNCHANGED <<txTrans, retrans, armed, history>>
    /\ trToCh' = Tail(trToCh)
    /\ UNCHANGED <<txSeq, rxTrans, answered, firing, rcvCh, srCh, phase>>

\* mutant: the transaction stays in the map
HandleRxTimeoutKeeps ==
    /\ Serving
    /\ trToCh # <<>> /\ Head(trToCh)[1] = "RX"
    /\ trToCh' = Tail(trToCh)
    /\ UNCHANGED <<maps, armed, firing, rcvCh, srCh, phase, history>>

\* RxTransaction.handleTimeout
HandleRxTimeout ==
    /\ Serving
    /\ trToCh # <<>> /\ Head(trToCh)[1] = "RX"
    /\ LET id == Head(trToCh)[2] IN
       /\ rxTrans' = rxTrans \ {id}
       /\ answered' = answered \ {id}
    /\ trToCh' = Tail(trToCh)
    /\ UNCHANGED <<txSeq, txTrans, retrans, armed, firing, rcvCh, srCh, phase, history>>

StopTrTimers == armed' = {}

\* the empty packet: main returns and closes the channels
MainReturns ==
    /\ Serving
    /\ rcvCh # <<>> /\ Head(rcvCh).kind = "empty"
    /\ phase' = IF phase = "running" THEN "halted" ELSE "stopped"
    /\ StopTrTimers
    /\ rcvCh' = Tail(rcvCh)
    /\ UNCHANGED <<maps, firing, trToCh, srCh, history>>

Next ==
    \/ \E p \in Peers : NotifySessReport(p)
    \/ \E id \in RxIDs : ReceiveRequest(id)
    \/ \E id \in TxIDs : ReceiveResponse(id)
    \/ ReceiveEmpty
    \/ Stop
    \/ \E t \in Timeouts : Expire(t) \/ NotifyTransTimeout(t)
    \/ ServeReport
    \/ \E answers \in BOOLEAN : HandleRequest(answers)
    \/ HandleResponse
    \/ HandleTxTimeout
    \/ HandleRxTimeout
    \/ MainReturns

Spec == Init /\ [][Next]_vars

\* Go's timers expire; a blocked sender is served in FIFO order, so it cannot
\* be overtaken for ever; select picks among ready channels at random, so
\* main does not ignore one of them for ever.  Nothing is assumed of the
\* peers, of the data plane or of the operator who stops the server.
Fairness ==
    /\ \A t \in Timeouts : WF_vars(Expire(t)) /\ SF_vars(NotifyTransTimeout(t))
    /\ WF_vars(HandleTxTimeout)
    /\ WF_vars(HandleRxTimeout)
    /\ WF_vars(HandleResponse)
    /\ WF_vars(\E answers \in BOOLEAN : HandleRequest(answers))
    /\ WF_vars(ServeReport)

FairSpec == Spec /\ Fairness

-----------------------------------------------------------------------------
(* Properties                                                              *)

\* Every transaction in the maps has exactly one outstanding timeout: its
\* timer is running, or its goroutine is on its way, or its message is in
\* trToCh.  None is lost, so nothing stays in the maps for ever; none is
\* doubled, so no retransmission comes early.  An rx timeout never outlives
\* its transaction, so it cannot hit a later one with the same sequence number.
OneTimerPerTransaction ==
    /\ armed \cap firing = {} /\ armed \cap Queued = {} /\ firing \cap Queued = {}
    /\ \A i, j \in 1 .. Len(trToCh) : trToCh[i] = trToCh[j] => i = j
    /\ Serving =>
         /\ \A id \in txTrans : <<"TX", id>> \in armed \cup firing \cup Queued
         /\ \A id \in RxIDs :
               id \in rxTrans <=> <<"RX", id>> \in armed \cup firing \cup Queued

\* Each request the server sent is completed exactly once - by its response
\* or by giving up - whatever the order in which timeouts, late responses and
\* duplicates are processed, and it is completed iff it left txTrans.
CompletedOnce ==
    \A id \in TxIDs :
        completed[id] = IF copies[id] > 0 /\ id \notin txTrans THEN 1 ELSE 0

\* A request is written at most MaxRetrans + 1 times, also when a timeout is
\* processed after the response that ended the transaction.
RetransmissionsBounded ==
    \A id \in TxIDs : copies[id] <= MaxRetrans + 1

\* No request stays outstanding for ever: it is answered or given up, even if
\* the peer is silent and trToCh fills up.
TxCompletes == \A id \in TxIDs : id \in txTrans ~> (id \notin txTrans \/ ~Serving)

\* Every rx transaction is forgotten in the end, so its sequence number can be
\* used again by the peer.
RxForgotten == \A id \in RxIDs : id \in rxTrans ~> (id \notin rxTrans \/ ~Serving)
=============================================================================
