----------------------- MODULE PfcpTransaction_proofs -----------------------
(***************************************************************************)
(* Proofs about the transactions of the PFCP server, for any peers, any    *)
(* numbers of requests and retransmissions and any lengths of channels:    *)
(* types, one outstanding timeout per transaction, one completion per      *)
(* request, and the bound on retransmissions; and, for any timeouts and    *)
(* delays, about the lifetime of a received request (RxLifetime).          *)
(*                                                                         *)
(* None of them is inductive by itself.  A new request must not meet a     *)
(* timeout of its own ID, which takes that sequence numbers from txSeq on  *)
(* are unused (Unused); and retransCount must agree with the datagrams     *)
(* written (CopiesCounted).                                                *)
(***************************************************************************)
EXTENDS PfcpTransaction, RxLifetime, TLAPS

Elems(q)    == {q[i] : i \in 1 .. Len(q)}
Distinct(q) == \A i, j \in 1 .. Len(q) : q[i] = q[j] => i = j

\* the outstanding timeouts
Outstanding == armed \cup firing \cup Queued

\* a sequence number that is still to come has left no trace
Unused ==
    \A id \in TxIDs : id[2] >= txSeq => copies[id] = 0 /\ <<"TX", id>> \notin Outstanding

\* a request was written once, and once more for each retransmission
CopiesCounted ==
    \A id \in TxIDs :
        /\ copies[id] = 0 => retrans[id] = 0 /\ id \notin txTrans
        /\ copies[id] # 0 => copies[id] = retrans[id] + 1

IInv == TypeOK /\ OneTimerPerTransaction /\ CompletedOnce /\ Unused /\ CopiesCounted

-----------------------------------------------------------------------------
(* Channels                                                                *)

LEMMA AppendElems ==
    ASSUME NEW S, NEW q \in Seq(S), NEW x \in S
    PROVE  /\ Append(q, x) \in Seq(S) /\ Len(Append(q, x)) = Len(q) + 1
           /\ Elems(Append(q, x)) = Elems(q) \cup {x}
           /\ Distinct(q) /\ x \notin Elems(q) => Distinct(Append(q, x))
<1>1. /\ Append(q, x) \in Seq(S) /\ Len(q) \in Nat /\ Len(Append(q, x)) = Len(q) + 1
      /\ \A i \in 1 .. Len(q) : Append(q, x)[i] = q[i]
      /\ Append(q, x)[Len(q) + 1] = x
  OBVIOUS
<1>2. Elems(Append(q, x)) = Elems(q) \cup {x}
  BY <1>1 DEF Elems
<1>3. Distinct(q) /\ x \notin Elems(q) => Distinct(Append(q, x))
  BY <1>1 DEF Elems, Distinct
<1> QED BY <1>1, <1>2, <1>3

LEMMA TailElems ==
    ASSUME NEW S, NEW q \in Seq(S), q # <<>>
    PROVE  /\ Head(q) \in S /\ Tail(q) \in Seq(S) /\ Len(Tail(q)) = Len(q) - 1 /\ Len(q) \in Nat
           /\ Elems(q) = Elems(Tail(q)) \cup {Head(q)}
           /\ Distinct(q) => Distinct(Tail(q)) /\ Head(q) \notin Elems(Tail(q))
<1>1. /\ Head(q) \in S /\ Tail(q) \in Seq(S) /\ Len(Tail(q)) = Len(q) - 1
      /\ Len(q) \in Nat /\ Len(q) > 0 /\ Head(q) = q[1]
      /\ \A i \in 1 .. Len(q) - 1 : Tail(q)[i] = q[i + 1]
  OBVIOUS
<1>2. Elems(q) = Elems(Tail(q)) \cup {Head(q)}
  <2>1. ASSUME NEW i \in 1 .. Len(q) PROVE q[i] \in Elems(Tail(q)) \cup {Head(q)}
    <3>1. CASE i = 1
      BY <1>1, <3>1
    <3>2. CASE i # 1
      <4>1. i - 1 \in 1 .. Len(Tail(q)) /\ Tail(q)[i - 1] = q[i]
        BY <1>1, <3>2
      <4> QED BY <4>1 DEF Elems
    <3> QED BY <3>1, <3>2
  <2>2. ASSUME NEW i \in 1 .. Len(Tail(q)) PROVE Tail(q)[i] \in Elems(q)
    <3>1. i + 1 \in 1 .. Len(q) /\ Tail(q)[i] = q[i + 1]
      BY <1>1
    <3> QED BY <3>1 DEF Elems
  <2>3. Head(q) \in Elems(q)
    BY <1>1 DEF Elems
  <2> QED BY <2>1, <2>2, <2>3 DEF Elems
<1>3. ASSUME Distinct(q) PROVE Distinct(Tail(q)) /\ Head(q) \notin Elems(Tail(q))
  BY <1>1, <1>3 DEF Elems, Distinct
<1> QED BY <1>1, <1>2, <1>3

\* the part of OneTimerPerTransaction about places, with Elems and Distinct
LEMMA Places ==
    /\ Queued = Elems(trToCh)
    /\ OneTimerPerTransaction <=>
         /\ armed \cap firing = {} /\ armed \cap Queued = {} /\ firing \cap Queued = {}
         /\ Distinct(trToCh)
         /\ Serving =>
              /\ \A id \in txTrans : <<"TX", id>> \in Outstanding
              /\ \A id \in RxIDs : id \in rxTrans <=> <<"RX", id>> \in Outstanding
BY DEF Queued, Elems, Distinct, OneTimerPerTransaction, Outstanding

LEMMA InitInvariant == Init => IInv
<1> SUFFICES ASSUME Init PROVE IInv
  OBVIOUS
<1> USE DEF Init
<1>1. TypeOK
  BY TransactionConstants, ConfigConstants DEF TypeOK
<1>2. Queued = {}
  BY DEF Queued
<1>3. OneTimerPerTransaction
  BY <1>2 DEF OneTimerPerTransaction
<1>4. CompletedOnce /\ Unused /\ CopiesCounted
  BY <1>2 DEF CompletedOnce, Unused, CopiesCounted, Outstanding
<1> QED BY <1>1, <1>3, <1>4 DEF IInv

-----------------------------------------------------------------------------
(* Data plane, receiver and timers                                         *)

\* a step that leaves maps and timers alone
LEMMA Quiet ==
    ASSUME IInv, UNCHANGED <<maps, timers, history>>, Serving' => Serving
    PROVE  OneTimerPerTransaction' /\ CompletedOnce' /\ Unused' /\ CopiesCounted'
<1> USE DEF IInv, maps, timers, history
<1>1. Queued' = Queued /\ Outstanding' = Outstanding
  BY DEF Queued, Outstanding
<1>2. OneTimerPerTransaction'
  BY <1>1 DEF OneTimerPerTransaction, Outstanding
<1>3. CompletedOnce' /\ Unused' /\ CopiesCounted'
  BY <1>1 DEF CompletedOnce, Unused, CopiesCounted
<1> QED BY <1>2, <1>3

LEMMA NotifySessReportStep ==
    ASSUME IInv, NEW p \in Peers, NotifySessReport(p) PROVE IInv'
<1>1. UNCHANGED <<maps, timers, history>> /\ (Serving' => Serving)
  BY DEF NotifySessReport, Serving
<1>2. TypeOK'
  <2>1. srCh' \in Seq(Peers) /\ Len(srCh') <= SrLen
    <3>1. srCh \in Seq(Peers) /\ Len(srCh) <= SrLen /\ SrLen \in Nat
      BY TransactionConstants DEF IInv, TypeOK
    <3>2. CASE srCh' = srCh
      BY <3>1, <3>2
    <3>3. CASE Len(srCh) < SrLen /\ srCh' = Append(srCh, p)
      BY <3>1, <3>3, AppendElems
    <3> QED BY <3>2, <3>3 DEF NotifySessReport
  <2> QED BY <2>1 DEF NotifySessReport, Serving, IInv, TypeOK, maps, timers, history
<1> QED BY <1>1, <1>2, Quiet DEF IInv

LEMMA ReceiveStep ==
    ASSUME IInv, NEW m \in Packets, Receive(m) \/ (Stop /\ m = Empty) PROVE IInv'
<1>1. UNCHANGED <<maps, timers, srCh, history>> /\ (Serving' => Serving)
  BY DEF Receive, Stop, Serving
<1>2. TypeOK'
  <2>1. (rcvCh' = Append(rcvCh, m) /\ Len(rcvCh) < RcvLen) \/ rcvCh' = rcvCh
    BY DEF Receive, Stop
  <2>2. rcvCh' \in Seq(Packets) /\ Len(rcvCh') <= RcvLen
    <3>1. rcvCh \in Seq(Packets) /\ Len(rcvCh) <= RcvLen /\ RcvLen \in Nat
      BY TransactionConstants DEF IInv, TypeOK
    <3> QED BY <2>1, <3>1, AppendElems
  <2>3. phase' \in {"running", "closing", "panicked"}
    BY DEF Receive, Stop
  <2> QED BY <1>1, <2>2, <2>3 DEF IInv, TypeOK, maps, timers, history
<1> QED BY <1>1, <1>2, Quiet DEF IInv

\* a timeout moves on: from the timer to its goroutine
LEMMA ExpireStep ==
    ASSUME IInv, NEW t \in Timeouts, Expire(t) PROVE IInv'
<1> USE DEF IInv
<1>1. /\ t \in armed /\ armed' = armed \ {t} /\ firing' = firing \cup {t}
      /\ UNCHANGED <<maps, trToCh, rcvCh, srCh, phase, history>>
  BY DEF Expire
<1>2. Queued' = Queued /\ Outstanding' = Outstanding /\ (Serving' <=> Serving)
  BY <1>1 DEF Queued, Outstanding, Serving
<1>3. TypeOK'
  BY <1>1 DEF TypeOK, maps, history
<1>4. OneTimerPerTransaction'
  BY <1>1, <1>2 DEF OneTimerPerTransaction, Outstanding, maps
<1>5. CompletedOnce' /\ Unused' /\ CopiesCounted'
  BY <1>1, <1>2 DEF CompletedOnce, Unused, CopiesCounted, maps, history
<1> QED BY <1>3, <1>4, <1>5

\* ... and from there to trToCh
LEMMA NotifyTransTimeoutStep ==
    ASSUME IInv, NEW t \in Timeouts, NotifyTransTimeout(t) PROVE IInv'
<1>1. CASE Returned /\ phase' = "panicked" /\ UNCHANGED timers
  <2>1. UNCHANGED <<maps, timers, rcvCh, srCh, history>> /\ (Serving' => Serving)
    BY <1>1 DEF NotifyTransTimeout, Serving
  <2>2. TypeOK'
    BY <1>1, <2>1 DEF IInv, TypeOK, maps, timers, history
  <2> QED BY <2>1, <2>2, Quiet DEF IInv
<1>2. CASE /\ Serving /\ Len(trToCh) < ToLen
           /\ firing' = firing \ {t} /\ trToCh' = Append(trToCh, t)
           /\ UNCHANGED <<armed, phase>>
  <2> USE DEF IInv
  <2>1. t \in firing /\ UNCHANGED <<maps, rcvCh, srCh, history>>
    BY DEF NotifyTransTimeout
  <2>2. trToCh \in Seq(Timeouts) /\ Distinct(trToCh) /\ t \notin Elems(trToCh)
    BY <2>1, Places DEF TypeOK
  <2>3. /\ trToCh' \in Seq(Timeouts) /\ Len(trToCh') = Len(trToCh) + 1
        /\ Elems(trToCh') = Elems(trToCh) \cup {t} /\ Distinct(trToCh')
    BY <1>2, <2>2, AppendElems
  <2>4. Queued = Elems(trToCh) /\ Queued' = Elems(trToCh')
    BY DEF Queued, Elems
  <2>5. Outstanding' = Outstanding /\ (Serving' <=> Serving)
    BY <1>2, <2>1, <2>3, <2>4 DEF Outstanding, Serving
  <2>6. TypeOK'
    <3>1. Len(trToCh') <= ToLen
      BY <1>2, <2>2, <2>3, TransactionConstants
    <3> QED BY <1>2, <2>1, <2>3, <3>1 DEF TypeOK, maps, history
  <2>7. OneTimerPerTransaction'
    <3>1. /\ armed \cap firing = {} /\ armed \cap Queued = {} /\ firing \cap Queued = {}
          /\ Serving =>
              /\ \A id \in txTrans : <<"TX", id>> \in Outstanding
              /\ \A id \in RxIDs : id \in rxTrans <=> <<"RX", id>> \in Outstanding
      BY Places
    <3>2. (armed \cap firing = {} /\ armed \cap Queued = {} /\ firing \cap Queued = {})'
      BY <1>2, <2>1, <2>3, <2>4, <3>1
    <3> QED BY <2>1, <2>3, <2>5, <3>1, <3>2 DEF OneTimerPerTransaction, Distinct, Outstanding, maps
  <2>8. CompletedOnce' /\ Unused' /\ CopiesCounted'
    BY <2>1, <2>5 DEF CompletedOnce, Unused, CopiesCounted, maps, history
  <2> QED BY <2>6, <2>7, <2>8
<1> QED BY <1>1, <1>2 DEF NotifyTransTimeout

-----------------------------------------------------------------------------
(* The main loop                                                           *)

\* what main takes from rcvCh
LEMMA HeadPacket ==
    ASSUME TypeOK, rcvCh # <<>>, rcvCh' = Tail(rcvCh)
    PROVE  /\ Head(rcvCh) \in Packets
           /\ Head(rcvCh).kind = "req" => Head(rcvCh).id \in RxIDs
           /\ rcvCh' \in Seq(Packets) /\ Len(rcvCh') <= RcvLen
<1>1. Head(rcvCh) \in Packets
  BY TailElems DEF TypeOK
<1>2. PICK m \in Packets : m = Head(rcvCh)
  BY <1>1
<1>3. m.kind = "req" => m.id \in RxIDs
  BY DEF Packets, Request, Response, Empty
<1>4. rcvCh \in Seq(Packets) /\ Len(rcvCh) <= RcvLen /\ RcvLen \in Nat
  BY TransactionConstants DEF TypeOK
<1>5. rcvCh' \in Seq(Packets) /\ Len(rcvCh') <= RcvLen
  BY <1>4, TailElems
<1> QED BY <1>1, <1>2, <1>3, <1>5

\* a new request meets neither a timeout nor a count of its own ID
LEMMA ServeReportStep ==
    ASSUME IInv, ServeReport PROVE IInv'
<1> USE DEF IInv
<1>1. /\ srCh # <<>> /\ srCh' = Tail(srCh)
      /\ UNCHANGED <<retrans, rxTrans, answered, firing, trToCh, rcvCh, phase, completed>>
      /\ SendReqTo(Head(srCh)) /\ Serving
  BY DEF ServeReport
<1>2. /\ srCh \in Seq(Peers) /\ Len(srCh) <= SrLen /\ SrLen \in Nat /\ MaxReqs \in Nat
      /\ txSeq \in 0 .. MaxReqs
  BY TransactionConstants DEF TypeOK
<1>3. Head(srCh) \in Peers /\ srCh' \in Seq(Peers) /\ Len(srCh') <= SrLen
  BY <1>1, <1>2, TailElems
<1>4. PICK new : new = <<Head(srCh), txSeq>>
  OBVIOUS
<1>5. /\ txSeq < MaxReqs /\ txSeq' = txSeq + 1
      /\ txTrans' = txTrans \cup {new}
      /\ armed' = armed \cup {<<"TX", new>>}
      /\ copies' = [copies EXCEPT ![new] = @ + 1]
  BY <1>1, <1>4 DEF SendReqTo, TxSend
<1>6. new \in TxIDs /\ new[2] = txSeq
  BY <1>2, <1>3, <1>4, <1>5 DEF TxIDs
<1>7. copies[new] = 0 /\ <<"TX", new>> \notin Outstanding /\ new \notin txTrans
  BY <1>2, <1>6 DEF Unused, CopiesCounted
<1>8. Queued' = Queued /\ Outstanding' = Outstanding \cup {<<"TX", new>>} /\ (Serving' <=> Serving)
  BY <1>1, <1>5 DEF Queued, Outstanding, Serving
<1>9. TypeOK'
  <2>1. copies' \in [TxIDs -> Nat]
    BY <1>5, <1>6 DEF TypeOK
  <2>2. armed' \in SUBSET Timeouts
    BY <1>5, <1>6 DEF TypeOK, Timeouts
  <2>3. txSeq' \in 0 .. MaxReqs
    BY <1>2, <1>5
  <2> QED BY <1>1, <1>3, <1>5, <1>6, <2>1, <2>2, <2>3 DEF TypeOK
<1>10. OneTimerPerTransaction'
  <2>1. \A id : <<"RX", id>> # <<"TX", new>>
    OBVIOUS
  <2>2. (armed \cap firing = {} /\ armed \cap Queued = {} /\ firing \cap Queued = {})'
    <3>1. /\ armed' = armed \cup {<<"TX", new>>} /\ firing' = firing /\ Queued' = Queued
          /\ <<"TX", new>> \notin armed \cup firing \cup Queued
      BY <1>1, <1>5, <1>7, <1>8 DEF Outstanding
    <3>2. armed \cap firing = {} /\ armed \cap Queued = {} /\ firing \cap Queued = {}
      BY <1>1 DEF OneTimerPerTransaction
    <3> QED BY ONLY <3>1, <3>2
  <2>3. (\A i, j \in 1 .. Len(trToCh) : trToCh[i] = trToCh[j] => i = j)'
    BY <1>1 DEF OneTimerPerTransaction
  <2>4. \A id \in txTrans' : <<"TX", id>> \in Outstanding'
    BY <1>1, <1>5, <1>8 DEF OneTimerPerTransaction, Outstanding
  <2>5. \A id \in RxIDs : id \in rxTrans' <=> <<"RX", id>> \in Outstanding'
    BY <1>1, <1>8, <2>1 DEF OneTimerPerTransaction, Outstanding
  <2> QED BY <2>2, <2>3, <2>4, <2>5 DEF OneTimerPerTransaction, Outstanding
<1>11. \A id \in TxIDs : copies'[id] = IF id = new THEN 1 ELSE copies[id]
  BY <1>5, <1>6, <1>7 DEF TypeOK
<1>12. CompletedOnce'
  <2>1. ASSUME NEW id \in TxIDs
                 PROVE  (completed[id] = IF copies[id] > 0 /\ id \notin txTrans THEN 1 ELSE 0)'
    <3>1. copies[id] \in Nat /\ completed[id] = IF copies[id] > 0 /\ id \notin txTrans THEN 1 ELSE 0
      BY DEF CompletedOnce, TypeOK
    <3>2. CASE id = new
      BY <1>1, <1>5, <1>7, <3>1, <3>2
    <3>3. CASE id # new
      BY <1>1, <1>5, <1>11, <3>1, <3>3
    <3> QED BY <3>2, <3>3
  <2> QED BY <2>1 DEF CompletedOnce
<1>13. Unused'
  <2>1. ASSUME NEW id \in TxIDs, id[2] >= txSeq' PROVE copies'[id] = 0 /\ <<"TX", id>> \notin Outstanding'
    <3>1. id[2] \in Nat /\ id[2] >= txSeq /\ id # new
      BY <1>2, <1>5, <1>6, <2>1 DEF TxIDs
    <3>2. <<"TX", id>> # <<"TX", new>>
      BY <3>1
    <3>3. copies[id] = 0 /\ <<"TX", id>> \notin Outstanding
      BY <3>1 DEF Unused
    <3> QED BY <1>8, <1>11, <3>1, <3>2, <3>3
  <2> QED BY <2>1 DEF Unused
<1>14. CopiesCounted'
  <2>1. ASSUME NEW id \in TxIDs
                 PROVE  /\ copies'[id] = 0 => retrans'[id] = 0 /\ id \notin txTrans'
                        /\ copies'[id] # 0 => copies'[id] = retrans'[id] + 1
    <3>1. /\ copies[id] = 0 => retrans[id] = 0 /\ id \notin txTrans
          /\ copies[id] # 0 => copies[id] = retrans[id] + 1
      BY DEF CopiesCounted
    <3>2. retrans[new] = 0
      BY <1>6, <1>7 DEF CopiesCounted
    <3> QED BY <1>1, <1>5, <1>11, <3>1, <3>2
  <2> QED BY <2>1 DEF CopiesCounted
<1> QED BY <1>9, <1>10, <1>12, <1>13, <1>14

LEMMA HandleRequestStep ==
    ASSUME IInv, NEW answers \in BOOLEAN, HandleRequest(answers) PROVE IInv'
<1> USE DEF IInv
<1>1. /\ rcvCh # <<>> /\ Head(rcvCh).kind = "req" /\ rcvCh' = Tail(rcvCh) /\ Serving
      /\ UNCHANGED <<txSeq, txTrans, retrans, firing, trToCh, srCh, phase, history>>
  BY DEF HandleRequest
<1>2. Head(rcvCh).id \in RxIDs /\ rcvCh' \in Seq(Packets) /\ Len(rcvCh') <= RcvLen
  BY <1>1, HeadPacket
<1>3. PICK new \in RxIDs : new = Head(rcvCh).id
  BY <1>2
<1>4. CASE UNCHANGED <<rxTrans, armed, answered>>
  <2>1. UNCHANGED <<maps, timers, history>> /\ (Serving' => Serving)
    BY <1>1, <1>4 DEF maps, timers
  <2>2. TypeOK'
    BY <1>1, <1>2, <1>4 DEF TypeOK, history
  <2> QED BY <2>1, <2>2, Quiet
<1>5. CASE /\ new \notin rxTrans /\ rxTrans' = rxTrans \cup {new}
           /\ armed' = armed \cup {<<"RX", new>>}
           /\ answered' \in {answered, answered \cup {new}}
  <2>1. <<"RX", new>> \notin Outstanding
    BY <1>1, <1>5 DEF OneTimerPerTransaction, Outstanding
  <2>2. Queued' = Queued /\ Outstanding' = Outstanding \cup {<<"RX", new>>} /\ (Serving' <=> Serving)
    BY <1>1, <1>5 DEF Queued, Outstanding, Serving
  <2>3. TypeOK'
    <3>1. armed' \in SUBSET Timeouts
      BY <1>5 DEF TypeOK, Timeouts
    <3> QED BY <1>1, <1>2, <1>5, <3>1 DEF TypeOK, history
  <2>4. OneTimerPerTransaction'
    <3>1. \A id : <<"TX", id>> # <<"RX", new>> /\ (<<"RX", id>> = <<"RX", new>> => id = new)
      OBVIOUS
    <3>2. (armed \cap firing = {} /\ armed \cap Queued = {} /\ firing \cap Queued = {})'
      BY <1>1, <1>5, <2>1, <2>2 DEF OneTimerPerTransaction, Outstanding
    <3>3. (\A i, j \in 1 .. Len(trToCh) : trToCh[i] = trToCh[j] => i = j)'
      BY <1>1 DEF OneTimerPerTransaction
    <3>4. \A id \in txTrans' : <<"TX", id>> \in Outstanding'
      BY <1>1, <2>2 DEF OneTimerPerTransaction, Outstanding
    <3>5. \A id \in RxIDs : id \in rxTrans' <=> <<"RX", id>> \in Outstanding'
      BY <1>1, <1>5, <2>2, <3>1 DEF OneTimerPerTransaction, Outstanding
    <3> QED BY <3>2, <3>3, <3>4, <3>5 DEF OneTimerPerTransaction, Outstanding
  <2>5. CompletedOnce' /\ CopiesCounted'
    BY <1>1 DEF CompletedOnce, CopiesCounted, history
  <2>6. Unused'
    <3>1. \A id : <<"TX", id>> # <<"RX", new>>
      OBVIOUS
    <3> QED BY <1>1, <2>2, <3>1 DEF Unused, history
  <2> QED BY <2>3, <2>4, <2>5, <2>6
<1> QED BY <1>3, <1>4, <1>5 DEF HandleRequest, NewRxTransaction, RxSend

\* a response completes its request, or is ignored
LEMMA HandleResponseStep ==
    ASSUME IInv, HandleResponse PROVE IInv'
<1> USE DEF IInv
<1>1. /\ rcvCh # <<>> /\ rcvCh' = Tail(rcvCh) /\ Serving
      /\ UNCHANGED <<txSeq, retrans, rxTrans, answered, firing, trToCh, srCh, phase, copies>>
  BY DEF HandleResponse
<1>2. rcvCh' \in Seq(Packets) /\ Len(rcvCh') <= RcvLen
  BY <1>1, HeadPacket
<1>3. PICK id0 : id0 = Head(rcvCh).id
  OBVIOUS
<1>4. CASE UNCHANGED <<armed, txTrans, completed>>
  <2>1. UNCHANGED <<maps, timers, history>> /\ (Serving' => Serving)
    BY <1>1, <1>4 DEF maps, timers, history
  <2>2. TypeOK'
    BY <1>1, <1>2, <1>4 DEF TypeOK
  <2> QED BY <2>1, <2>2, Quiet
<1>5. CASE /\ id0 \in txTrans /\ txTrans' = txTrans \ {id0}
           /\ armed' = armed \ {<<"TX", id0>>}
           /\ completed' = [completed EXCEPT ![id0] = @ + 1]
  <2>1. id0 \in TxIDs
    BY <1>5 DEF TypeOK
  <2>2. Queued' = Queued /\ (Serving' <=> Serving)
    BY <1>1 DEF Queued, Serving
  <2>3. /\ Outstanding' \subseteq Outstanding
        /\ \A t : t \in Outstanding /\ t # <<"TX", id0>> => t \in Outstanding'
    BY <1>1, <1>5, <2>2 DEF Outstanding
  <2>4. TypeOK'
    <3>1. completed' \in [TxIDs -> Nat]
      BY <1>5, <2>1 DEF TypeOK
    <3> QED BY <1>1, <1>2, <1>5, <3>1 DEF TypeOK
  <2>5. OneTimerPerTransaction'
    <3>1. \A id : <<"RX", id>> # <<"TX", id0>> /\ (<<"TX", id>> = <<"TX", id0>> => id = id0)
      OBVIOUS
    <3>2. (armed \cap firing = {} /\ armed \cap Queued = {} /\ firing \cap Queued = {})'
      BY <1>1, <1>5, <2>2 DEF OneTimerPerTransaction
    <3>3. (\A i, j \in 1 .. Len(trToCh) : trToCh[i] = trToCh[j] => i = j)'
      BY <1>1 DEF OneTimerPerTransaction
    <3>4. \A id \in txTrans' : <<"TX", id>> \in Outstanding'
      BY <1>1, <1>5, <2>3, <3>1 DEF OneTimerPerTransaction, Outstanding
    <3>5. \A id \in RxIDs : id \in rxTrans' <=> <<"RX", id>> \in Outstanding'
      BY <1>1, <2>3, <3>1 DEF OneTimerPerTransaction, Outstanding
    <3> QED BY <3>2, <3>3, <3>4, <3>5 DEF OneTimerPerTransaction, Outstanding
  <2>6. CompletedOnce'
    <3>1. ASSUME NEW id \in TxIDs
                 PROVE  (completed[id] = IF copies[id] > 0 /\ id \notin txTrans THEN 1 ELSE 0)'
      <4>1. copies[id] \in Nat /\ completed[id] = IF copies[id] > 0 /\ id \notin txTrans THEN 1 ELSE 0
        BY DEF CompletedOnce, TypeOK
      <4>2. CASE id = id0
        <5>1. copies[id] # 0
          BY <1>5, <4>2 DEF CopiesCounted
        <5>2. completed[id] = 0 /\ completed'[id] = 1
          BY <1>5, <2>1, <4>1, <4>2 DEF TypeOK
        <5> QED BY <1>1, <1>5, <4>1, <4>2, <5>1, <5>2
      <4>3. CASE id # id0
        <5>1. completed'[id] = completed[id]
          BY <1>5, <4>3 DEF TypeOK
        <5> QED BY <1>1, <1>5, <4>1, <4>3, <5>1
      <4> QED BY <4>2, <4>3
    <3> QED BY <3>1 DEF CompletedOnce
  <2>7. Unused' /\ CopiesCounted'
    BY <1>1, <1>5, <2>3 DEF Unused, CopiesCounted
  <2> QED BY <2>4, <2>5, <2>6, <2>7
<1> QED BY <1>3, <1>4, <1>5 DEF HandleResponse, TxRecv

\* what main takes from trToCh: a timeout that is nowhere else
LEMMA HeadTimeout ==
    ASSUME IInv, trToCh # <<>>, trToCh' = Tail(trToCh)
    PROVE  /\ Head(trToCh) \in Timeouts
           /\ trToCh' \in Seq(Timeouts) /\ Len(trToCh') <= ToLen
           /\ Head(trToCh) \in Queued /\ Head(trToCh) \notin armed /\ Head(trToCh) \notin firing
           /\ Queued' = Queued \ {Head(trToCh)}
           /\ (\A i, j \in 1 .. Len(trToCh) : trToCh[i] = trToCh[j] => i = j)'
<1>1. trToCh \in Seq(Timeouts) /\ Len(trToCh) <= ToLen /\ ToLen \in Nat
  BY TransactionConstants DEF IInv, TypeOK
<1>2. Distinct(trToCh) /\ Queued = Elems(trToCh) /\ armed \cap Queued = {} /\ firing \cap Queued = {}
  BY Places DEF IInv
<1>3. /\ Head(trToCh) \in Timeouts /\ trToCh' \in Seq(Timeouts) /\ Len(trToCh') <= ToLen
      /\ Elems(trToCh) = Elems(trToCh') \cup {Head(trToCh)}
      /\ Distinct(trToCh') /\ Head(trToCh) \notin Elems(trToCh')
  BY <1>1, <1>2, TailElems
<1>4. Queued' = Elems(trToCh')
  BY DEF Queued, Elems
<1>5. (\A i, j \in 1 .. Len(trToCh) : trToCh[i] = trToCh[j] => i = j)'
  BY <1>3 DEF Distinct
<1> QED BY <1>2, <1>3, <1>4, <1>5

\* the timeout of a tx transaction is taken from trToCh and ignored, starts
\* the timer again, or ends the transaction
LEMMA HandleTxTimeoutStep ==
    ASSUME IInv, HandleTxTimeout PROVE IInv'
<1> USE DEF IInv
<1>1. /\ trToCh # <<>> /\ trToCh' = Tail(trToCh) /\ Serving /\ Head(trToCh)[1] = "TX"
      /\ UNCHANGED <<txSeq, rxTrans, answered, firing, rcvCh, srCh, phase>>
  BY DEF HandleTxTimeout
<1>2. PICK t : t = Head(trToCh)
  OBVIOUS
<1>3. /\ t \in Timeouts /\ trToCh' \in Seq(Timeouts) /\ Len(trToCh') <= ToLen
      /\ t \in Queued /\ t \notin armed /\ t \notin firing /\ Queued' = Queued \ {t}
      /\ (\A i, j \in 1 .. Len(trToCh) : trToCh[i] = trToCh[j] => i = j)'
  BY <1>1, <1>2, HeadTimeout
<1>4. PICK id0 \in TxIDs : t = <<"TX", id0>> /\ id0 = Head(trToCh)[2]
  BY <1>1, <1>2, <1>3 DEF Timeouts
<1>5. /\ \A id : <<"RX", id>> # t /\ (<<"TX", id>> = t => id = id0)
      /\ (Serving' <=> Serving)
      /\ t \in Outstanding
  BY <1>1, <1>3, <1>4 DEF Serving, Outstanding
<1>6. MaxRetrans \in Nat /\ retrans \in [TxIDs -> 0 .. MaxRetrans] /\ copies \in [TxIDs -> Nat]
  BY ConfigConstants DEF TypeOK
<1>7. ~(id0[2] >= txSeq)
  BY <1>4, <1>5 DEF Unused
<1>8. (armed \cap firing = {} /\ armed \cap Queued = {} /\ firing \cap Queued = {})
  BY DEF OneTimerPerTransaction
<1>9. CASE id0 \notin txTrans /\ UNCHANGED <<txTrans, retrans, armed, history>>
  <2>1. Outstanding' = Outstanding \ {t}
    BY <1>1, <1>3, <1>9 DEF Outstanding
  <2>2. TypeOK'
    BY <1>1, <1>3, <1>9 DEF TypeOK, history
  <2>3. OneTimerPerTransaction'
    <3>1. (armed \cap firing = {} /\ armed \cap Queued = {} /\ firing \cap Queued = {})'
      BY <1>1, <1>3, <1>8, <1>9
    <3>2. \A id \in txTrans' : <<"TX", id>> \in Outstanding'
      BY <1>1, <1>5, <1>9, <2>1 DEF OneTimerPerTransaction, Outstanding
    <3>3. \A id \in RxIDs : id \in rxTrans' <=> <<"RX", id>> \in Outstanding'
      BY <1>1, <1>5, <2>1 DEF OneTimerPerTransaction, Outstanding
    <3> QED BY <1>3, <3>1, <3>2, <3>3 DEF OneTimerPerTransaction, Outstanding
  <2>4. CompletedOnce' /\ Unused' /\ CopiesCounted'
    BY <1>1, <1>9, <2>1 DEF CompletedOnce, Unused, CopiesCounted, history
  <2> QED BY <2>2, <2>3, <2>4
<1>10. CASE /\ id0 \in txTrans /\ retrans[id0] < MaxRetrans
            /\ retrans' = [retrans EXCEPT ![id0] = @ + 1]
            /\ armed' = armed \cup {t} /\ copies' = [copies EXCEPT ![id0] = @ + 1]
            /\ UNCHANGED <<txTrans, completed>>
  <2>1. Outstanding' = Outstanding
    BY <1>1, <1>3, <1>10 DEF Outstanding
  <2>2. /\ copies' \in [TxIDs -> Nat] /\ retrans' \in [TxIDs -> 0 .. MaxRetrans]
        /\ copies'[id0] = copies[id0] + 1 /\ retrans'[id0] = retrans[id0] + 1
        /\ \A id \in TxIDs : id # id0 => copies'[id] = copies[id] /\ retrans'[id] = retrans[id]
    BY <1>6, <1>10
  <2>3. TypeOK'
    BY <1>1, <1>3, <1>10, <2>2 DEF TypeOK
  <2>4. OneTimerPerTransaction'
    <3>1. (armed \cap firing = {} /\ armed \cap Queued = {} /\ firing \cap Queued = {})'
      BY <1>1, <1>3, <1>8, <1>10
    <3>2. \A id \in txTrans' : <<"TX", id>> \in Outstanding'
      BY <1>1, <1>10, <2>1 DEF OneTimerPerTransaction, Outstanding
    <3>3. \A id \in RxIDs : id \in rxTrans' <=> <<"RX", id>> \in Outstanding'
      BY <1>1, <2>1 DEF OneTimerPerTransaction, Outstanding
    <3> QED BY <1>3, <3>1, <3>2, <3>3 DEF OneTimerPerTransaction, Outstanding
  <2>5. CompletedOnce'
    <3>1. ASSUME NEW id \in TxIDs
          PROVE  (completed[id] = IF copies[id] > 0 /\ id \notin txTrans THEN 1 ELSE 0)'
      <4>1. copies[id] \in Nat /\ completed[id] = IF copies[id] > 0 /\ id \notin txTrans THEN 1 ELSE 0
        BY DEF CompletedOnce, TypeOK
      <4> QED BY <1>10, <2>2, <4>1
    <3> QED BY <3>1 DEF CompletedOnce
  <2>6. Unused'
    BY <1>1, <1>7, <2>1, <2>2 DEF Unused
  <2>7. CopiesCounted'
    <3>1. ASSUME NEW id \in TxIDs
          PROVE  /\ copies'[id] = 0 => retrans'[id] = 0 /\ id \notin txTrans'
                 /\ copies'[id] # 0 => copies'[id] = retrans'[id] + 1
      <4>1. /\ copies[id] \in Nat /\ retrans[id] \in Nat
            /\ copies[id] = 0 => retrans[id] = 0 /\ id \notin txTrans
            /\ copies[id] # 0 => copies[id] = retrans[id] + 1
        BY <1>6 DEF CopiesCounted
      <4> QED BY <1>10, <2>2, <4>1
    <3> QED BY <3>1 DEF CopiesCounted
  <2> QED BY <2>3, <2>4, <2>5, <2>6, <2>7
<1>11. CASE /\ id0 \in txTrans /\ txTrans' = txTrans \ {id0}
            /\ completed' = [completed EXCEPT ![id0] = @ + 1]
            /\ UNCHANGED <<retrans, copies, armed>>
  <2>1. Outstanding' = Outstanding \ {t}
    BY <1>1, <1>3, <1>11 DEF Outstanding
  <2>2. TypeOK'
    <3>1. completed' \in [TxIDs -> Nat]
      BY <1>11 DEF TypeOK
    <3> QED BY <1>1, <1>3, <1>11, <3>1 DEF TypeOK
  <2>3. OneTimerPerTransaction'
    <3>1. (armed \cap firing = {} /\ armed \cap Queued = {} /\ firing \cap Queued = {})'
      BY <1>1, <1>3, <1>8, <1>11
    <3>2. \A id \in txTrans' : <<"TX", id>> \in Outstanding'
      BY <1>1, <1>5, <1>11, <2>1 DEF OneTimerPerTransaction, Outstanding
    <3>3. \A id \in RxIDs : id \in rxTrans' <=> <<"RX", id>> \in Outstanding'
      BY <1>1, <1>5, <2>1 DEF OneTimerPerTransaction, Outstanding
    <3> QED BY <1>3, <3>1, <3>2, <3>3 DEF OneTimerPerTransaction, Outstanding
  <2>4. CompletedOnce'
    <3>1. ASSUME NEW id \in TxIDs
          PROVE  (completed[id] = IF copies[id] > 0 /\ id \notin txTrans THEN 1 ELSE 0)'
      <4>1. copies[id] \in Nat /\ completed[id] = IF copies[id] > 0 /\ id \notin txTrans THEN 1 ELSE 0
        BY DEF CompletedOnce, TypeOK
      <4>2. CASE id = id0
        <5>1. copies[id] # 0
          BY <1>11, <4>2 DEF CopiesCounted
        <5>2. completed[id] = 0 /\ completed'[id] = 1
          BY <1>11, <4>1, <4>2 DEF TypeOK
        <5> QED BY <1>11, <4>1, <4>2, <5>1, <5>2
      <4>3. CASE id # id0
        <5>1. completed'[id] = completed[id]
          BY <1>11, <4>3 DEF TypeOK
        <5> QED BY <1>11, <4>1, <4>3, <5>1
      <4> QED BY <4>2, <4>3
    <3> QED BY <3>1 DEF CompletedOnce
  <2>5. Unused' /\ CopiesCounted'
    BY <1>1, <1>11, <2>1 DEF Unused, CopiesCounted
  <2> QED BY <2>2, <2>3, <2>4, <2>5
<1> QED BY <1>1, <1>4, <1>9, <1>10, <1>11 DEF HandleTxTimeout, TxTimeout, TxSend

\* an rx transaction ends with its timeout
LEMMA HandleRxTimeoutStep ==
    ASSUME IInv, HandleRxTimeout PROVE IInv'
<1> USE DEF IInv
<1>1. /\ trToCh # <<>> /\ trToCh' = Tail(trToCh) /\ Serving /\ Head(trToCh)[1] = "RX"
      /\ UNCHANGED <<txSeq, txTrans, retrans, armed, firing, rcvCh, srCh, phase, history>>
  BY DEF HandleRxTimeout
<1>2. PICK t : t = Head(trToCh)
  OBVIOUS
<1>3. /\ t \in Timeouts /\ trToCh' \in Seq(Timeouts) /\ Len(trToCh') <= ToLen
      /\ t \in Queued /\ t \notin armed /\ t \notin firing /\ Queued' = Queued \ {t}
      /\ (\A i, j \in 1 .. Len(trToCh) : trToCh[i] = trToCh[j] => i = j)'
  BY <1>1, <1>2, HeadTimeout
<1>4. PICK id0 \in RxIDs : t = <<"RX", id0>> /\ id0 = Head(trToCh)[2]
  BY <1>1, <1>2, <1>3 DEF Timeouts
<1>5. /\ \A id : <<"TX", id>> # t /\ (<<"RX", id>> = t => id = id0)
      /\ (Serving' <=> Serving)
      /\ Outstanding' = Outstanding \ {t}
  <2>1. \A id : <<"TX", id>> # t /\ (<<"RX", id>> = t => id = id0)
    BY <1>4
  <2>2. Outstanding' = Outstanding \ {t}
    BY <1>1, <1>3 DEF Outstanding
  <2> QED BY <1>1, <2>1, <2>2 DEF Serving
<1>6. rxTrans' = rxTrans \ {id0} /\ answered' = answered \ {id0}
  BY <1>4 DEF HandleRxTimeout
<1>7. TypeOK'
  BY <1>1, <1>3, <1>6 DEF TypeOK, history
<1>8. OneTimerPerTransaction'
  <2>1. (armed \cap firing = {} /\ armed \cap Queued = {} /\ firing \cap Queued = {})'
    BY <1>1, <1>3 DEF OneTimerPerTransaction
  <2>2. \A id \in txTrans' : <<"TX", id>> \in Outstanding'
    BY <1>1, <1>5 DEF OneTimerPerTransaction, Outstanding
  <2>3. \A id \in RxIDs : id \in rxTrans' <=> <<"RX", id>> \in Outstanding'
    BY <1>1, <1>4, <1>5, <1>6 DEF OneTimerPerTransaction, Outstanding
  <2> QED BY <1>3, <2>1, <2>2, <2>3 DEF OneTimerPerTransaction, Outstanding
<1>9. CompletedOnce' /\ Unused' /\ CopiesCounted'
  BY <1>1, <1>5 DEF CompletedOnce, Unused, CopiesCounted, history
<1> QED BY <1>7, <1>8, <1>9

\* main stops every timer that has not expired
LEMMA MainReturnsStep ==
    ASSUME IInv, MainReturns PROVE IInv'
<1> USE DEF IInv
<1>1. /\ rcvCh # <<>> /\ rcvCh' = Tail(rcvCh) /\ phase' \in {"halted", "stopped"} /\ armed' = {}
      /\ UNCHANGED <<maps, firing, trToCh, srCh, history>>
  BY DEF MainReturns, StopTrTimers
<1>2. rcvCh' \in Seq(Packets) /\ Len(rcvCh') <= RcvLen
  BY <1>1, HeadPacket
<1>3. ~Serving' /\ Queued' = Queued /\ Outstanding' \subseteq Outstanding
  BY <1>1 DEF Serving, Queued, Outstanding
<1>4. TypeOK'
  BY <1>1, <1>2 DEF TypeOK, maps, history
<1>5. OneTimerPerTransaction'
  BY <1>1, <1>3 DEF OneTimerPerTransaction
<1>6. CompletedOnce' /\ Unused' /\ CopiesCounted'
  BY <1>1, <1>3 DEF CompletedOnce, Unused, CopiesCounted, maps, history
<1> QED BY <1>4, <1>5, <1>6

-----------------------------------------------------------------------------
(* Theorems                                                                *)

LEMMA InvariantStep == IInv /\ [Next]_vars => IInv'
<1> SUFFICES ASSUME IInv, [Next]_vars PROVE IInv'
  OBVIOUS
<1>1. CASE UNCHANGED vars
  <2>1. UNCHANGED <<maps, timers, rcvCh, srCh, phase, history>>
    BY <1>1 DEF vars
  <2>2. TypeOK' /\ (Serving' => Serving)
    BY <2>1 DEF IInv, TypeOK, Serving, maps, timers, history
  <2> QED BY <2>1, <2>2, Quiet DEF IInv
<1>2. ASSUME NEW p \in Peers, NotifySessReport(p) PROVE IInv'
  BY <1>2, NotifySessReportStep
<1>3. ASSUME NEW id \in RxIDs, ReceiveRequest(id) PROVE IInv'
  BY <1>3, ReceiveStep DEF ReceiveRequest, Packets
<1>4. ASSUME NEW id \in TxIDs, ReceiveResponse(id) PROVE IInv'
  BY <1>4, ReceiveStep DEF ReceiveResponse, Packets
<1>5. CASE ReceiveEmpty \/ Stop
  <2>1. Empty \in Packets
    BY DEF Packets
  <2> QED BY <1>5, <2>1, ReceiveStep DEF ReceiveEmpty
<1>6. ASSUME NEW t \in Timeouts, Expire(t) PROVE IInv'
  BY <1>6, ExpireStep
<1>7. ASSUME NEW t \in Timeouts, NotifyTransTimeout(t) PROVE IInv'
  BY <1>7, NotifyTransTimeoutStep
<1>8. CASE ServeReport
  BY <1>8, ServeReportStep
<1>9. ASSUME NEW answers \in BOOLEAN, HandleRequest(answers) PROVE IInv'
  BY <1>9, HandleRequestStep
<1>10. CASE HandleResponse
  BY <1>10, HandleResponseStep
<1>11. CASE HandleTxTimeout
  BY <1>11, HandleTxTimeoutStep
<1>12. CASE HandleRxTimeout
  BY <1>12, HandleRxTimeoutStep
<1>13. CASE MainReturns
  BY <1>13, MainReturnsStep
<1> QED
  BY <1>1, <1>2, <1>3, <1>4, <1>5, <1>6, <1>7, <1>8, <1>9, <1>10, <1>11, <1>12, <1>13 DEF Next

LEMMA Invariant == Spec => []IInv
BY InitInvariant, InvariantStep, PTL DEF Spec

\* The maps, timers and channels of the PFCP server keep their types; none of
\* the three channels of main ever holds more than it was made for.
THEOREM TypeCorrect == Spec => []TypeOK
<1>1. IInv => TypeOK
  BY DEF IInv
<1> QED BY <1>1, Invariant, PTL

\* Each transaction has exactly one outstanding timeout, whether in a running
\* timer, in the goroutine of an expired one or in trToCh: recv, send and
\* handleTimeout, which run in main, never lose or double one although they
\* race the timers' goroutines.
THEOREM OneTimeoutEach == Spec => []OneTimerPerTransaction
<1>1. IInv => OneTimerPerTransaction
  BY DEF IInv
<1> QED BY <1>1, Invariant, PTL

\* Each request of the server reaches rspDispacher or txtoDispacher exactly
\* once, however timeouts, late responses and duplicates are ordered.
THEOREM RequestsCompletedOnce == Spec => []CompletedOnce
<1>1. IInv => CompletedOnce
  BY DEF IInv
<1> QED BY <1>1, Invariant, PTL

\* TxTransaction writes a request at most MaxRetrans + 1 times.
THEOREM RetransmissionLimit == Spec => []RetransmissionsBounded
<1>1. ASSUME IInv PROVE RetransmissionsBounded
  <2>1. ASSUME NEW id \in TxIDs PROVE copies[id] <= MaxRetrans + 1
    <3>1. /\ MaxRetrans \in Nat /\ retrans[id] \in 0 .. MaxRetrans
          /\ copies[id] # 0 => copies[id] = retrans[id] + 1
      BY <1>1, ConfigConstants DEF IInv, TypeOK, CopiesCounted
    <3> QED BY <3>1
  <2> QED BY <2>1 DEF RetransmissionsBounded
<1> QED BY <1>1, Invariant, PTL

-----------------------------------------------------------------------------
(* The lifetime of a received request.                                     *)
(*                                                                         *)
(* A request is handled at most once, for every timeout, retry count and   *)
(* delay with which the peer's last copy arrives before the server forgets *)
(* the request.  HandledOnce is not inductive: the proof adds where the    *)
(* copies in flight and the deadline of the transaction can lie.           *)

\* every copy in flight was sent by a retransmission the peer is allowed,
\* and is not older than MaxDelay
CopiesInWindow ==
    \A c \in inflight :
        /\ c <= now
        /\ now <= c + MaxDelay
        /\ c <= PeerRetries * PeerTimeout

\* the transaction is forgotten no earlier than RxLife after the first copy,
\* and only when its timer has expired
RememberedUntilDeadline ==
    /\ dispatched = 0 => ~rx
    /\ dispatched > 0 => RxLife <= deadline
    /\ dispatched > 0 /\ ~rx => deadline <= now

RxIInv == RxTypeOK /\ CopiesInWindow /\ RememberedUntilDeadline /\ HandledOnce

\* multiplication by a natural number is monotonic
LEMMA TimesMonotonic ==
    ASSUME NEW a \in Nat, NEW b \in Nat, NEW m \in Nat, a <= b
    PROVE  a * m \in Nat /\ a * m <= b * m
  <1>1. PICK d \in Nat : b = a + d
    <2>1. b - a \in Nat /\ b = a + (b - a)
      OBVIOUS
    <2>2. QED  BY <2>1
  <1>2. a * m \in Nat /\ d * m \in Nat
    OBVIOUS
  <1>3. b * m = a * m + d * m
    BY <1>1
  <1>4. QED  BY <1>2, <1>3

\* the lifetime of a transaction is a number of ticks
LEMMA RxLifeIsNat == RxLife \in Nat
  <1>1. RetransTimeout \in Nat /\ (MaxRetrans + 1) % 256 \in Nat
    BY LifetimeConstants, ConfigConstants
  <1>2. QED  BY <1>1 DEF RxLife

LEMMA RxInitInvariant ==
    ASSUME RxInit
    PROVE  RxIInv
  <1>1. rx \in BOOLEAN /\ ~rx
    BY Zenon DEF RxInit
  <1>2. RxTypeOK
    BY <1>1, LifetimeConstants DEF RxInit, RxTypeOK
  <1>3. CopiesInWindow /\ HandledOnce
    BY DEF RxInit, CopiesInWindow, HandledOnce
  <1>4. RememberedUntilDeadline
    BY <1>1 DEF RxInit, RememberedUntilDeadline
  <1>5. QED  BY <1>2, <1>3, <1>4 DEF RxIInv

LEMMA RxStepInvariant ==
    ASSUME PeerInTime, RxIInv, [RxNext]_rxVars
    PROVE  RxIInv'
  <1> USE LifetimeConstants, RxLifeIsNat
  <1> USE DEF RxIInv, RxTypeOK, CopiesInWindow, RememberedUntilDeadline, HandledOnce
  <1>1. CASE PeerSend
    <2>1. now <= PeerRetries * PeerTimeout
      BY <1>1, TimesMonotonic DEF PeerSend
    <2>2. QED  BY <1>1, <2>1 DEF PeerSend
  <1>2. CASE PeerAnswered
    BY <1>2 DEF PeerAnswered
  <1>3. CASE \E c \in inflight : Vanish(c)
    BY <1>3 DEF Vanish
  <1>4. CASE \E c \in inflight : RecvNew(c)
    <2>1. PICK c \in inflight : RecvNew(c)
      BY <1>4
    <2>2. now <= PeerRetries * PeerTimeout + MaxDelay
      <3>1. PeerRetries * PeerTimeout \in Nat
        OBVIOUS
      <3>2. now <= c + MaxDelay /\ c <= PeerRetries * PeerTimeout /\ c \in Nat
        OBVIOUS
      <3>3. QED  BY <3>1, <3>2
    <2>3. dispatched = 0
      <3>1. SUFFICES ASSUME dispatched > 0 PROVE FALSE
        OBVIOUS
      <3>2. RxLife <= now
        BY <2>1, <3>1 DEF RecvNew
      <3>3. QED  BY <2>2, <3>2 DEF PeerInTime
    <2>4. QED  BY <2>1, <2>3 DEF RecvNew
  <1>5. CASE \E c \in inflight : RecvAgain(c)
    BY <1>5 DEF RecvAgain
  <1>6. CASE RxTimeout
    BY <1>6 DEF RxTimeout
  <1>7. CASE Tick
    BY <1>7 DEF Tick
  <1>8. CASE UNCHANGED rxVars
    BY <1>8 DEF rxVars
  <1>9. QED
    BY <1>1, <1>2, <1>3, <1>4, <1>5, <1>6, <1>7, <1>8 DEF RxNext

\* Whatever the timeouts, as long as the peer's last copy is processed before
\* RxLife is over (PeerInTime), RxTransaction.recv lets a request through to
\* its handler at most once.
THEOREM RequestHandledOnce ==
    ASSUME PeerInTime
    PROVE  RxSpec => []HandledOnce
  <1>0. RxInit => RxIInv
    BY RxInitInvariant
  <1>1. RxIInv /\ [RxNext]_rxVars => RxIInv'
    BY RxStepInvariant
  <1>2. RxIInv => HandledOnce
    BY DEF RxIInv
  <1>3. QED
    BY <1>0, <1>1, <1>2, PTL DEF RxSpec

\* Whether or not the peer is in time, the clock, the copies and the deadline
\* stay natural numbers, and the peer sends at most PeerRetries + 1 copies
\* (RxTransaction, transaction.go).
THEOREM RxTypeCorrect == RxSpec => []RxTypeOK
  <1>1. RxInit => RxTypeOK
    BY RxInitInvariant DEF RxIInv
  <1>2. RxTypeOK /\ [RxNext]_rxVars => RxTypeOK'
    <2> SUFFICES ASSUME RxTypeOK, [RxNext]_rxVars PROVE RxTypeOK'
      OBVIOUS
    <2> USE LifetimeConstants, RxLifeIsNat DEF RxTypeOK
    <2>1. CASE PeerSend
      BY <2>1 DEF PeerSend
    <2>2. CASE PeerAnswered
      BY <2>2 DEF PeerAnswered
    <2>3. CASE \E c \in inflight : Vanish(c) \/ RecvAgain(c)
      BY <2>3 DEF Vanish, RecvAgain
    <2>4. CASE \E c \in inflight : RecvNew(c)
      <3>1. rx' = TRUE /\ deadline' = now + RxLife /\ dispatched' = dispatched + 1
            /\ UNCHANGED <<now, sends, inflight>>
        BY <2>4 DEF RecvNew
      <3>2. rx' \in BOOLEAN
        BY <3>1
      <3> QED BY <3>1, <3>2
    <2>5. CASE RxTimeout
      <3>1. rx' = FALSE /\ UNCHANGED <<now, sends, inflight, deadline, dispatched>>
        BY <2>5 DEF RxTimeout
      <3>2. rx' \in BOOLEAN
        BY <3>1
      <3> QED BY <3>1, <3>2
    <2>6. CASE Tick
      BY <2>6 DEF Tick
    <2>7. CASE UNCHANGED rxVars
      BY <2>7 DEF rxVars
    <2> QED BY <2>1, <2>2, <2>3, <2>4, <2>5, <2>6, <2>7 DEF RxNext
  <1> QED BY <1>1, <1>2, PTL DEF RxSpec
=============================================================================
