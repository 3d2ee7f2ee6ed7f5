----------------------- MODULE UserspaceDriver_proofs -----------------------
(***************************************************************************)
(* Proofs about the userspace forwarder, for any numbers of rules, workers *)
(* and packets and any rules the control plane sends: types; what URRs     *)
(* measure is reported once; no pending notification is left without a     *)
(* callback; every packet is in one place, held packets are released in    *)
(* order, and held packets the control plane is to be told of are          *)
(* announced; and all of it implements DownlinkBuffer.                     *)
(*                                                                         *)
(* The first three need little besides the types of the variables they     *)
(* speak of. The others have one invariant, PacketInv.  It rests on        *)
(* the single worker of the UE address: packets are decided on in the      *)
(* order of their arrival, so that the packets with a fate are always 1 .. *)
(* Settled, and a packet the worker adds to a buffer is younger than all   *)
(* that went before.                                                       *)
(***************************************************************************)
EXTENDS UserspaceDriver, SequenceTheorems, FiniteSetTheorems, TLAPS

\* the accounting of URRs: types and conservation
UsageInv ==
    /\ usage \in [URRs -> Nat \cup {None}]
    /\ unreported \in [URRs -> Int]
    /\ UsageConserved

\* the notification timers: types and the callback of an expired timer
PendingInv ==
    /\ pending \in [PDRs -> {None, "armed", "expired"}]
    /\ fired \in [PDRs -> Nat]
    /\ PendingHasCallback

-----------------------------------------------------------------------------
\* Of the rule operations of main, only RemoveURR touches the accounting: it
\* hands out the usage and deletes it.
LEMMA ControlKeepsUsage ==
    ASSUME UsageInv, Control PROVE UsageInv'
<1>1. ASSUME NEW u \in URRs, RemoveURR(u) PROVE UsageInv'
  <2>1. /\ usage' = [usage EXCEPT ![u] = None]
        /\ unreported' = [unreported EXCEPT ![u] = @ - Measured(u)]
    BY <1>1 DEF RemoveURR
  <2> QED
    BY <2>1, UserspaceConstants DEF UsageInv, UsageConserved, Measured
<1>2. ASSUME UNCHANGED meter PROVE UsageInv'
  BY <1>2 DEF meter, UsageInv, UsageConserved, Measured
<1>3. CASE \E u \in URRs : RemoveURR(u)
  BY <1>1, <1>3
<1>4. CASE ~ \E u \in URRs : RemoveURR(u)
  <2>1. UNCHANGED meter
    BY <1>4 DEF Control, CreatePDR, UpdatePDR, RemovePDR, CreateFAR, UpdateFAR,
       RemoveFAR, PutBAR, RemoveBAR, PutURR, PutQER, RemoveQER, meter
  <2> QED BY <2>1, <1>2
<1> QED BY <1>3, <1>4

\* A worker's steps touch it in updateUsage only.
LEMMA WorkerKeepsUsage ==
    ASSUME UsageInv, NEW w \in Workers, WorkerStep(w) PROVE UsageInv'
<1>1. ASSUME UNCHANGED <<usage, unreported>> PROVE UsageInv'
  BY <1>1 DEF UsageInv, UsageConserved, Measured
<1>2. CASE updateUsage(w)
  <2> DEFINE measuring == {x[1] : x \in work[w].b.urrs}
  <2>1. CASE UNCHANGED <<usage, unreported>>
    BY <2>1, <1>1
  <2>2. CASE /\ usage' = [u \in URRs |-> IF u \in measuring
                                         THEN Measured(u) + 1 ELSE usage[u]]
             /\ unreported' = [u \in URRs |-> unreported[u] +
                                 IF u \in measuring THEN 1 ELSE 0]
    <3> HIDE DEF measuring
    <3>1. \A u \in URRs : Measured(u) \in Nat
      BY DEF UsageInv, Measured
    <3> QED
      BY <2>2, <3>1, UserspaceConstants DEF UsageInv, UsageConserved, Measured
  <2> QED BY <1>2, <2>1, <2>2 DEF updateUsage
<1>3. CASE ~ updateUsage(w)
  <2>1. UNCHANGED <<usage, unreported>>
    BY <1>3 DEF WorkerStep, Classify, Publish, bufferPacket, PostNow,
       scheduleNotification, ReportThreshold, meter
  <2> QED BY <2>1, <1>1
<1> QED BY <1>2, <1>3

\* What a URR measures is reported once (updateUsage, emitPeriodicURRReports,
\* RemoveURR), for all interleavings of workers, the periodic loop and main.
THEOREM UsageReportedOnce == Spec => []UsageConserved
<1>1. Init => UsageInv
  BY UserspaceConstants DEF Init, UsageInv, UsageConserved, Measured
<1>2. UsageInv /\ [Next]_vars => UsageInv'
  <2> SUFFICES ASSUME UsageInv, [Next]_vars PROVE UsageInv'
    OBVIOUS
  <2>1. ASSUME UNCHANGED <<usage, unreported>> PROVE UsageInv'
    BY <2>1 DEF UsageInv, UsageConserved, Measured
  <2>2. CASE Control
    BY <2>2, ControlKeepsUsage
  <2>3. CASE \E w \in Workers : WorkerStep(w)
    BY <2>3, WorkerKeepsUsage
  <2>4. CASE emitPeriodicURRReports
    <3>1. PICK over \in SUBSET {u \in URRs : urrs[u] # None /\ usage[u] # None} :
            /\ unreported' = [u \in URRs |-> unreported[u] -
                                IF u \in over THEN usage[u] ELSE 0]
            /\ usage' = [u \in URRs |-> IF u \in over THEN 0 ELSE usage[u]]
      BY <2>4 DEF emitPeriodicURRReports, Restarted
    <3>2. \A u \in over : usage[u] \in Nat
      BY <3>1 DEF UsageInv
    <3> QED
      BY <3>1, <3>2, UserspaceConstants DEF UsageInv, UsageConserved, Measured
  <2>5. CASE \/ (\E p \in PDRs : DrainNext(p))
             \/ ServeReport \/ Arrive \/ Egress
             \/ (\E p \in PDRs : TimerExpires(p) \/ fireNotification(p))
             \/ PostFired \/ PostPeriodic \/ UNCHANGED vars
    BY <2>5, <2>1 DEF DrainNext, ServeReport, Arrive, Egress, TimerExpires,
       fireNotification, PostFired, PostPeriodic, meter, vars
  <2> QED BY <2>2, <2>3, <2>4, <2>5 DEF Next
<1>3. UsageInv => UsageConserved
  BY DEF UsageInv
<1> QED BY <1>1, <1>2, <1>3, PTL DEF Spec

-----------------------------------------------------------------------------
\* Cancelling notifications leaves the others as they are.
LEMMA CancelKeepsPending ==
    ASSUME PendingInv, NEW P, cancelPendingDDN(P), UNCHANGED fired
    PROVE  PendingInv'
BY UserspaceConstants DEF PendingInv, PendingHasCallback, cancelPendingDDN

\* Every pending notification has a timer or a callback that will take it
\* (scheduleBufferedNotification, fireBufferedNotification and
\* cancelPendingDDNLocked), however timers, cancellations and new entries
\* are interleaved.
THEOREM NotificationsHaveCallbacks == Spec => []PendingHasCallback
<1>1. Init => PendingInv
  BY UserspaceConstants DEF Init, PendingInv, PendingHasCallback
<1>2. PendingInv /\ [Next]_vars => PendingInv'
  <2> SUFFICES ASSUME PendingInv, [Next]_vars PROVE PendingInv'
    OBVIOUS
  <2>1. ASSUME UNCHANGED <<pending, fired>> PROVE PendingInv'
    BY <2>1 DEF PendingInv, PendingHasCallback
  <2>2. CASE Control
    <3>1. ASSUME NEW P, deleteSessionIfEmpty(P), UNCHANGED fired
          PROVE  PendingInv'
      <4>1. \E Q : cancelPendingDDN(Q)
        BY <3>1 DEF deleteSessionIfEmpty
      <4> QED BY <4>1, <3>1, CancelKeepsPending
    <3>2. ASSUME NEW p \in PDRs, RemovePDR(p) PROVE PendingInv'
      BY <3>1, <3>2 DEF RemovePDR
    <3>3. ASSUME NEW f \in FARs, RemoveFAR(f) PROVE PendingInv'
      BY <3>1, <3>3 DEF RemoveFAR
    <3>4. ASSUME NEW b \in BARs, RemoveBAR(b) PROVE PendingInv'
      BY <3>1, <3>4 DEF RemoveBAR
    <3>5. ASSUME NEW u \in URRs, RemoveURR(u) PROVE PendingInv'
      BY <3>1, <3>5 DEF RemoveURR
    <3>6. CASE RemoveQER
      BY <3>1, <3>6 DEF RemoveQER
    <3>7. ASSUME NEW f \in FARs, NEW r \in FARRules, UpdateFAR(f, r)
          PROVE  PendingInv'
      <4>1. \E Q : cancelPendingDDN(Q)
        BY <3>7 DEF UpdateFAR
      <4>2. UNCHANGED fired
        BY <3>7 DEF UpdateFAR
      <4> QED BY <4>1, <4>2, CancelKeepsPending
    <3>8. CASE \/ \E p \in PDRs, r \in PDRRules :
                    CreatePDR(p, r) \/ UpdatePDR(p, r)
               \/ \E f \in FARs, r \in FARRules : CreateFAR(f, r)
               \/ \E b \in BARs, r \in BARRules : PutBAR(b, r)
               \/ \E u \in URRs, r \in URRRules : PutURR(u, r)
               \/ PutQER
      BY <3>8, <2>1 DEF CreatePDR, UpdatePDR, CreateFAR, PutBAR, PutURR,
         PutQER, ddn
    <3> QED
      BY <2>2, <3>2, <3>3, <3>4, <3>5, <3>6, <3>7, <3>8 DEF Control
  <2>3. ASSUME NEW w \in Workers, scheduleNotification(w) PROVE PendingInv'
    BY <2>3, UserspaceConstants
       DEF scheduleNotification, Armed, PendingInv, PendingHasCallback
  <2>4. ASSUME NEW p \in PDRs, TimerExpires(p) PROVE PendingInv'
    BY <2>4, UserspaceConstants
       DEF TimerExpires, PendingInv, PendingHasCallback
  <2>5. ASSUME NEW p \in PDRs, fireNotification(p) PROVE PendingInv'
    BY <2>5, UserspaceConstants
       DEF fireNotification, Taken, PendingInv, PendingHasCallback
  <2>6. CASE \/ \E w \in Workers : \/ Classify(w) \/ Publish(w)
                                   \/ bufferPacket(w) \/ PostNow(w)
                                   \/ updateUsage(w) \/ ReportThreshold(w)
             \/ \E p \in PDRs : DrainNext(p)
             \/ ServeReport \/ Arrive \/ Egress \/ PostFired
             \/ emitPeriodicURRReports \/ PostPeriodic \/ UNCHANGED vars
    <3>1. UNCHANGED <<pending, fired>>
      BY <2>6 DEF Classify, Publish, bufferPacket, PostNow, updateUsage,
         ReportThreshold, DrainNext, ServeReport, Arrive, Egress, PostFired,
         emitPeriodicURRReports, PostPeriodic, ddn, vars
    <3> QED BY <3>1, <2>1
  <2> QED
    BY <2>2, <2>3, <2>4, <2>5, <2>6 DEF Next, WorkerStep
<1>3. PendingInv => PendingHasCallback
  BY DEF PendingInv
<1> QED BY <1>1, <1>2, <1>3, PTL DEF Spec

-----------------------------------------------------------------------------
(* Types.                                                                  *)

USE UserspaceConstants

\* A worker that goes on has a job, and keeps its packet and binding.
LEMMA JobType ==
    ASSUME TypeOK, NEW w \in Workers, NEW at, work[w].at # "idle",
           at \in {"publish", "buffer", "notify", "post", "count", "report"},
           Goto(w, at)
    PROVE  /\ work[w] \in Jobs
           /\ work' \in [Workers -> {Idle} \cup Jobs]
           /\ work' = [work EXCEPT ![w] = [at |-> at, pkt |-> work[w].pkt,
                                           b |-> work[w].b]]
<1>1. work[w] \in {Idle} \cup Jobs
  BY DEF TypeOK
<1>2. Idle.at = "idle"
  BY DEF Idle
<1>3. work[w] \in Jobs
  BY <1>1, <1>2
<1> DEFINE j == [at |-> at, pkt |-> work[w].pkt, b |-> work[w].b]
<1>4. j \in Jobs
  BY <1>3 DEF Jobs
<1>5. work' = [work EXCEPT ![w] = [work[w] EXCEPT !.at = at]]
  BY DEF Goto
<1>6. [work[w] EXCEPT !.at = at] = j
  BY <1>3 DEF Jobs
<1>7. work' = [work EXCEPT ![w] = j]
  BY <1>5, <1>6
<1> HIDE DEF j
<1>8. work' \in [Workers -> {Idle} \cup Jobs]
  BY <1>7, <1>4 DEF TypeOK
<1> QED BY <1>3, <1>7, <1>8 DEF j

\* What buildRuntimeSnapshot makes of a PDR is a binding, also if the rules it
\* refers to are missing.
LEMMA BindingType ==
    ASSUME TypeOK, NEW p \in PDRs, pdrs[p] # None
    PROVE  Binding(p) \in Bindings
<1> DEFINE far == IF pdrs[p].far = None THEN None ELSE fars[pdrs[p].far]
           bar == IF far = None THEN None
                  ELSE IF far.bar = None THEN None ELSE bars[far.bar]
           act == IF far = None THEN {} ELSE far.act
           lim == IF bar = None THEN [limit |-> 0, delay |-> FALSE] ELSE bar
           us  == {<<u, urrs[u]>> : u \in {v \in pdrs[p].urrs : urrs[v] # None}}
<1>1. pdrs[p] \in PDRRule
  BY DEF TypeOK
<1>2. pdrs[p].far \in FARs \cup {None} /\ pdrs[p].urrs \subseteq URRs
  BY <1>1 DEF PDRRule
<1>3. far \in FARRule \cup {None}
  BY <1>2 DEF TypeOK
<1>4. act \subseteq Flags
  BY <1>3 DEF FARRule
<1>5. far # None => far.bar \in BARs \cup {None}
  BY <1>3 DEF FARRule
<1>6. bar \in BARRule \cup {None}
  BY <1>5 DEF TypeOK
<1>7. [limit |-> 0, delay |-> FALSE] \in BARRule
  BY DEF BARRule
<1>8. lim \in BARRule
  BY <1>6, <1>7
<1>9. us \subseteq URRs \X URRRule
  <2>1. \A u \in URRs : urrs[u] # None => urrs[u] \in URRRule
    BY DEF TypeOK
  <2>2. \A u \in URRs : urrs[u] # None => <<u, urrs[u]>> \in URRs \X URRRule
    BY <2>1
  <2> QED BY <2>2, <1>2
<1>10. Binding(p) = [pdr |-> p, act |-> act, bar |-> lim, urrs |-> us]
  BY DEF Binding
<1> HIDE DEF far, bar, act, lim, us
<1> QED BY <1>4, <1>8, <1>9, <1>10 DEF Bindings

\* Cancelling notifications and deleting a session keep the types.
LEMMA CancelType ==
    ASSUME TypeOK, NEW P, cancelPendingDDN(P)
    PROVE  pending' \in [PDRs -> {None, "armed", "expired"}]
BY DEF TypeOK, cancelPendingDDN

LEMMA DeleteType ==
    ASSUME TypeOK, NEW P, deleteSessionIfEmpty(P)
    PROVE  known' \in BOOLEAN /\ pending' \in [PDRs -> {None, "armed", "expired"}]
<1>1. known' \in BOOLEAN
  BY Zenon DEF deleteSessionIfEmpty
<1>2. \E Q : cancelPendingDDN(Q)
  BY DEF deleteSessionIfEmpty
<1> QED BY <1>1, <1>2, CancelType

\* The rule operations keep the types (UpdateFAR has a lemma of its own).
LEMMA RulesType ==
    ASSUME TypeOK, Control, \A f \in FARs, r \in FARRules : ~ UpdateFAR(f, r)
    PROVE  TypeOK'
<1> USE DEF meter, ddn, intake, release, fate, TypeOK
<1>1. ASSUME NEW p \in PDRs, NEW r \in PDRRules, CreatePDR(p, r) PROVE TypeOK'
  BY <1>1 DEF CreatePDR
<1>2. ASSUME NEW p \in PDRs, NEW r \in PDRRules, UpdatePDR(p, r) PROVE TypeOK'
  <2>1. pdrs[p] \in PDRRule /\ r \in PDRRule
    BY <1>2 DEF UpdatePDR
  <2>2. mergePDRRule(pdrs[p], r) \in PDRRule
    BY <2>1 DEF mergePDRRule, PDRRule
  <2>3. pdrs' = [pdrs EXCEPT ![p] = mergePDRRule(pdrs[p], r)]
    BY <1>2 DEF UpdatePDR
  <2>4. pdrs' \in [PDRs -> PDRRule \cup {None}]
    BY <2>2, <2>3
  <2> QED BY <1>2, <2>4 DEF UpdatePDR
<1>3. ASSUME NEW p \in PDRs, RemovePDR(p) PROVE TypeOK'
  BY <1>3, DeleteType DEF RemovePDR
<1>4. ASSUME NEW f \in FARs, NEW r \in FARRules, CreateFAR(f, r) PROVE TypeOK'
  BY <1>4 DEF CreateFAR
<1>5. ASSUME NEW f \in FARs, RemoveFAR(f) PROVE TypeOK'
  BY <1>5, DeleteType DEF RemoveFAR
<1>6. ASSUME NEW b \in BARs, NEW r \in BARRules, PutBAR(b, r) PROVE TypeOK'
  BY <1>6 DEF PutBAR
<1>7. ASSUME NEW b \in BARs, RemoveBAR(b) PROVE TypeOK'
  BY <1>7, DeleteType DEF RemoveBAR
<1>8. ASSUME NEW u \in URRs, NEW r \in URRRules, PutURR(u, r) PROVE TypeOK'
  BY <1>8 DEF PutURR
<1>9. ASSUME NEW u \in URRs, RemoveURR(u) PROVE TypeOK'
  <2>1. Measured(u) \in Nat
    BY DEF Measured
  <2>2. unreported' \in [URRs -> Int]
    BY <1>9, <2>1 DEF RemoveURR
  <2> QED BY <1>9, <2>2, DeleteType DEF RemoveURR
<1>10. CASE PutQER
  BY <1>10 DEF PutQER
<1>11. CASE RemoveQER
  BY <1>11, DeleteType DEF RemoveQER
<1> QED
  BY <1>1, <1>2, <1>3, <1>4, <1>5, <1>6, <1>7, <1>8, <1>9, <1>10, <1>11
     DEF Control

LEMMA AppendType ==
    ASSUME NEW S, NEW s \in Seq(S), NEW x \in S PROVE Append(s, x) \in Seq(S)
OBVIOUS

LEMMA HeldType == ASSUME TypeOK, NEW P \in SUBSET PDRs PROVE Held(P) \subseteq Packets
<1>1. \A p \in PDRs : ToSet(buffers[p]) \subseteq Packets
  BY DEF TypeOK, ToSet
<1> QED BY <1>1 DEF Held

LEMMA UpdateFARType ==
    ASSUME TypeOK, NEW f \in FARs, NEW r \in FARRules, UpdateFAR(f, r)
    PROVE  TypeOK'
<1> DEFINE merged == mergeFARRule(fars[f], r)
           emptied == IF "BUFF" \in fars[f].act
                      THEN {p \in Users(f) : buffers[p] # <<>>} ELSE {}
<1>1. fars[f] \in FARRule /\ r \in FARRule
  BY DEF UpdateFAR, TypeOK
<1>2. merged \in FARRule
  BY <1>1 DEF mergeFARRule, FARRule
<1>3. emptied \subseteq PDRs
  BY DEF Users
<1>4. /\ fars' = [fars EXCEPT ![f] = merged]
      /\ cancelPendingDDN(emptied)
      /\ buffers' = Emptied(emptied)
      /\ owed' = owed \ Held(emptied)
      /\ \/ /\ drain' = [p \in PDRs |-> IF p \in emptied THEN buffers[p] ELSE <<>>]
            /\ gone' = gone
         \/ gone' = gone \cup Held(emptied) /\ drain' = drain
  BY DEF UpdateFAR
<1> HIDE DEF merged, emptied
<1>5. fars' \in [FARs -> FARRule \cup {None}]
  BY <1>2, <1>4 DEF TypeOK
<1>6. pending' \in [PDRs -> {None, "armed", "expired"}]
  BY <1>4, CancelType
<1>7. buffers' \in [PDRs -> Seq(Packets)]
  BY <1>4 DEF TypeOK, Emptied
<1>8. drain' \in [PDRs -> Seq(Packets)]
  <2>1. \A p \in PDRs : buffers[p] \in Seq(Packets)
    BY DEF TypeOK
  <2>2. [p \in PDRs |-> IF p \in emptied THEN buffers[p] ELSE <<>>]
          \in [PDRs -> Seq(Packets)]
    BY <2>1
  <2> QED BY <1>4, <2>2 DEF TypeOK
<1>9. gone' \subseteq Packets /\ owed' \subseteq Packets
  BY <1>3, <1>4, HeldType DEF TypeOK
<1> QED
  BY <1>5, <1>6, <1>7, <1>8, <1>9
     DEF UpdateFAR, TypeOK, meter, intake

LEMMA DrainType ==
    ASSUME TypeOK, NEW p \in PDRs, DrainNext(p) PROVE TypeOK'
<1>1. Head(drain[p]) \in Packets /\ Tail(drain[p]) \in Seq(Packets)
  BY DEF DrainNext, TypeOK
<1>2. Outcome(Head(drain[p]), p, TRUE) \in Outcomes
  BY <1>1 DEF Outcome, Outcomes
<1>3. out' \in Seq(Outcomes)
  BY <1>2, AppendType DEF DrainNext, TypeOK
<1>4. drain' \in [PDRs -> Seq(Packets)]
  BY <1>1 DEF DrainNext, TypeOK
<1>5. turn' \in PDRs \cup {None}
  BY DEF DrainNext
<1>6. egressCh' \in 0 .. EgressLen
  BY DEF DrainNext, TypeOK
<1> QED
  BY <1>3, <1>4, <1>5, <1>6
     DEF DrainNext, TypeOK, rules, ddn, meter, intake

LEMMA ClassifyType ==
    ASSUME TypeOK, NEW w \in Workers, Classify(w) PROVE TypeOK'
<1> DEFINE k == Head(queue[w])
<1>1. k \in Packets /\ Tail(queue[w]) \in Seq(Packets)
  BY DEF Classify, TypeOK
<1>2. queue' = [queue EXCEPT ![w] = Tail(queue[w])]
  BY DEF Classify
<1>3. queue' \in [Workers -> Seq(Packets)]
  BY <1>1, <1>2 DEF TypeOK
<1>4. gone' \subseteq Packets
  BY <1>1 DEF Classify, TypeOK
<1>5. work' \in [Workers -> {Idle} \cup Jobs]
  <2>1. CASE work' = work
    BY <2>1 DEF TypeOK
  <2>2. CASE work' # work
    <3>1. PICK p \in Matched(k), shut \in {FALSE, qer} :
            LET do == IF shut THEN "drop" ELSE resolveAction(Binding(p).act)
            IN work' = [work EXCEPT ![w] =
                          [at |-> IF do = "drop" THEN "count" ELSE do,
                           pkt |-> k, b |-> Binding(p)]]
      BY <2>2 DEF Classify
    <3>2. p \in PDRs /\ pdrs[p] # None
      BY <3>1 DEF Matched, Matching
    <3>3. Binding(p) \in Bindings
      BY <3>2, BindingType
    <3>4. resolveAction(Binding(p).act) \in {"drop", "buffer", "publish"}
      BY DEF resolveAction
    <3>5. PICK at \in {"count", "buffer", "publish"} :
            work' = [work EXCEPT ![w] = [at |-> at, pkt |-> k, b |-> Binding(p)]]
      BY <3>1, <3>4
    <3>6. [at |-> at, pkt |-> k, b |-> Binding(p)] \in Jobs
      BY <1>1, <3>3, <3>5 DEF Jobs
    <3> QED BY <3>5, <3>6 DEF TypeOK
  <2> QED BY <2>1, <2>2
<1> QED
  BY <1>3, <1>4, <1>5 DEF Classify, TypeOK, rules, ddn, meter, release

\* What a limit leaves of a queue are its last packets.
LEMMA NewestIsSuffix ==
    ASSUME NEW q \in Seq(Packets), NEW limit \in Nat
    PROVE  /\ Newest(q, limit) \in Seq(Packets)
           /\ \E d \in 0 .. Len(q) :
                /\ Len(Newest(q, limit)) = Len(q) - d
                /\ \A i \in 1 .. (Len(q) - d) : Newest(q, limit)[i] = q[d + i]
<1>1. CASE limit > 0 /\ Len(q) > limit
  <2> DEFINE d == Len(q) - limit
  <2>1. Newest(q, limit) = SubSeq(q, d + 1, Len(q))
    BY <1>1 DEF Newest
  <2>2. d \in 0 .. Len(q) /\ d + 1 \in 1 .. Len(q)
    BY <1>1
  <2>3. /\ SubSeq(q, d + 1, Len(q)) \in Seq(Packets)
        /\ Len(SubSeq(q, d + 1, Len(q))) = Len(q) - d
        /\ \A i \in 1 .. (Len(q) - d) : SubSeq(q, d + 1, Len(q))[i] = q[d + i]
    BY <2>2
  <2> QED BY <2>1, <2>2, <2>3
<1>2. CASE ~(limit > 0 /\ Len(q) > limit)
  <2>1. Newest(q, limit) = q
    BY <1>2 DEF Newest
  <2>2. 0 \in 0 .. Len(q) /\ Len(q) = Len(q) - 0
    OBVIOUS
  <2>3. \A i \in 1 .. (Len(q) - 0) : Newest(q, limit)[i] = q[0 + i]
    BY <2>1
  <2> QED BY <2>1, <2>2, <2>3
<1> QED BY <1>1, <1>2

LEMMA PublishType ==
    ASSUME TypeOK, NEW w \in Workers, Publish(w) PROVE TypeOK'
<1>1. work[w] \in Jobs /\ work' \in [Workers -> {Idle} \cup Jobs]
  BY JobType DEF Publish
<1>2. Outcome(work[w].pkt, work[w].b.pdr, FALSE) \in Outcomes
  BY <1>1 DEF Outcome, Outcomes, Jobs, Bindings
<1>3. out' \in Seq(Outcomes)
  BY <1>2, AppendType DEF Publish, TypeOK
<1>4. egressCh' \in 0 .. EgressLen
  BY DEF Publish, TypeOK
<1> QED
  BY <1>1, <1>3, <1>4 DEF Publish, TypeOK, rules, ddn, meter, intake, release

LEMMA bufferPacketType ==
    ASSUME TypeOK, NEW w \in Workers, bufferPacket(w) PROVE TypeOK'
<1> DEFINE b == work[w].b
           all == Append(buffers[b.pdr], work[w].pkt)
           kept == Newest(all, b.bar.limit)
           at == IF "NOCP" \notin b.act THEN "count"
                 ELSE IF b.bar.delay THEN "notify" ELSE "post"
<1>1. Goto(w, at) /\ work[w].at # "idle"
  BY DEF bufferPacket
<1>2. at \in {"publish", "buffer", "notify", "post", "count", "report"}
  OBVIOUS
<1>3. work[w] \in Jobs /\ work' \in [Workers -> {Idle} \cup Jobs]
  <2> HIDE DEF at
  <2> QED BY <1>1, <1>2, JobType
<1>4. b.pdr \in PDRs /\ b.bar.limit \in Nat /\ work[w].pkt \in Packets
  BY <1>3 DEF Jobs, Bindings, BARRule
<1>5. all \in Seq(Packets)
  <2>1. buffers[b.pdr] \in Seq(Packets)
    BY <1>4 DEF TypeOK
  <2> QED BY <2>1, <1>4, AppendType
<1> HIDE DEF all
<1>6. kept \in Seq(Packets)
  BY <1>4, <1>5, NewestIsSuffix
<1>7. ToSet(all) \subseteq Packets
  BY <1>5 DEF ToSet
<1>8. /\ buffers' = IF known THEN [buffers EXCEPT ![b.pdr] = kept] ELSE buffers
      /\ gone' = gone \cup (IF known THEN ToSet(all) \ ToSet(kept)
                                     ELSE {work[w].pkt})
      /\ owed' = (IF "NOCP" \in b.act THEN owed \cup {work[w].pkt} ELSE owed)
                   \ gone'
  BY DEF bufferPacket, all
<1> HIDE DEF kept
<1>9. buffers' \in [PDRs -> Seq(Packets)]
  BY <1>4, <1>6, <1>8 DEF TypeOK
<1>10. gone' \subseteq Packets /\ owed' \subseteq Packets
  BY <1>4, <1>7, <1>8 DEF TypeOK
<1> QED
  BY <1>3, <1>9, <1>10
     DEF bufferPacket, TypeOK, rules, ddn, meter, intake, release

LEMMA WorkerType ==
    ASSUME TypeOK, NEW w \in Workers, WorkerStep(w) PROVE TypeOK'
<1>1. CASE PostNow(w)
  <2>1. work' \in [Workers -> {Idle} \cup Jobs]
    BY <1>1, JobType DEF PostNow
  <2>2. srCh' \in 0 .. SrLen
    <3>1. srCh \in 0 .. SrLen /\ srCh < SrLen /\ srCh' = srCh + 1
      BY <1>1 DEF PostNow, TypeOK
    <3> QED BY ONLY <3>1, UserspaceConstants
  <2> QED
    BY <1>1, <2>1, <2>2
       DEF PostNow, TypeOK, rules, ddn, meter, intake, release, fate
<1>2. CASE scheduleNotification(w)
  <2>1. work[w] \in Jobs /\ work' \in [Workers -> {Idle} \cup Jobs]
    BY <1>2, JobType DEF scheduleNotification
  <2>2. pending' \in [PDRs -> {None, "armed", "expired"}]
    BY <1>2 DEF scheduleNotification, Armed, TypeOK
  <2> QED
    BY <1>2, <2>1, <2>2
       DEF scheduleNotification, TypeOK, rules, meter, intake, release, fate
<1>3. CASE updateUsage(w)
  <2>1. work[w] \in Jobs
    BY <1>3 DEF updateUsage, TypeOK, Idle
  <2>2. [work[w] EXCEPT !.at = "report"] \in Jobs
    BY <2>1 DEF Jobs
  <2>3. PICK j \in {Idle, [work[w] EXCEPT !.at = "report"]} :
          work' = [work EXCEPT ![w] = j]
    BY <1>3 DEF updateUsage
  <2>4. j \in {Idle} \cup Jobs
    BY <2>2, <2>3
  <2>5. work' \in [Workers -> {Idle} \cup Jobs]
    BY ONLY <2>3, <2>4, TypeOK, w \in Workers DEF TypeOK
  <2>6. usage' \in [URRs -> Nat \cup {None}] /\ unreported' \in [URRs -> Int]
    <3> DEFINE measuring == {x[1] : x \in work[w].b.urrs}
    <3>1. \A u \in URRs : Measured(u) \in Nat
      BY DEF TypeOK, Measured
    <3>2. CASE UNCHANGED <<usage, unreported>>
      BY <3>2 DEF TypeOK
    <3>3. CASE /\ usage' = [u \in URRs |-> IF u \in measuring
                                           THEN Measured(u) + 1 ELSE usage[u]]
               /\ unreported' = [u \in URRs |-> unreported[u] +
                                   IF u \in measuring THEN 1 ELSE 0]
      <4> HIDE DEF measuring
      <4>1. \A u \in URRs : /\ (IF u \in measuring THEN Measured(u) + 1
                                  ELSE usage[u]) \in Nat \cup {None}
                            /\ unreported[u] + (IF u \in measuring THEN 1 ELSE 0)
                                 \in Int
        <5>1. \A u \in URRs : usage[u] \in Nat \cup {None} /\ unreported[u] \in Int
          BY DEF TypeOK
        <5> QED BY ONLY <3>1, <5>1
      <4> QED BY <3>3, <4>1
    <3> QED BY <1>3, <3>2, <3>3 DEF updateUsage
  <2> QED
    BY <1>3, <2>5, <2>6
       DEF updateUsage, TypeOK, rules, ddn, intake, release, fate
<1>4. CASE ReportThreshold(w)
  <2>1. srCh' \in 0 .. SrLen
    <3>1. srCh \in 0 .. SrLen /\ srCh < SrLen /\ srCh' = srCh + 1
      BY <1>4 DEF ReportThreshold, TypeOK
    <3> QED BY ONLY <3>1, UserspaceConstants
  <2>2. work' \in [Workers -> {Idle} \cup Jobs]
    BY <1>4 DEF ReportThreshold, TypeOK
  <2> QED
    BY <1>4, <2>1, <2>2
       DEF ReportThreshold, TypeOK, rules, ddn, meter, intake, release, fate
<1> QED
  BY <1>1, <1>2, <1>3, <1>4, ClassifyType, PublishType, bufferPacketType
     DEF WorkerStep

LEMMA InitType == ASSUME Init PROVE TypeOK
<1>1. /\ [p \in PDRs |-> <<>>] \in [PDRs -> Seq(Packets)]
      /\ [w \in Workers |-> <<>>] \in [Workers -> Seq(Packets)]
      /\ <<>> \in Seq(Outcomes)
  OBVIOUS
<1>2. 0 \in 0 .. EgressLen /\ 0 \in 0 .. SrLen /\ 0 \in 0 .. MaxPkts
  OBVIOUS
<1>3. queue \in [Workers -> Seq(Packets)]
  BY <1>1 DEF Init
<1>4. /\ buffers \in [PDRs -> Seq(Packets)] /\ drain \in [PDRs -> Seq(Packets)]
      /\ out \in Seq(Outcomes)
  BY <1>1 DEF Init
<1>5. work \in [Workers -> {Idle} \cup Jobs]
  BY DEF Init
<1>6. /\ egressCh \in 0 .. EgressLen /\ srCh \in 0 .. SrLen
      /\ arrived \in 0 .. MaxPkts
  BY <1>2 DEF Init
<1>7. /\ pdrs \in [PDRs -> PDRRule \cup {None}]
      /\ fars \in [FARs -> FARRule \cup {None}]
      /\ bars \in [BARs -> BARRule \cup {None}]
      /\ urrs \in [URRs -> URRRule \cup {None}]
  BY DEF Init
<1>8. /\ usage \in [URRs -> Nat \cup {None}] /\ unreported \in [URRs -> Int]
      /\ pending \in [PDRs -> {None, "armed", "expired"}]
      /\ stray \in [PDRs -> Nat] /\ fired \in [PDRs -> Nat] /\ posting \in Nat
  BY DEF Init
<1>9. /\ known \in BOOLEAN /\ qer \in BOOLEAN /\ loop \in BOOLEAN
      /\ gone \subseteq Packets /\ owed \subseteq Packets
      /\ turn \in PDRs \cup {None}
  BY DEF Init
<1> QED BY <1>3, <1>4, <1>5, <1>6, <1>7, <1>8, <1>9 DEF TypeOK

LEMMA NextType == ASSUME TypeOK, [Next]_vars PROVE TypeOK'
<1>1. CASE Control
  BY <1>1, RulesType, UpdateFARType
<1>2. CASE \E p \in PDRs : DrainNext(p)
  BY <1>2, DrainType
<1>3. CASE \E w \in Workers : WorkerStep(w)
  BY <1>3, WorkerType
<1>4. CASE Arrive
  <2>1. /\ arrived' = arrived + 1 /\ arrived + 1 \in Packets
        /\ arrived' \in 0 .. MaxPkts
    BY <1>4 DEF Arrive, TypeOK, Packets
  <2>2. queue' \in [Workers -> Seq(Packets)]
    BY <1>4, <2>1 DEF Arrive, workerIndexFor, TypeOK
  <2> QED
    BY <1>4, <2>1, <2>2
       DEF Arrive, TypeOK, rules, ddn, meter, release, fate
<1>5. ASSUME NEW p \in PDRs, TimerExpires(p) PROVE TypeOK'
  <2>1. /\ pending' \in [PDRs -> {None, "armed", "expired"}]
        /\ stray' \in [PDRs -> Nat]
    <3>1. /\ pending \in [PDRs -> {None, "armed", "expired"}]
          /\ stray \in [PDRs -> Nat]
      BY DEF TypeOK
    <3> QED BY <1>5, <3>1 DEF TimerExpires
  <2>2. fired' \in [PDRs -> Nat]
    <3>1. fired \in [PDRs -> Nat] /\ fired' = [fired EXCEPT ![p] = @ + 1]
      BY <1>5 DEF TimerExpires, TypeOK
    <3> QED BY ONLY <3>1
  <2> QED
    BY <1>5, <2>1, <2>2
       DEF TimerExpires, TypeOK, rules, meter, intake, release, fate
<1>6. ASSUME NEW p \in PDRs, fireNotification(p) PROVE TypeOK'
  <2>1. pending' \in [PDRs -> {None, "armed", "expired"}]
    BY <1>6 DEF fireNotification, Taken, TypeOK
  <2>2. stray' \in [PDRs -> Nat] /\ fired' \in [PDRs -> Nat]
    <3>1. fired \in [PDRs -> Nat] /\ stray \in [PDRs -> Nat]
      BY DEF TypeOK
    <3>2. (IF pending[p] = "armed" THEN 1 ELSE 0) \in Nat
      OBVIOUS
    <3>3. PICK d \in Nat : stray' = [stray EXCEPT ![p] = @ + d]
      BY <1>6, <3>2 DEF fireNotification
    <3>4. fired[p] > 0 /\ fired' = [fired EXCEPT ![p] = @ - 1]
      BY <1>6 DEF fireNotification
    <3>5. stray' \in [PDRs -> Nat]
      BY ONLY <3>1, <3>3
    <3>6. fired[p] - 1 \in Nat
      BY ONLY <3>1, <3>4, p \in PDRs
    <3> QED BY ONLY <3>1, <3>4, <3>5, <3>6
  <2>3. posting' \in Nat /\ owed' \subseteq Packets
    <3>1. posting \in Nat /\ owed \subseteq Packets
      BY DEF TypeOK
    <3>2. posting' \in {posting, posting + 1} /\ owed' \subseteq owed
      BY <1>6 DEF fireNotification
    <3> QED BY <3>1, <3>2
  <2> QED
    BY <1>6, <2>1, <2>2, <2>3
       DEF fireNotification, TypeOK, rules, meter, intake, release, fate
<1>7. CASE emitPeriodicURRReports
  <2>1. PICK over \in SUBSET {u \in URRs : urrs[u] # None /\ usage[u] # None} :
          /\ unreported' = [u \in URRs |-> unreported[u] -
                              IF u \in over THEN usage[u] ELSE 0]
          /\ usage' = [u \in URRs |-> IF u \in over THEN 0 ELSE usage[u]]
    BY <1>7 DEF emitPeriodicURRReports, Restarted
  <2>2. \A u \in over : usage[u] \in Nat
    BY <2>1 DEF TypeOK
  <2>3. usage' \in [URRs -> Nat \cup {None}] /\ unreported' \in [URRs -> Int]
    BY <2>1, <2>2 DEF TypeOK
  <2> QED
    BY <1>7, <2>3
       DEF emitPeriodicURRReports, TypeOK, rules, ddn, intake, release, fate
<1>8. CASE ServeReport \/ Egress \/ PostFired \/ PostPeriodic
  <2>1. /\ egressCh' \in 0 .. EgressLen /\ srCh' \in 0 .. SrLen
        /\ posting' \in Nat /\ loop' \in BOOLEAN
    <3>1. /\ egressCh \in 0 .. EgressLen /\ srCh \in 0 .. SrLen
          /\ posting \in Nat
      BY DEF TypeOK
    <3>2. /\ egressCh' \in 0 .. EgressLen /\ srCh' \in 0 .. SrLen
          /\ posting' \in Nat
      BY <1>8, <3>1
         DEF ServeReport, Egress, PostFired, PostPeriodic, ddn
    <3>3. loop' = loop \/ loop' = FALSE
      BY <1>8 DEF ServeReport, Egress, PostFired, PostPeriodic, meter
    <3> QED BY <3>2, <3>3 DEF TypeOK
  <2> QED
    BY <1>8, <2>1 DEF ServeReport, Egress, PostFired, PostPeriodic, TypeOK,
       rules, ddn, meter, intake, release, fate
<1>9. CASE UNCHANGED vars
  BY <1>9 DEF vars, TypeOK, rules, ddn, meter, intake, release, fate
<1> QED
  BY <1>1, <1>2, <1>3, <1>4, <1>5, <1>6, <1>7, <1>8, <1>9 DEF Next

\* All variables keep their types; the channels stay within their capacities
\* (egressCh, REPORT_CHANNEL_LEN).
THEOREM TypeCorrect == Spec => []TypeOK
<1>1. Init => TypeOK
  BY InitType
<1>2. TypeOK /\ [Next]_vars => TypeOK'
  BY NextType
<1> QED BY <1>1, <1>2, PTL DEF Spec

-----------------------------------------------------------------------------
(* Packets.  All packets of the UE address go through one worker, which    *)
(* takes them in the order of their arrival: at any time the first Settled *)
(* packets have been buffered, published or dropped, the others are with   *)
(* the worker or in its queue.                                             *)

\* the number of packets that have left the queue, and that have a fate
Passed  == arrived - Len(queue[Shard])
Settled == IF Undecided THEN Passed - 1 ELSE Passed

\* only the worker of the UE address works, and its queue holds the packets
\* that arrived last
IntakeInv ==
    /\ \A w \in Workers \ {Shard} : queue[w] = <<>> /\ work[w] = Idle
    /\ Len(queue[Shard]) <= arrived
    /\ \A i \in DOMAIN queue[Shard] : queue[Shard][i] = Passed + i
    /\ Undecided => work[Shard].pkt = Passed

\* the places beyond the worker
Fates == ({"buffer", "drain"} \X PDRs) \cup ({"out", "gone"} \X {None})

\* the packets that loc, which gives each settled one its place, has at x
Where(loc, n, x) == {k \in 1 .. n : loc[k] = x}

Sent == {out[i].pkt : i \in DOMAIN out}

Placed(loc, n) ==
    /\ loc \in [1 .. n -> Fates]
    /\ \A p \in PDRs : /\ ToSet(buffers[p]) = Where(loc, n, <<"buffer", p>>)
                       /\ ToSet(drain[p]) = Where(loc, n, <<"drain", p>>)
    /\ Sent = Where(loc, n, <<"out", None>>)
    /\ gone = Where(loc, n, <<"gone", None>>)

\* each settled packet has one place there, and nothing else is there
PlaceInv ==
    /\ \E loc \in [1 .. Settled -> Fates] : Placed(loc, Settled)
    /\ \A i, j \in DOMAIN out : out[i].pkt = out[j].pkt => i = j

\* what a PDR has released comes before what it releases and what it holds
Past(p) == {i \in DOMAIN out : out[i].pdr = p /\ out[i].held}
OrderInv ==
    \A p \in PDRs :
        /\ Ascending(drain[p]) /\ Ascending(buffers[p])
        /\ drain[p] = <<>> \/ buffers[p] = <<>>
        /\ \A i, j \in Past(p) : i < j => out[i].pkt < out[j].pkt
        /\ \A i \in Past(p) :
             /\ \A j \in DOMAIN drain[p] : out[i].pkt < drain[p][j]
             /\ \A j \in DOMAIN buffers[p] : out[i].pkt < buffers[p][j]

\* only settled packets are owed, a session that is not known holds nothing
NoticeInv ==
    /\ owed \subseteq 1 .. Settled
    /\ ~known => \A p \in PDRs : buffers[p] = <<>>
    /\ HeldAreAnnounced

PacketInv == TypeOK /\ IntakeInv /\ PlaceInv /\ OrderInv /\ NoticeInv

\* A new packet gets a place; packets of one place move to another.
Extended(loc, n, x) == [k \in 1 .. (n + 1) |-> IF k = n + 1 THEN x ELSE loc[k]]

LEMMA LocExtend ==
    ASSUME NEW n \in Nat, NEW loc \in [1 .. n -> Fates], NEW x \in Fates
    PROVE  /\ Extended(loc, n, x) \in [1 .. (n + 1) -> Fates]
           /\ Where(Extended(loc, n, x), n + 1, x) = Where(loc, n, x) \cup {n + 1}
           /\ \A y : y # x => Where(Extended(loc, n, x), n + 1, y) = Where(loc, n, y)
<1> DEFINE l == Extended(loc, n, x)
<1>1. l \in [1 .. (n + 1) -> Fates]
  BY DEF Extended
<1>2. \A k \in 1 .. n : k \in 1 .. (n + 1) /\ l[k] = loc[k]
  BY DEF Extended
<1>3. n + 1 \in 1 .. (n + 1) /\ l[n + 1] = x /\ n + 1 \notin 1 .. n
  BY DEF Extended
<1>4. \A k \in 1 .. (n + 1) : k = n + 1 \/ k \in 1 .. n
  OBVIOUS
<1> HIDE DEF l
<1>5. Where(l, n + 1, x) = Where(loc, n, x) \cup {n + 1}
  BY <1>2, <1>3, <1>4 DEF Where
<1>6. \A y : y # x => Where(l, n + 1, y) = Where(loc, n, y)
  BY <1>2, <1>3, <1>4 DEF Where
<1> QED BY <1>1, <1>5, <1>6 DEF l

Moved(loc, n, x, y, S) ==
    [k \in 1 .. n |-> IF k \in S /\ loc[k] = x THEN y ELSE loc[k]]

LEMMA LocMove ==
    ASSUME NEW n \in Nat, NEW loc \in [1 .. n -> Fates],
           NEW x \in Fates, NEW y \in Fates, x # y, NEW S
    PROVE  /\ Moved(loc, n, x, y, S) \in [1 .. n -> Fates]
           /\ Where(Moved(loc, n, x, y, S), n, x) = Where(loc, n, x) \ S
           /\ Where(Moved(loc, n, x, y, S), n, y)
                = Where(loc, n, y) \cup (S \cap Where(loc, n, x))
           /\ \A z : z # x /\ z # y =>
                Where(Moved(loc, n, x, y, S), n, z) = Where(loc, n, z)
<1> DEFINE l == Moved(loc, n, x, y, S)
<1>1. l \in [1 .. n -> Fates]
  BY DEF Moved
<1>2. \A k \in 1 .. n : l[k] = IF k \in S /\ loc[k] = x THEN y ELSE loc[k]
  BY DEF Moved
<1> HIDE DEF l
<1>3. Where(l, n, x) = Where(loc, n, x) \ S
  BY <1>2 DEF Where
<1>4. Where(l, n, y) = Where(loc, n, y) \cup (S \cap Where(loc, n, x))
  BY <1>2 DEF Where
<1>5. \A z : z # x /\ z # y => Where(l, n, z) = Where(loc, n, z)
  BY <1>2 DEF Where
<1> QED BY <1>1, <1>3, <1>4, <1>5 DEF l

\* Sequences: what Append and Tail do to the elements and their order.
LEMMA AppendSet ==
    ASSUME NEW S, NEW s \in Seq(S), NEW x \in S
    PROVE  ToSet(Append(s, x)) = ToSet(s) \cup {x}
<1>1. /\ DOMAIN Append(s, x) = DOMAIN s \cup {Len(s) + 1}
      /\ \A i \in DOMAIN s : Append(s, x)[i] = s[i]
      /\ Append(s, x)[Len(s) + 1] = x
  OBVIOUS
<1> QED BY <1>1 DEF ToSet

LEMMA TailSet ==
    ASSUME NEW s \in Seq(Packets), s # <<>>, Ascending(s)
    PROVE  /\ ToSet(Tail(s)) = ToSet(s) \ {Head(s)}
           /\ Head(s) \in ToSet(s)
           /\ Ascending(Tail(s))
           /\ \A j \in DOMAIN Tail(s) : Head(s) < Tail(s)[j]
<1>1. /\ Tail(s) \in Seq(Packets) /\ Len(Tail(s)) = Len(s) - 1
      /\ \A i \in 1 .. (Len(s) - 1) : Tail(s)[i] = s[i + 1]
      /\ Head(s) = s[1] /\ 1 \in DOMAIN s /\ Len(s) \in Nat
      /\ DOMAIN Tail(s) = 1 .. (Len(s) - 1) /\ DOMAIN s = 1 .. Len(s)
  OBVIOUS
<1>2. \A i \in DOMAIN s : s[i] \in Int
  BY DEF Packets
<1>3. \A i \in DOMAIN Tail(s) : i + 1 \in DOMAIN s /\ 1 < i + 1
  BY <1>1
<1>4. \A j \in DOMAIN Tail(s) : Head(s) < Tail(s)[j]
  BY <1>1, <1>3 DEF Ascending
<1>5. \A i \in DOMAIN s : i = 1 \/ (i - 1 \in DOMAIN Tail(s) /\ Tail(s)[i - 1] = s[i])
  BY <1>1
<1>6. ToSet(Tail(s)) = ToSet(s) \ {Head(s)}
  <2>1. ASSUME NEW v \in ToSet(Tail(s)) PROVE v \in ToSet(s) \ {Head(s)}
    <3>1. PICK i \in DOMAIN Tail(s) : v = Tail(s)[i]
      BY DEF ToSet
    <3>2. v = s[i + 1] /\ i + 1 \in DOMAIN s /\ v # Head(s)
      BY <1>1, <1>2, <1>3, <1>4, <3>1
    <3> QED BY <3>2 DEF ToSet
  <2>2. ASSUME NEW v \in ToSet(s) \ {Head(s)} PROVE v \in ToSet(Tail(s))
    <3>1. PICK i \in DOMAIN s : v = s[i]
      BY DEF ToSet
    <3>2. i # 1
      BY <1>1, <3>1
    <3> QED BY <1>5, <3>1, <3>2 DEF ToSet
  <2> QED BY <2>1, <2>2
<1>7. Ascending(Tail(s))
  BY <1>1, <1>3 DEF Ascending
<1>8. Head(s) \in ToSet(s)
  BY <1>1 DEF ToSet
<1> QED BY <1>4, <1>6, <1>7, <1>8

LEMMA AppendAscending ==
    ASSUME NEW s \in Seq(Packets), NEW x \in Packets, Ascending(s),
           \A i \in DOMAIN s : s[i] < x
    PROVE  Ascending(Append(s, x))
<1>1. /\ DOMAIN s = 1 .. Len(s) /\ Len(s) \in Nat
      /\ DOMAIN Append(s, x) = 1 .. (Len(s) + 1)
      /\ \A i \in DOMAIN s : Append(s, x)[i] = s[i]
      /\ Append(s, x)[Len(s) + 1] = x
  OBVIOUS
<1>2. SUFFICES ASSUME NEW i \in 1 .. (Len(s) + 1), NEW j \in 1 .. (Len(s) + 1), i < j
               PROVE  Append(s, x)[i] < Append(s, x)[j]
  BY <1>1 DEF Ascending
<1>3. i \in DOMAIN s
  BY <1>1, <1>2
<1>4. CASE j = Len(s) + 1
  BY <1>1, <1>3, <1>4
<1>5. CASE j # Len(s) + 1
  <2>1. j \in DOMAIN s
    BY <1>1, <1>5
  <2> QED BY <1>1, <1>2, <1>3, <2>1 DEF Ascending
<1> QED BY <1>4, <1>5

LEMMA NewestAscending ==
    ASSUME NEW s \in Seq(Packets), NEW limit \in Nat, Ascending(s)
    PROVE  /\ Ascending(Newest(s, limit))
           /\ ToSet(Newest(s, limit)) \subseteq ToSet(s)
<1> DEFINE t == Newest(s, limit)
<1>1. PICK d \in 0 .. Len(s) : /\ Len(t) = Len(s) - d
                                /\ \A i \in 1 .. (Len(s) - d) : t[i] = s[d + i]
  BY ONLY NewestIsSuffix, s \in Seq(Packets), limit \in Nat
<1>2. t \in Seq(Packets)
  BY NewestIsSuffix
<1> HIDE DEF t
<1>3. DOMAIN t = 1 .. (Len(s) - d) /\ DOMAIN s = 1 .. Len(s) /\ Len(s) \in Nat
  BY <1>1, <1>2
<1>4. \A i \in DOMAIN t : d + i \in DOMAIN s /\ t[i] = s[d + i]
  BY <1>1, <1>3
<1>5. Ascending(t)
  BY <1>3, <1>4 DEF Ascending
<1>6. ToSet(t) \subseteq ToSet(s)
  BY <1>4 DEF ToSet
<1> QED BY <1>5, <1>6 DEF t

-----------------------------------------------------------------------------
\* The bounds of the intake.
LEMMA Counted ==
    ASSUME TypeOK, IntakeInv
    PROVE  /\ Passed \in Nat /\ Passed <= arrived /\ arrived \in Nat
           /\ arrived <= MaxPkts
           /\ Settled \in Nat /\ Settled <= Passed
           /\ Undecided => Passed = Settled + 1 /\ work[Shard].pkt = Settled + 1
           /\ ~ Undecided => Passed = Settled
<1>1. Len(queue[Shard]) \in Nat /\ arrived \in Nat /\ arrived <= MaxPkts
  BY DEF TypeOK
<1>2. Passed \in Nat /\ Passed <= arrived
  BY <1>1 DEF Passed, IntakeInv
<1>3. Undecided => work[Shard].pkt \in Packets
  BY DEF Undecided, TypeOK, Idle, Jobs
<1>4. Undecided => Passed >= 1
  BY <1>3 DEF IntakeInv, Packets
<1> QED BY <1>1, <1>2, <1>4 DEF Settled, IntakeInv

\* A worker with a packet is the one of the UE address.
LEMMA OneWorker ==
    ASSUME IntakeInv, NEW w \in Workers, work[w].at # "idle" PROVE w = Shard
BY DEF IntakeInv, Idle

\* A step that leaves the packets where they are.
LEMMA StillPlaced ==
    ASSUME PacketInv, UNCHANGED <<buffers, drain, out, gone>>, Settled' = Settled
    PROVE  PlaceInv' /\ OrderInv'
<1>1. Sent' = Sent
  BY DEF Sent
<1>2. PICK n : n = Settled
  OBVIOUS
<1>3. PICK loc \in [1 .. n -> Fates] : Placed(loc, n)
  BY <1>2 DEF PacketInv, PlaceInv
<1>4. Placed(loc, n)'
  BY <1>1, <1>3 DEF Placed
<1>5. PlaceInv'
  BY <1>2, <1>4 DEF PacketInv, PlaceInv, Placed
<1>6. \A p \in PDRs : Past(p)' = Past(p)
  BY DEF Past
<1>7. OrderInv'
  BY <1>6 DEF PacketInv, OrderInv, Ascending
<1> QED BY <1>5, <1>7

LEMMA StillCounted ==
    ASSUME PacketInv, UNCHANGED <<queue, work, arrived>>
    PROVE  IntakeInv' /\ Settled' = Settled
BY DEF PacketInv, IntakeInv, Settled, Passed, Undecided

\* A worker that has decided on its packet goes on with it, or is done.
LEMMA DecidedStep ==
    ASSUME PacketInv, NEW w \in Workers, NEW j,
           UNCHANGED <<queue, arrived>>, work[w].at # "idle",
           work[w].at \notin {"publish", "buffer"},
           work' = [work EXCEPT ![w] = j], j.at \notin {"publish", "buffer"}
    PROVE  IntakeInv' /\ Settled' = Settled
<1>1. w = Shard
  BY OneWorker DEF PacketInv
<1>2. /\ work'[Shard] = j
      /\ \A v \in Workers \ {Shard} : work'[v] = work[v]
  BY <1>1 DEF PacketInv, TypeOK
<1>3. ~ Undecided /\ ~ Undecided'
  BY <1>1, <1>2 DEF Undecided
<1>4. Passed' = Passed
  BY DEF Passed
<1>5. Settled' = Settled
  BY <1>3, <1>4 DEF Settled
<1> QED BY <1>2, <1>3, <1>4, <1>5 DEF PacketInv, IntakeInv

LEMMA ArriveStep ==
    ASSUME PacketInv, Arrive PROVE IntakeInv' /\ Settled' = Settled
<1> DEFINE q == queue[Shard]
<1>1. q \in Seq(Packets) /\ arrived \in Nat /\ arrived + 1 \in Packets
  BY DEF PacketInv, TypeOK, Packets, Arrive
<1>2. /\ queue' = [queue EXCEPT ![Shard] = Append(q, arrived + 1)]
      /\ arrived' = arrived + 1 /\ work' = work
  BY DEF Arrive, workerIndexFor
<1>3. /\ queue'[Shard] = Append(q, arrived + 1)
      /\ \A w \in Workers \ {Shard} : queue'[w] = queue[w]
  BY <1>2 DEF PacketInv, TypeOK
<1>4. /\ Len(Append(q, arrived + 1)) = Len(q) + 1 /\ Len(q) \in Nat
      /\ DOMAIN Append(q, arrived + 1) = 1 .. (Len(q) + 1)
      /\ DOMAIN q = 1 .. Len(q)
      /\ \A i \in 1 .. Len(q) : Append(q, arrived + 1)[i] = q[i]
      /\ Append(q, arrived + 1)[Len(q) + 1] = arrived + 1
  BY <1>1
<1>5. Passed' = Passed /\ Passed = arrived - Len(q)
  <2>1. Passed' = arrived' - Len(queue'[Shard]) /\ Passed = arrived - Len(q)
    BY DEF Passed
  <2> HIDE DEF q
  <2>2. Len(queue'[Shard]) = Len(q) + 1
    BY <1>3, <1>4
  <2> QED BY ONLY <2>1, <2>2, <1>1, <1>2, <1>4
<1>6. Undecided' = Undecided /\ Settled' = Settled
  BY <1>2, <1>5 DEF Undecided, Settled
<1>7. Len(q) <= arrived /\ \A i \in DOMAIN q : q[i] = Passed + i
  BY DEF PacketInv, IntakeInv
<1>8. ASSUME NEW i \in DOMAIN queue'[Shard] PROVE queue'[Shard][i] = Passed' + i
  <2>1. i \in 1 .. (Len(q) + 1) /\ queue'[Shard][i] = Append(q, arrived + 1)[i]
    BY <1>3, <1>4, <1>8
  <2>2. CASE i \in 1 .. Len(q)
    BY <1>4, <1>5, <1>7, <2>1, <2>2
  <2>3. CASE i = Len(q) + 1
    <3>1. queue'[Shard][i] = arrived + 1
      BY <1>4, <2>1, <2>3
    <3>2. Passed' + i = arrived + 1
      BY ONLY <1>4, <1>5, <2>3, <1>1
    <3> QED BY <3>1, <3>2
  <2> QED BY ONLY <1>4, <2>1, <2>2, <2>3
<1>9. Len(queue'[Shard]) <= arrived'
  BY <1>1, <1>2, <1>3, <1>4, <1>7
<1> QED
  BY <1>2, <1>3, <1>5, <1>6, <1>8, <1>9 DEF PacketInv, IntakeInv

\* A settled packet is added to the dropped ones.
LEMMA DropStep ==
    ASSUME PacketInv, UNCHANGED <<buffers, drain, out>>,
           gone' = gone \cup {Settled + 1}, Settled' = Settled + 1
    PROVE  PlaceInv' /\ OrderInv'
<1>1. Sent' = Sent
  BY DEF Sent
<1>2. PICK n \in Nat : n = Settled
  BY Counted DEF PacketInv
<1>3. PICK loc \in [1 .. n -> Fates] : Placed(loc, n)
  BY <1>2 DEF PacketInv, PlaceInv
<1>4. <<"gone", None>> \in Fates
  BY DEF Fates
<1>5. PICK l \in [1 .. (n + 1) -> Fates] :
         /\ Where(l, n + 1, <<"gone", None>>)
              = Where(loc, n, <<"gone", None>>) \cup {n + 1}
         /\ \A y : y # <<"gone", None>> => Where(l, n + 1, y) = Where(loc, n, y)
  <2>1. PICK x \in Fates : x = <<"gone", None>>
    BY <1>4
  <2>2. \E l \in [1 .. (n + 1) -> Fates] :
           /\ Where(l, n + 1, x) = Where(loc, n, x) \cup {n + 1}
           /\ \A y : y # x => Where(l, n + 1, y) = Where(loc, n, y)
    <3> n \in Nat /\ loc \in [1 .. n -> Fates] /\ x \in Fates
      BY <1>2, <1>3, <2>1
    <3>1. /\ Extended(loc, n, x) \in [1 .. (n + 1) -> Fates]
          /\ Where(Extended(loc, n, x), n + 1, x) = Where(loc, n, x) \cup {n + 1}
          /\ \A y : y # x => Where(Extended(loc, n, x), n + 1, y) = Where(loc, n, y)
      BY ONLY LocExtend, n \in Nat, loc \in [1 .. n -> Fates], x \in Fates
    <3> QED BY ONLY <3>1, Zenon
  <2> QED BY <2>1, <2>2, Zenon
<1>6. Placed(l, n + 1)'
  <2>1. /\ \A p \in PDRs : /\ <<"buffer", p>> # <<"gone", None>>
                           /\ <<"drain", p>> # <<"gone", None>>
        /\ <<"out", None>> # <<"gone", None>>
    OBVIOUS
  <2>2. gone' = gone \cup {n + 1}
    BY <1>2
  <2> QED BY <1>1, <1>3, <1>5, <2>1, <2>2 DEF Placed
<1>7. PlaceInv'
  BY <1>2, <1>6 DEF PacketInv, PlaceInv, Placed
<1>8. \A p \in PDRs : Past(p)' = Past(p)
  BY DEF Past
<1>9. OrderInv'
  BY <1>8 DEF PacketInv, OrderInv, Ascending
<1> QED BY <1>7, <1>9

LEMMA ClassifyStep ==
    ASSUME PacketInv, NEW w \in Workers, Classify(w)
    PROVE  /\ IntakeInv' /\ PlaceInv' /\ OrderInv'
           /\ Settled' \in {Settled, Settled + 1}
<1> DEFINE q == queue[Shard]
           k == Head(q)
<1>1. w = Shard /\ q # <<>> /\ work[Shard] = Idle
  BY DEF Classify, PacketInv, IntakeInv
<1>2. /\ q \in Seq(Packets) /\ Len(q) \in Nat /\ Len(q) > 0
      /\ DOMAIN q = 1 .. Len(q) /\ k = q[1] /\ 1 \in DOMAIN q
  BY <1>1 DEF PacketInv, TypeOK
<1>3. /\ Len(Tail(q)) = Len(q) - 1
      /\ DOMAIN Tail(q) = 1 .. (Len(q) - 1)
      /\ \A i \in 1 .. (Len(q) - 1) : Tail(q)[i] = q[i + 1] /\ i + 1 \in DOMAIN q
  BY <1>2
<1>4. ~ Undecided /\ Passed \in Nat /\ Settled = Passed /\ arrived \in Nat
  BY <1>1, Counted DEF Undecided, Idle, PacketInv
<1>5. /\ queue' = [queue EXCEPT ![Shard] = Tail(q)] /\ arrived' = arrived
      /\ UNCHANGED <<buffers, drain, out>>
  BY <1>1 DEF Classify, release
<1>6. /\ queue'[Shard] = Tail(q)
      /\ \A v \in Workers \ {Shard} : queue'[v] = queue[v]
  BY <1>5 DEF PacketInv, TypeOK
<1>7. /\ Passed = arrived - Len(q) /\ Len(q) <= arrived
      /\ \A i \in DOMAIN q : q[i] = Passed + i
  BY DEF Passed, PacketInv, IntakeInv
<1> HIDE DEF q
<1>8. k = Passed + 1
  BY <1>2, <1>7
<1>9. Passed' = Passed + 1
  <2>1. Passed' = arrived' - Len(queue'[Shard])
    BY DEF Passed
  <2>2. Len(queue'[Shard]) = Len(q) - 1
    BY ONLY <1>3, <1>6
  <2>3. PICK m \in Nat : m = Len(q)
    BY ONLY <1>2
  <2>4. PICK a \in Nat : a = arrived
    BY ONLY <1>4
  <2>5. Passed' = a - (m - 1)
    BY ONLY <2>1, <2>2, <2>3, <2>4, <1>5
  <2>6. Passed = a - m
    BY ONLY <2>3, <2>4, <1>7
  <2> QED BY ONLY <2>3, <2>4, <2>5, <2>6
<1>10. \A i \in DOMAIN queue'[Shard] : queue'[Shard][i] = Passed' + i
  <2>1. ASSUME NEW i \in 1 .. (Len(q) - 1) PROVE Tail(q)[i] = Passed' + i
    <3>1. Tail(q)[i] = q[i + 1] /\ i + 1 \in DOMAIN q
      BY ONLY <2>1, <1>3
    <3>2. q[i + 1] = Passed + (i + 1)
      BY ONLY <3>1, <1>7
    <3>3. i \in Int
      BY ONLY <2>1, <1>2
    <3> QED BY ONLY <3>1, <3>2, <3>3, <1>4, <1>9
  <2>2. DOMAIN queue'[Shard] = 1 .. (Len(q) - 1) /\ queue'[Shard] = Tail(q)
    BY ONLY <1>3, <1>6
  <2> HIDE DEF k
  <2> QED BY ONLY <2>1, <2>2
<1>11. Len(queue'[Shard]) <= arrived'
  BY <1>2, <1>3, <1>4, <1>5, <1>6, <1>7
<1> HIDE DEF k
<1>12. \/ work' = work /\ gone' = gone \cup {k}
       \/ \E b : /\ work' = [work EXCEPT ![Shard] =
                               [at |-> "count", pkt |-> k, b |-> b]]
                 /\ gone' = gone \cup {k}
       \/ \E b : \E at \in {"publish", "buffer"} :
                 /\ work' = [work EXCEPT ![Shard] =
                               [at |-> at, pkt |-> k, b |-> b]]
                 /\ gone' = gone
  <2>1. CASE work' = work /\ gone' = gone \cup {k}
    BY <2>1
  <2>2. ASSUME NEW p, NEW shut,
               LET b  == Binding(p)
                   do == IF shut THEN "drop" ELSE resolveAction(b.act)
               IN /\ gone' = IF do = "drop" THEN gone \cup {k} ELSE gone
                  /\ work' = [work EXCEPT ![Shard] =
                                [at |-> IF do = "drop" THEN "count" ELSE do,
                                 pkt |-> k, b |-> b]]
        PROVE  \/ \E b : /\ work' = [work EXCEPT ![Shard] =
                                       [at |-> "count", pkt |-> k, b |-> b]]
                         /\ gone' = gone \cup {k}
               \/ \E b : \E at \in {"publish", "buffer"} :
                         /\ work' = [work EXCEPT ![Shard] =
                                       [at |-> at, pkt |-> k, b |-> b]]
                         /\ gone' = gone
    <3> DEFINE do == IF shut THEN "drop" ELSE resolveAction(Binding(p).act)
    <3>1. do \in {"drop", "publish", "buffer"}
      BY DEF resolveAction
    <3>2. /\ gone' = IF do = "drop" THEN gone \cup {k} ELSE gone
          /\ work' = [work EXCEPT ![Shard] =
                        [at |-> IF do = "drop" THEN "count" ELSE do,
                         pkt |-> k, b |-> Binding(p)]]
      BY <2>2
    <3> HIDE DEF do
    <3>3. PICK b : b = Binding(p)
      OBVIOUS
    <3>4. CASE do = "drop"
      BY ONLY <3>2, <3>3, <3>4
    <3>5. CASE do \in {"publish", "buffer"}
      <4>1. do # "drop"
        BY <3>5
      <4>2. /\ gone' = gone
            /\ work' = [work EXCEPT ![Shard] = [at |-> do, pkt |-> k, b |-> b]]
        BY ONLY <4>1, <3>2, <3>3
      <4>3. \E at \in {"publish", "buffer"} :
               /\ work' = [work EXCEPT ![Shard] = [at |-> at, pkt |-> k, b |-> b]]
               /\ gone' = gone
        BY ONLY <3>5, <4>2, Zenon
      <4> QED BY ONLY <4>3, Zenon
    <3> QED BY ONLY <3>1, <3>4, <3>5
  <2> QED BY <2>1, <2>2, <1>1 DEF Classify, k, q
<1>13. CASE gone' = gone \cup {k} /\ work'[Shard].at \notin {"publish", "buffer"}
            /\ \A v \in Workers \ {Shard} : work'[v] = work[v]
  <2>1. ~ Undecided'
    BY <1>13 DEF Undecided
  <2>2. Settled' = Settled + 1
    BY <1>4, <1>9, <2>1 DEF Settled
  <2>3. PlaceInv' /\ OrderInv'
    BY <1>4, <1>5, <1>8, <1>13, <2>2, DropStep
  <2>4. IntakeInv'
    BY <1>6, <1>10, <1>11, <1>13, <2>1 DEF PacketInv, IntakeInv
  <2> QED BY <2>2, <2>3, <2>4
<1>14. CASE /\ gone' = gone /\ work'[Shard].at \in {"publish", "buffer"}
            /\ work'[Shard].pkt = k
            /\ \A v \in Workers \ {Shard} : work'[v] = work[v]
  <2>1. Undecided'
    BY <1>14 DEF Undecided
  <2>2. Settled' = Settled
    BY <1>4, <1>9, <2>1 DEF Settled
  <2>3. PlaceInv' /\ OrderInv'
    BY <1>5, <1>14, <2>2, StillPlaced
  <2>4. IntakeInv'
    BY <1>6, <1>8, <1>9, <1>10, <1>11, <1>14, <2>1 DEF PacketInv, IntakeInv
  <2> QED BY <2>2, <2>3, <2>4
<1>15. Idle.at = "idle"
  BY DEF Idle
<1> QED
  BY <1>1, <1>12, <1>13, <1>14, <1>15 DEF PacketInv, TypeOK

\* A worker publishes or buffers its packet, which settles it.
LEMMA DecideStep ==
    ASSUME PacketInv, NEW w \in Workers, NEW j,
           UNCHANGED <<queue, arrived>>, work[w].at \in {"publish", "buffer"},
           work' = [work EXCEPT ![w] = j], j.at \notin {"publish", "buffer"}
    PROVE  /\ IntakeInv' /\ Settled' = Settled + 1 /\ Settled \in Nat
           /\ work[w].pkt = Settled + 1
<1>1. w = Shard
  BY OneWorker DEF PacketInv
<1>2. /\ work'[Shard] = j
      /\ \A v \in Workers \ {Shard} : work'[v] = work[v]
  BY <1>1 DEF PacketInv, TypeOK
<1>3. Undecided /\ ~ Undecided'
  BY <1>1, <1>2 DEF Undecided
<1>4. Passed' = Passed
  BY DEF Passed
<1>5. Settled \in Nat /\ Passed = Settled + 1 /\ work[Shard].pkt = Settled + 1
  BY <1>3, Counted DEF PacketInv
<1>6. Settled' = Settled + 1
  BY <1>3, <1>4, <1>5 DEF Settled
<1> QED BY <1>1, <1>2, <1>3, <1>4, <1>5, <1>6 DEF PacketInv, IntakeInv

\* An outcome is published.
LEMMA OutAppend ==
    ASSUME TypeOK, NEW o \in Outcomes, out' = Append(out, o)
    PROVE  /\ DOMAIN out' = DOMAIN out \cup {Len(out) + 1}
           /\ \A i \in DOMAIN out : out'[i] = out[i] /\ i < Len(out) + 1 /\ i \in Int
           /\ out'[Len(out) + 1] = o /\ Len(out) + 1 \in Int
           /\ Sent' = Sent \cup {o.pkt}
<1>1. /\ DOMAIN out' = DOMAIN out \cup {Len(out) + 1}
      /\ \A i \in DOMAIN out : out'[i] = out[i] /\ i < Len(out) + 1 /\ i \in Int
      /\ out'[Len(out) + 1] = o /\ Len(out) + 1 \in Int
  BY DEF TypeOK
<1>2. Sent' = Sent \cup {o.pkt}
  BY <1>1 DEF Sent
<1> QED BY <1>1, <1>2

LEMMA OutDistinct ==
    ASSUME TypeOK, NEW o \in Outcomes, out' = Append(out, o), o.pkt \notin Sent,
           \A i, j \in DOMAIN out : out[i].pkt = out[j].pkt => i = j
    PROVE  \A i, j \in DOMAIN out' : out'[i].pkt = out'[j].pkt => i = j
<1>1. \A i \in DOMAIN out : out[i].pkt # o.pkt
  BY DEF Sent
<1>2. /\ DOMAIN out' = DOMAIN out \cup {Len(out) + 1}
      /\ \A i \in DOMAIN out : out'[i] = out[i]
      /\ out'[Len(out) + 1] = o
  BY OutAppend
<1>3. SUFFICES ASSUME NEW i \in DOMAIN out', NEW j \in DOMAIN out',
                      out'[i].pkt = out'[j].pkt
               PROVE  i = j
  OBVIOUS
<1>4. CASE i \in DOMAIN out /\ j \in DOMAIN out
  BY <1>2, <1>3, <1>4
<1>5. CASE i \notin DOMAIN out \/ j \notin DOMAIN out
  BY <1>1, <1>2, <1>3, <1>5
<1> QED BY <1>4, <1>5

\* An outcome that was not held leaves the released ones as they were.
LEMMA PublishStep ==
    ASSUME PacketInv, NEW w \in Workers, Publish(w)
    PROVE  IntakeInv' /\ PlaceInv' /\ OrderInv' /\ Settled' = Settled + 1
<1>1. /\ work[w] \in Jobs
      /\ work' = [work EXCEPT ![w] = [at |-> "count", pkt |-> work[w].pkt,
                                      b |-> work[w].b]]
  BY JobType DEF Publish, PacketInv
<1>2. /\ UNCHANGED <<queue, arrived, buffers, drain, gone>>
      /\ work[w].at \in {"publish", "buffer"}
      /\ out' = Append(out, Outcome(work[w].pkt, work[w].b.pdr, FALSE))
  BY DEF Publish, intake, release
<1>3. PICK o \in Outcomes : /\ o = Outcome(work[w].pkt, work[w].b.pdr, FALSE)
                            /\ o.pkt = work[w].pkt /\ ~ o.held
  <2>1. Outcome(work[w].pkt, work[w].b.pdr, FALSE) \in Outcomes
    BY <1>1 DEF Outcome, Outcomes, Jobs, Bindings
  <2>2. /\ Outcome(work[w].pkt, work[w].b.pdr, FALSE).pkt = work[w].pkt
        /\ ~ Outcome(work[w].pkt, work[w].b.pdr, FALSE).held
    BY DEF Outcome
  <2> QED BY <2>1, <2>2
<1>4. /\ IntakeInv' /\ Settled' = Settled + 1 /\ Settled \in Nat
      /\ work[w].pkt = Settled + 1
  BY <1>1, <1>2, DecideStep
<1>5. out' = Append(out, o) /\ TypeOK
  BY <1>2, <1>3 DEF PacketInv
<1>6. PICK n \in Nat : n = Settled
  BY <1>4
<1>7. PICK loc \in [1 .. n -> Fates] : Placed(loc, n)
  BY <1>6 DEF PacketInv, PlaceInv
<1>8. PICK x \in Fates : x = <<"out", None>>
  BY DEF Fates
<1>9. PICK l \in [1 .. (n + 1) -> Fates] :
         /\ Where(l, n + 1, x) = Where(loc, n, x) \cup {n + 1}
         /\ \A y : y # x => Where(l, n + 1, y) = Where(loc, n, y)
  <2> n \in Nat /\ loc \in [1 .. n -> Fates] /\ x \in Fates
    BY <1>6, <1>7, <1>8
  <2>1. /\ Extended(loc, n, x) \in [1 .. (n + 1) -> Fates]
        /\ Where(Extended(loc, n, x), n + 1, x) = Where(loc, n, x) \cup {n + 1}
        /\ \A y : y # x => Where(Extended(loc, n, x), n + 1, y) = Where(loc, n, y)
    BY ONLY LocExtend, n \in Nat, loc \in [1 .. n -> Fates], x \in Fates
  <2> QED BY ONLY <2>1, Zenon
<1>10. Sent' = Sent \cup {n + 1}
  BY <1>3, <1>4, <1>5, <1>6, OutAppend
<1>11. Placed(l, n + 1)'
  <2>1. /\ \A p \in PDRs : <<"buffer", p>> # x /\ <<"drain", p>> # x
        /\ <<"gone", None>> # x
    BY <1>8
  <2> QED BY <1>2, <1>7, <1>8, <1>9, <1>10, <2>1 DEF Placed
<1>12. n + 1 \notin Sent
  BY <1>6, <1>7 DEF Placed, Where
<1>13. \A i, j \in DOMAIN out' : out'[i].pkt = out'[j].pkt => i = j
  <2>1. \A i, j \in DOMAIN out : out[i].pkt = out[j].pkt => i = j
    BY DEF PacketInv, PlaceInv
  <2>2. o.pkt \notin Sent
    BY <1>3, <1>4, <1>6, <1>12
  <2> QED BY ONLY <1>3, <1>5, <2>1, <2>2, OutDistinct
<1>14. PlaceInv'
  BY <1>4, <1>6, <1>9, <1>11, <1>13 DEF PlaceInv
<1>15. \A p \in PDRs : Past(p)' = Past(p)
  <2>1. /\ DOMAIN out' = DOMAIN out \cup {Len(out) + 1}
        /\ \A i \in DOMAIN out : out'[i] = out[i]
        /\ ~ out'[Len(out) + 1].held
    BY <1>3, <1>5, OutAppend
  <2>2. ASSUME NEW p \in PDRs PROVE Past(p)' = Past(p)
    <3>1. Past(p)' = {i \in DOMAIN out' : out'[i].pdr = p /\ out'[i].held}
      BY DEF Past
    <3> QED BY <2>1, <3>1 DEF Past
  <2> QED BY <2>2
<1>16. \A p \in PDRs : \A i \in Past(p) : out'[i] = out[i]
  BY <1>5, OutAppend DEF Past
<1>17. OrderInv'
  <2>1. \A p \in PDRs :
          /\ Ascending(drain'[p]) /\ Ascending(buffers'[p])
          /\ drain'[p] = <<>> \/ buffers'[p] = <<>>
    BY <1>2 DEF PacketInv, OrderInv
  <2>2. \A p \in PDRs :
          /\ \A i, j \in Past(p)' : i < j => out'[i].pkt < out'[j].pkt
          /\ \A i \in Past(p)' :
             /\ \A j \in DOMAIN drain'[p] : out'[i].pkt < drain'[p][j]
             /\ \A j \in DOMAIN buffers'[p] : out'[i].pkt < buffers'[p][j]
    <3>1. SUFFICES ASSUME NEW p \in PDRs
                   PROVE  /\ \A i, j \in Past(p) : i < j => out'[i].pkt < out'[j].pkt
                          /\ \A i \in Past(p) :
                             /\ \A j \in DOMAIN drain[p] : out'[i].pkt < drain[p][j]
                             /\ \A j \in DOMAIN buffers[p] :
                                  out'[i].pkt < buffers[p][j]
      BY <1>2, <1>15
    <3>2. /\ \A i, j \in Past(p) : i < j => out[i].pkt < out[j].pkt
          /\ \A i \in Past(p) :
             /\ \A j \in DOMAIN drain[p] : out[i].pkt < drain[p][j]
             /\ \A j \in DOMAIN buffers[p] : out[i].pkt < buffers[p][j]
      BY DEF PacketInv, OrderInv
    <3>3. \A i \in Past(p) : out'[i] = out[i]
      BY <1>16
    <3> QED BY ONLY <3>2, <3>3
  <2> QED BY <2>1, <2>2 DEF OrderInv, Ascending
<1> QED BY <1>4, <1>14, <1>17

\* What is beyond the worker has been settled.
LEMMA SettledOnly ==
    ASSUME NEW loc, NEW n, Placed(loc, n)
    PROVE  /\ \A p \in PDRs : /\ \A i \in DOMAIN buffers[p] : buffers[p][i] \in 1 .. n
                              /\ \A i \in DOMAIN drain[p] : drain[p][i] \in 1 .. n
           /\ \A i \in DOMAIN out : out[i].pkt \in 1 .. n
<1>1. /\ \A p \in PDRs : /\ Where(loc, n, <<"buffer", p>>) \subseteq 1 .. n
                         /\ Where(loc, n, <<"drain", p>>) \subseteq 1 .. n
      /\ Where(loc, n, <<"out", None>>) \subseteq 1 .. n
  BY DEF Where
<1>2. /\ \A p \in PDRs : /\ ToSet(buffers[p]) \subseteq 1 .. n
                         /\ ToSet(drain[p]) \subseteq 1 .. n
      /\ Sent \subseteq 1 .. n
  BY <1>1 DEF Placed
<1> QED BY <1>2 DEF ToSet, Sent

\* bufferPacket, with the session known: the packet is the newest the PDR holds,
\* and what the limit evicts is gone.
LEMMA KeepStep ==
    ASSUME PacketInv, Unlocked, NEW p0 \in PDRs, NEW limit \in Nat,
           NEW n \in Nat, n = Settled, Settled' = n + 1, n + 1 \in Packets,
           NEW all, all = Append(buffers[p0], n + 1),
           NEW kept, kept = Newest(all, limit),
           buffers' = [buffers EXCEPT ![p0] = kept],
           gone' = gone \cup (ToSet(all) \ ToSet(kept)),
           UNCHANGED <<drain, out>>
    PROVE  /\ PlaceInv' /\ OrderInv'
           /\ ToSet(kept) \subseteq ToSet(buffers[p0]) \cup {n + 1}
<1>1. PICK loc \in [1 .. n -> Fates] : Placed(loc, n)
  BY DEF PacketInv, PlaceInv
<1>2. buffers[p0] \in Seq(Packets) /\ Ascending(buffers[p0])
  BY DEF PacketInv, TypeOK, OrderInv
<1>3. \A i \in DOMAIN buffers[p0] : buffers[p0][i] < n + 1
  <2>1. \A i \in DOMAIN buffers[p0] : buffers[p0][i] \in 1 .. n
    BY <1>1, SettledOnly
  <2> QED BY <2>1
<1>4. all \in Seq(Packets) /\ ToSet(all) = ToSet(buffers[p0]) \cup {n + 1}
  BY <1>2, AppendType, AppendSet
<1>5. Ascending(all)
  BY <1>2, <1>3, AppendAscending
<1>6. Ascending(kept) /\ ToSet(kept) \subseteq ToSet(all)
  BY <1>4, <1>5, NewestAscending
<1>7. PICK x \in Fates, g \in Fates : /\ x = <<"buffer", p0>>
                                      /\ g = <<"gone", None>> /\ x # g
  <2>1. <<"buffer", p0>> \in Fates /\ <<"gone", None>> \in Fates
    BY DEF Fates
  <2>2. <<"buffer", p0>> # <<"gone", None>>
    OBVIOUS
  <2> QED BY ONLY <2>1, <2>2
<1>8. PICK l1 \in [1 .. (n + 1) -> Fates] :
         /\ Where(l1, n + 1, x) = Where(loc, n, x) \cup {n + 1}
         /\ \A y : y # x => Where(l1, n + 1, y) = Where(loc, n, y)
  <2> n \in Nat /\ loc \in [1 .. n -> Fates] /\ x \in Fates
    BY <1>1, <1>7
  <2>1. /\ Extended(loc, n, x) \in [1 .. (n + 1) -> Fates]
        /\ Where(Extended(loc, n, x), n + 1, x) = Where(loc, n, x) \cup {n + 1}
        /\ \A y : y # x => Where(Extended(loc, n, x), n + 1, y) = Where(loc, n, y)
    BY ONLY LocExtend, n \in Nat, loc \in [1 .. n -> Fates], x \in Fates
  <2> QED BY ONLY <2>1, Zenon
<1>9. ToSet(buffers[p0]) = Where(loc, n, x)
  BY <1>1, <1>7 DEF Placed
<1>10. PICK E \in SUBSET Where(l1, n + 1, x) : E = ToSet(all) \ ToSet(kept)
  BY <1>4, <1>8, <1>9
<1>11. PICK m \in Nat : m = n + 1
  OBVIOUS
<1>12. PICK l \in [1 .. m -> Fates] :
         /\ Where(l, m, x) = Where(l1, m, x) \ E
         /\ Where(l, m, g) = Where(l1, m, g) \cup (E \cap Where(l1, m, x))
         /\ \A z : z # x /\ z # g => Where(l, m, z) = Where(l1, m, z)
  <2> /\ m \in Nat /\ l1 \in [1 .. m -> Fates] /\ x \in Fates /\ g \in Fates
      /\ x # g
    BY <1>7, <1>8, <1>11
  <2> DEFINE l == Moved(l1, m, x, g, E)
  <2>1. /\ l \in [1 .. m -> Fates]
        /\ Where(l, m, x) = Where(l1, m, x) \ E
        /\ Where(l, m, g) = Where(l1, m, g) \cup (E \cap Where(l1, m, x))
        /\ \A z : z # x /\ z # g => Where(l, m, z) = Where(l1, m, z)
    BY ONLY LocMove, m \in Nat, l1 \in [1 .. m -> Fates], x \in Fates,
       g \in Fates, x # g
  <2> HIDE DEF l
  <2> QED BY ONLY <2>1, Zenon
<1>13. /\ buffers'[p0] = kept
       /\ \A p \in PDRs : p # p0 => buffers'[p] = buffers[p]
  BY DEF PacketInv, TypeOK
<1>14. Where(l, m, x) = ToSet(kept)
  <2>1. Where(l1, m, x) = ToSet(all)
    BY <1>4, <1>8, <1>9, <1>11
  <2> QED BY ONLY <1>6, <1>10, <1>12, <2>1
<1>15. Where(l, m, g) = gone'
  <2>1. gone = Where(loc, n, g)
    BY <1>1, <1>7 DEF Placed
  <2>2. Where(l1, m, g) = gone
    BY <1>7, <1>8, <1>11, <2>1
  <2>3. E \cap Where(l1, m, x) = E
    BY <1>10, <1>11
  <2> QED BY <1>10, <1>12, <2>2, <2>3
<1>16. \A z : z # x /\ z # g => Where(l, m, z) = Where(loc, n, z)
  BY <1>8, <1>11, <1>12
<1>17. Placed(l, m)'
  <2>1. /\ \A p \in PDRs : /\ p # p0 => <<"buffer", p>> # x
                           /\ <<"buffer", p>> # g
                           /\ <<"drain", p>> # x /\ <<"drain", p>> # g
        /\ <<"out", None>> # x /\ <<"out", None>> # g
    BY <1>7
  <2>2. ASSUME NEW p \in PDRs
        PROVE  /\ ToSet(buffers'[p]) = Where(l, m, <<"buffer", p>>)
               /\ ToSet(drain'[p]) = Where(l, m, <<"drain", p>>)
    <3>1. ToSet(drain'[p]) = Where(l, m, <<"drain", p>>)
      BY <1>1, <1>16, <2>1 DEF Placed
    <3>2. CASE p = p0
      BY <1>7, <1>13, <1>14, <3>1, <3>2
    <3>3. CASE p # p0
      BY <1>1, <1>13, <1>16, <2>1, <3>1, <3>3 DEF Placed
    <3> QED BY <3>2, <3>3
  <2>3. Sent' = Where(l, m, <<"out", None>>)
    <3>1. Sent' = Sent
      BY DEF Sent
    <3> QED BY <1>1, <1>16, <2>1, <3>1 DEF Placed
  <2> QED BY <1>7, <1>12, <1>15, <2>2, <2>3 DEF Placed, ToSet
<1>18. PlaceInv'
  BY <1>11, <1>12, <1>17 DEF PacketInv, PlaceInv
<1>19. \A j \in DOMAIN kept : kept[j] = n + 1
                              \/ \E i \in DOMAIN buffers[p0] : kept[j] = buffers[p0][i]
  BY <1>4, <1>6 DEF ToSet
<1>20. OrderInv'
  <2>1. ASSUME NEW p \in PDRs
        PROVE  /\ Ascending(drain[p]) /\ Ascending(buffers'[p])
               /\ drain[p] = <<>> \/ buffers'[p] = <<>>
               /\ \A i, j \in Past(p) : i < j => out[i].pkt < out[j].pkt
               /\ \A i \in Past(p) :
                    /\ \A j \in DOMAIN drain[p] : out[i].pkt < drain[p][j]
                    /\ \A j \in DOMAIN buffers'[p] : out[i].pkt < buffers'[p][j]
    <3>1. /\ Ascending(drain[p]) /\ Ascending(buffers[p]) /\ drain[p] = <<>>
          /\ \A i, j \in Past(p) : i < j => out[i].pkt < out[j].pkt
          /\ \A i \in Past(p) :
               /\ \A j \in DOMAIN drain[p] : out[i].pkt < drain[p][j]
               /\ \A j \in DOMAIN buffers[p] : out[i].pkt < buffers[p][j]
      BY DEF PacketInv, OrderInv, Unlocked
    <3>2. CASE p # p0
      BY <1>13, <3>1, <3>2
    <3>3. CASE p = p0
      <4>1. \A i \in Past(p) : out[i].pkt < n + 1
        <5>1. \A i \in Past(p) : out[i].pkt \in 1 .. n
          BY <1>1, SettledOnly DEF Past
        <5> QED BY <5>1
      <4>2. \A i \in Past(p) : \A j \in DOMAIN kept : out[i].pkt < kept[j]
        BY ONLY <1>19, <3>1, <3>3, <4>1
      <4> QED BY <1>6, <1>13, <3>1, <3>3, <4>2
    <3> QED BY <3>2, <3>3
  <2>2. \A p \in PDRs : Past(p)' = Past(p)
    BY DEF Past
  <2> QED BY <2>1, <2>2 DEF OrderInv, Ascending
<1> QED BY <1>4, <1>6, <1>18, <1>20

LEMMA bufferStep ==
    ASSUME PacketInv, NEW w \in Workers, bufferPacket(w)
    PROVE  /\ IntakeInv' /\ PlaceInv' /\ OrderInv' /\ Settled' = Settled + 1
           /\ work[w].pkt = Settled + 1 /\ Settled \in Nat
           /\ \A p \in PDRs : ToSet(buffers'[p]) \subseteq ToSet(buffers[p]) \cup
                                IF known /\ p = work[w].b.pdr THEN {Settled + 1} ELSE {}
<1> DEFINE b == work[w].b
           at == IF "NOCP" \notin b.act THEN "count"
                 ELSE IF b.bar.delay THEN "notify" ELSE "post"
<1>1. Goto(w, at) /\ work[w].at = "buffer"
  BY DEF bufferPacket
<1>2. at \in {"notify", "post", "count"}
  OBVIOUS
<1>3. PICK a \in {"notify", "post", "count"} : a = at
  BY <1>2
<1> HIDE DEF at
<1>4. /\ work[w] \in Jobs
      /\ work' = [work EXCEPT ![w] = [at |-> a, pkt |-> work[w].pkt, b |-> b]]
  <2>1. Goto(w, a) /\ work[w].at # "idle" /\ TypeOK
    BY <1>1, <1>3 DEF PacketInv
  <2> QED BY <1>3, <2>1, JobType
<1>5. PICK j : j = [at |-> a, pkt |-> work[w].pkt, b |-> b]
  OBVIOUS
<1>6. j.at \notin {"publish", "buffer"}
  BY <1>3, <1>5
<1>7. UNCHANGED <<queue, arrived, drain, out>> /\ Unlocked
  BY DEF bufferPacket, intake, release
<1>8. /\ IntakeInv' /\ Settled' = Settled + 1 /\ Settled \in Nat
      /\ work[w].pkt = Settled + 1
  BY <1>1, <1>4, <1>5, <1>6, <1>7, DecideStep
<1>9. PICK n \in Nat : n = Settled
  BY <1>8
<1>10. PICK p0 \in PDRs, limit \in Nat : p0 = b.pdr /\ limit = b.bar.limit
  BY <1>4 DEF Jobs, Bindings, BARRule
<1>11. n + 1 \in Packets
  BY <1>4, <1>8, <1>9 DEF Jobs
<1>12. CASE ~ known
  <2>1. buffers' = buffers /\ gone' = gone \cup {Settled + 1}
    BY <1>8, <1>12 DEF bufferPacket
  <2>2. PlaceInv' /\ OrderInv'
    BY <1>7, <1>8, <2>1, DropStep
  <2> QED BY <1>8, <2>1, <2>2
<1>13. CASE known
  <2>1. PICK all : all = Append(buffers[p0], n + 1)
    OBVIOUS
  <2>2. PICK kept : kept = Newest(all, limit)
    OBVIOUS
  <2>3. /\ buffers' = [buffers EXCEPT ![p0] = kept]
        /\ gone' = gone \cup (ToSet(all) \ ToSet(kept))
    BY <1>8, <1>9, <1>10, <1>13, <2>1, <2>2 DEF bufferPacket
  <2>4. /\ PlaceInv' /\ OrderInv'
        /\ ToSet(kept) \subseteq ToSet(buffers[p0]) \cup {n + 1}
    BY <1>7, <1>8, <1>9, <1>11, <2>1, <2>2, <2>3, KeepStep
  <2>5. /\ buffers'[p0] = kept
        /\ \A p \in PDRs : p # p0 => buffers'[p] = buffers[p]
    BY <2>3 DEF PacketInv, TypeOK
  <2> QED BY <1>8, <1>9, <1>10, <1>13, <2>4, <2>5
<1> QED BY <1>12, <1>13

\* DrainNext: the oldest packet being released follows those released before.
LEMMA DrainNextStep ==
    ASSUME PacketInv, NEW p0 \in PDRs, DrainNext(p0)
    PROVE  IntakeInv' /\ PlaceInv' /\ OrderInv' /\ Settled' = Settled
<1>1. IntakeInv' /\ Settled' = Settled
  BY StillCounted DEF DrainNext, intake
<1>2. PICK d : d = drain[p0]
  OBVIOUS
<1>3. PICK h : h = Head(d)
  OBVIOUS
<1>4. /\ d \in Seq(Packets) /\ d # <<>> /\ Ascending(d) /\ h \in Packets
      /\ buffers[p0] = <<>>
  BY <1>2, <1>3 DEF DrainNext, PacketInv, TypeOK, OrderInv
<1>5. /\ ToSet(Tail(d)) = ToSet(d) \ {h} /\ h \in ToSet(d)
      /\ Ascending(Tail(d))
      /\ \A j \in DOMAIN Tail(d) : h < Tail(d)[j]
  BY <1>3, <1>4, TailSet
<1>6. /\ drain' = [drain EXCEPT ![p0] = Tail(d)]
      /\ out' = Append(out, Outcome(h, p0, TRUE))
      /\ UNCHANGED <<buffers, gone>>
  BY <1>2, <1>3 DEF DrainNext
<1>7. PICK o \in Outcomes : /\ o = Outcome(h, p0, TRUE)
                            /\ o.pkt = h /\ o.pdr = p0 /\ o.held
  <2>1. Outcome(h, p0, TRUE) \in Outcomes
    BY <1>4 DEF Outcome, Outcomes
  <2>2. /\ Outcome(h, p0, TRUE).pkt = h /\ Outcome(h, p0, TRUE).pdr = p0
        /\ Outcome(h, p0, TRUE).held
    BY DEF Outcome
  <2> QED BY <2>1, <2>2
<1>8. out' = Append(out, o) /\ TypeOK
  BY <1>6, <1>7 DEF PacketInv
<1>9. /\ DOMAIN out' = DOMAIN out \cup {Len(out) + 1}
      /\ \A i \in DOMAIN out : out'[i] = out[i] /\ i < Len(out) + 1 /\ i \in Int
      /\ out'[Len(out) + 1] = o /\ Len(out) + 1 \in Int
      /\ Sent' = Sent \cup {h}
  BY <1>7, <1>8, OutAppend
<1>10. /\ drain'[p0] = Tail(d)
       /\ \A p \in PDRs : p # p0 => drain'[p] = drain[p]
  BY <1>6 DEF PacketInv, TypeOK
<1>11. PICK n \in Nat : n = Settled
  BY Counted DEF PacketInv
<1>12. PICK loc \in [1 .. n -> Fates] : Placed(loc, n)
  BY <1>11 DEF PacketInv, PlaceInv
<1>13. PICK x \in Fates, y \in Fates : /\ x = <<"drain", p0>>
                                       /\ y = <<"out", None>> /\ x # y
  <2>1. <<"drain", p0>> \in Fates /\ <<"out", None>> \in Fates
    BY DEF Fates
  <2>2. <<"drain", p0>> # <<"out", None>>
    OBVIOUS
  <2> QED BY ONLY <2>1, <2>2
<1>14. ToSet(d) = Where(loc, n, x) /\ Sent = Where(loc, n, y)
  BY <1>2, <1>12, <1>13 DEF Placed
<1>15. PICK l \in [1 .. n -> Fates] :
         /\ Where(l, n, x) = Where(loc, n, x) \ {h}
         /\ Where(l, n, y) = Where(loc, n, y) \cup ({h} \cap Where(loc, n, x))
         /\ \A z : z # x /\ z # y => Where(l, n, z) = Where(loc, n, z)
  <2> DEFINE l == Moved(loc, n, x, y, {h})
  <2> /\ n \in Nat /\ loc \in [1 .. n -> Fates] /\ x \in Fates /\ y \in Fates
      /\ x # y
    BY <1>11, <1>12, <1>13
  <2>1. /\ l \in [1 .. n -> Fates]
        /\ Where(l, n, x) = Where(loc, n, x) \ {h}
        /\ Where(l, n, y) = Where(loc, n, y) \cup ({h} \cap Where(loc, n, x))
        /\ \A z : z # x /\ z # y => Where(l, n, z) = Where(loc, n, z)
    BY ONLY LocMove, n \in Nat, loc \in [1 .. n -> Fates], x \in Fates,
       y \in Fates, x # y
  <2> HIDE DEF l
  <2> QED BY ONLY <2>1, Zenon
<1>16. Where(l, n, x) = ToSet(Tail(d)) /\ Where(l, n, y) = Sent'
  BY <1>5, <1>9, <1>14, <1>15
<1>17. Placed(l, n)'
  <2>1. /\ \A p \in PDRs : /\ p # p0 => <<"drain", p>> # x
                           /\ <<"buffer", p>> # x
                           /\ <<"drain", p>> # y /\ <<"buffer", p>> # y
        /\ <<"gone", None>> # x /\ <<"gone", None>> # y
    BY <1>13
  <2>2. ASSUME NEW p \in PDRs
        PROVE  /\ ToSet(buffers'[p]) = Where(l, n, <<"buffer", p>>)
               /\ ToSet(drain'[p]) = Where(l, n, <<"drain", p>>)
    <3>1. ToSet(buffers'[p]) = Where(l, n, <<"buffer", p>>)
      BY <1>6, <1>12, <1>15, <2>1 DEF Placed
    <3>2. CASE p = p0
      BY <1>10, <1>13, <1>16, <3>1, <3>2
    <3>3. CASE p # p0
      BY <1>10, <1>12, <1>15, <2>1, <3>1, <3>3 DEF Placed
    <3> QED BY <3>2, <3>3
  <2>3. gone' = Where(l, n, <<"gone", None>>)
    BY <1>6, <1>12, <1>15, <2>1 DEF Placed
  <2> QED BY <1>13, <1>15, <1>16, <2>2, <2>3 DEF Placed, ToSet
<1>18. h \notin Sent
  BY <1>5, <1>13, <1>14 DEF Where
<1>19. \A i, j \in DOMAIN out' : out'[i].pkt = out'[j].pkt => i = j
  <2>1. \A i, j \in DOMAIN out : out[i].pkt = out[j].pkt => i = j
    BY DEF PacketInv, PlaceInv
  <2>2. o.pkt \notin Sent
    BY <1>7, <1>18
  <2> QED BY ONLY <1>7, <1>8, <2>1, <2>2, OutDistinct
<1>20. PlaceInv'
  BY <1>1, <1>11, <1>15, <1>17, <1>19 DEF PlaceInv
<1>21. ASSUME NEW p \in PDRs
       PROVE  Past(p)' = Past(p) \cup IF p = p0 THEN {Len(out) + 1} ELSE {}
  <2>1. Past(p)' = {i \in DOMAIN out' : out'[i].pdr = p /\ out'[i].held}
    BY DEF Past
  <2> QED BY <1>7, <1>9, <2>1 DEF Past
<1>22. ASSUME NEW p \in PDRs
       PROVE  /\ Ascending(drain'[p]) /\ Ascending(buffers'[p])
              /\ drain'[p] = <<>> \/ buffers'[p] = <<>>
              /\ \A i, j \in Past(p)' : i < j => out'[i].pkt < out'[j].pkt
              /\ \A i \in Past(p)' :
                   /\ \A j \in DOMAIN drain'[p] : out'[i].pkt < drain'[p][j]
                   /\ \A j \in DOMAIN buffers'[p] : out'[i].pkt < buffers'[p][j]
  <2>1. /\ Ascending(drain[p]) /\ Ascending(buffers[p])
        /\ drain[p] = <<>> \/ buffers[p] = <<>>
        /\ \A i, j \in Past(p) : i < j => out[i].pkt < out[j].pkt
        /\ \A i \in Past(p) :
             /\ \A j \in DOMAIN drain[p] : out[i].pkt < drain[p][j]
             /\ \A j \in DOMAIN buffers[p] : out[i].pkt < buffers[p][j]
    BY DEF PacketInv, OrderInv
  <2>2. \A i \in Past(p) : i \in DOMAIN out /\ out'[i] = out[i] /\ i < Len(out) + 1
                            /\ i \in Int
    BY <1>9 DEF Past
  <2>3. CASE p # p0
    <3>1. Past(p)' = Past(p) /\ drain'[p] = drain[p] /\ buffers'[p] = buffers[p]
      BY <1>6, <1>10, <1>21, <2>3
    <3>2. /\ \A i, j \in Past(p) : i < j => out'[i].pkt < out'[j].pkt
          /\ \A i \in Past(p) :
               /\ \A j \in DOMAIN drain[p] : out'[i].pkt < drain[p][j]
               /\ \A j \in DOMAIN buffers[p] : out'[i].pkt < buffers[p][j]
      BY ONLY <2>1, <2>2
    <3> QED BY ONLY <2>1, <3>1, <3>2
  <2>4. CASE p = p0
    <3>1. PICK m \in Int : m = Len(out) + 1
      BY <1>9
    <3>2. Past(p)' = Past(p) \cup {m} /\ out'[m].pkt = h
      BY <1>7, <1>9, <1>21, <2>4, <3>1
    <3>3. \A i \in Past(p) : i \in Int /\ i < m /\ out'[i] = out[i]
      BY <2>2, <3>1
    <3>4. \A i \in Past(p) : out[i].pkt < h
      <4>1. 1 \in DOMAIN d /\ h = d[1]
        BY <1>3, <1>4
      <4> QED BY <1>2, <2>1, <2>4, <4>1
    <3>5. \A i, j \in Past(p) \cup {m} : i < j => out'[i].pkt < out'[j].pkt
      BY ONLY <2>1, <3>1, <3>2, <3>3, <3>4
    <3>6. \A j \in DOMAIN Tail(d) : j + 1 \in DOMAIN d /\ Tail(d)[j] = d[j + 1]
      BY <1>4
    <3>7. \A i \in Past(p) \cup {m} : \A j \in DOMAIN Tail(d) : out'[i].pkt < Tail(d)[j]
      BY ONLY <1>2, <1>5, <2>1, <2>4, <3>2, <3>3, <3>6
    <3>8. buffers'[p] = <<>> /\ drain'[p] = Tail(d) /\ DOMAIN buffers'[p] = {}
      BY <1>4, <1>6, <1>10, <2>4
    <3>9. Ascending(buffers'[p])
      BY <3>8 DEF Ascending
    <3> QED BY ONLY <1>5, <3>2, <3>5, <3>7, <3>8, <3>9
  <2> QED BY <2>3, <2>4
<1>23. OrderInv'
  BY <1>22 DEF OrderInv, Ascending
<1> QED BY <1>1, <1>20, <1>23

\* UpdateFAR: what the PDRs in P hold goes to the same PDR's drain, or is gone.
LEMMA ReleaseStep ==
    ASSUME PacketInv, Unlocked, NEW P \in SUBSET PDRs,
           buffers' = Emptied(P), Settled' = Settled, UNCHANGED out,
           \/ /\ drain' = [p \in PDRs |-> IF p \in P THEN buffers[p] ELSE <<>>]
              /\ gone' = gone
           \/ gone' = gone \cup Held(P) /\ drain' = drain
    PROVE  PlaceInv' /\ OrderInv'
<1>1. PICK n \in Nat : n = Settled
  BY Counted DEF PacketInv
<1>2. PICK loc \in [1 .. n -> Fates] : Placed(loc, n)
  BY <1>1 DEF PacketInv, PlaceInv
<1>3. Sent' = Sent
  BY DEF Sent
<1>4. ToSet(<<>>) = {}
  BY DEF ToSet
<1>5. \A p \in PDRs : drain[p] = <<>> /\ Where(loc, n, <<"drain", p>>) = {}
  BY <1>2, <1>4 DEF Unlocked, Placed
<1>6. \A p \in PDRs : buffers'[p] = IF p \in P THEN <<>> ELSE buffers[p]
  BY DEF Emptied
<1>7. CASE /\ drain' = [p \in PDRs |-> IF p \in P THEN buffers[p] ELSE <<>>]
           /\ gone' = gone
  <2> DEFINE l == [k \in 1 .. n |-> IF \E p \in P : loc[k] = <<"buffer", p>>
                                    THEN <<"drain", loc[k][2]>> ELSE loc[k]]
  <2>1. ASSUME NEW k \in 1 .. n, NEW p \in P, loc[k] = <<"buffer", p>>
        PROVE  l[k] = <<"drain", p>>
    <3>1. loc[k][2] = p /\ l[k] = <<"drain", loc[k][2]>>
      BY <2>1
    <3> QED BY ONLY <3>1
  <2>2. \A k \in 1 .. n :
           (\A p \in P : loc[k] # <<"buffer", p>>) => l[k] = loc[k]
    OBVIOUS
  <2>3. l \in [1 .. n -> Fates]
    <3>1. \A p \in P : <<"drain", p>> \in Fates
      BY DEF Fates
    <3>2. \A k \in 1 .. n : l[k] \in Fates
      BY <2>1, <2>2, <3>1
    <3> QED BY <3>2
  <2> HIDE DEF l
  <2>4. ASSUME NEW p \in PDRs
        PROVE  /\ ToSet(buffers'[p]) = Where(l, n, <<"buffer", p>>)
               /\ ToSet(drain'[p]) = Where(l, n, <<"drain", p>>)
    <3>1. \A k \in 1 .. n : loc[k] # <<"drain", p>>
      BY <1>5 DEF Where
    <3>2. /\ ToSet(buffers[p]) = Where(loc, n, <<"buffer", p>>)
          /\ drain'[p] = IF p \in P THEN buffers[p] ELSE <<>>
      BY <1>2, <1>7 DEF Placed
    <3>3. CASE p \in P
      <4>1. \A k \in 1 .. n : l[k] = <<"drain", p>> <=> loc[k] = <<"buffer", p>>
        <5>1. ASSUME NEW k \in 1 .. n, NEW q \in P, loc[k] = <<"buffer", q>>
              PROVE  l[k] = <<"drain", p>> <=> loc[k] = <<"buffer", p>>
          <6>1. l[k] = <<"drain", q>>
            BY <2>1, <5>1
          <6> QED BY <5>1, <6>1
        <5>2. ASSUME NEW k \in 1 .. n, \A q \in P : loc[k] # <<"buffer", q>>
              PROVE  l[k] = <<"drain", p>> <=> loc[k] = <<"buffer", p>>
          BY <2>2, <3>1, <3>3, <5>2
        <5> QED BY <5>1, <5>2
      <4>2. \A k \in 1 .. n : l[k] # <<"buffer", p>>
        BY <2>1, <2>2, <3>3
      <4>3. /\ Where(l, n, <<"drain", p>>) = Where(loc, n, <<"buffer", p>>)
            /\ Where(l, n, <<"buffer", p>>) = {}
        BY <4>1, <4>2 DEF Where
      <4> QED BY <1>4, <1>6, <3>2, <3>3, <4>3
    <3>4. CASE p \notin P
      <4>1. \A k \in 1 .. n : l[k] # <<"drain", p>>
        BY <2>1, <2>2, <3>1, <3>4
      <4>2. \A k \in 1 .. n : l[k] = <<"buffer", p>> <=> loc[k] = <<"buffer", p>>
        BY <2>1, <2>2, <3>4
      <4>3. /\ Where(l, n, <<"drain", p>>) = {}
            /\ Where(l, n, <<"buffer", p>>) = Where(loc, n, <<"buffer", p>>)
        BY <4>1, <4>2 DEF Where
      <4> QED BY <1>4, <1>6, <3>2, <3>4, <4>3
    <3> QED BY <3>3, <3>4
  <2>5. /\ Where(l, n, <<"out", None>>) = Where(loc, n, <<"out", None>>)
        /\ Where(l, n, <<"gone", None>>) = Where(loc, n, <<"gone", None>>)
    BY <2>1, <2>2 DEF Where
  <2>6. Placed(l, n)'
    <3>1. Sent' = Where(l, n, <<"out", None>>) /\ gone' = Where(l, n, <<"gone", None>>)
      BY <1>2, <1>3, <1>7, <2>5 DEF Placed
    <3> QED BY <2>3, <2>4, <3>1 DEF Placed, ToSet
  <2>7. PlaceInv'
    BY <1>1, <2>3, <2>6 DEF PacketInv, PlaceInv
  <2>8. ASSUME NEW p \in PDRs
        PROVE  /\ Ascending(drain'[p]) /\ Ascending(buffers'[p])
               /\ drain'[p] = <<>> \/ buffers'[p] = <<>>
               /\ \A i, j \in Past(p) : i < j => out[i].pkt < out[j].pkt
               /\ \A i \in Past(p) :
                    /\ \A j \in DOMAIN drain'[p] : out[i].pkt < drain'[p][j]
                    /\ \A j \in DOMAIN buffers'[p] : out[i].pkt < buffers'[p][j]
    <3>1. /\ Ascending(buffers[p]) /\ Ascending(<<>>)
          /\ \A i, j \in Past(p) : i < j => out[i].pkt < out[j].pkt
          /\ \A i \in Past(p) :
               \A j \in DOMAIN buffers[p] : out[i].pkt < buffers[p][j]
      BY DEF PacketInv, OrderInv, Ascending
    <3>2. drain'[p] = IF p \in P THEN buffers[p] ELSE <<>>
      BY <1>7
    <3>3. buffers'[p] = IF p \in P THEN <<>> ELSE buffers[p]
      BY <1>6
    <3>4. DOMAIN <<>> = {}
      OBVIOUS
    <3>5. CASE p \in P
      BY ONLY <3>1, <3>2, <3>3, <3>4, <3>5
    <3>6. CASE p \notin P
      BY ONLY <3>1, <3>2, <3>3, <3>4, <3>6
    <3> QED BY <3>5, <3>6
  <2>9. \A p \in PDRs : Past(p)' = Past(p)
    BY DEF Past
  <2>10. OrderInv'
    BY <2>8, <2>9 DEF OrderInv, Ascending
  <2> QED BY <2>7, <2>10
<1>8. CASE gone' = gone \cup Held(P) /\ drain' = drain
  <2> DEFINE l == [k \in 1 .. n |-> IF \E p \in P : loc[k] = <<"buffer", p>>
                                    THEN <<"gone", None>> ELSE loc[k]]
  <2>1. \A k \in 1 .. n : \A p \in P :
           loc[k] = <<"buffer", p>> => l[k] = <<"gone", None>>
    OBVIOUS
  <2>2. \A k \in 1 .. n :
           (\A p \in P : loc[k] # <<"buffer", p>>) => l[k] = loc[k]
    OBVIOUS
  <2>3. l \in [1 .. n -> Fates]
    <3>1. <<"gone", None>> \in Fates
      BY DEF Fates
    <3>2. \A k \in 1 .. n : l[k] \in Fates
      BY <2>1, <2>2, <3>1
    <3> QED BY <3>2
  <2> HIDE DEF l
  <2>4. ASSUME NEW p \in PDRs
        PROVE  /\ ToSet(buffers'[p]) = Where(l, n, <<"buffer", p>>)
               /\ ToSet(drain'[p]) = Where(l, n, <<"drain", p>>)
    <3>1. \A k \in 1 .. n : loc[k] # <<"drain", p>>
      BY <1>5 DEF Where
    <3>2. ToSet(buffers[p]) = Where(loc, n, <<"buffer", p>>) /\ drain'[p] = <<>>
      BY <1>2, <1>5, <1>8 DEF Placed
    <3>3. Where(l, n, <<"drain", p>>) = {}
      <4>1. \A k \in 1 .. n : l[k] # <<"drain", p>>
        BY <2>1, <2>2, <3>1
      <4> QED BY <4>1 DEF Where
    <3>4. CASE p \in P
      <4>1. \A k \in 1 .. n : l[k] # <<"buffer", p>>
        BY <2>1, <2>2, <3>4
      <4>2. Where(l, n, <<"buffer", p>>) = {}
        BY <4>1 DEF Where
      <4> QED BY <1>4, <1>6, <3>2, <3>3, <3>4, <4>2
    <3>5. CASE p \notin P
      <4>1. \A k \in 1 .. n : l[k] = <<"buffer", p>> <=> loc[k] = <<"buffer", p>>
        <5>1. ASSUME NEW k \in 1 .. n, NEW q \in P, loc[k] = <<"buffer", q>>
              PROVE  l[k] = <<"buffer", p>> <=> loc[k] = <<"buffer", p>>
          <6>1. l[k] = <<"gone", None>> /\ q # p
            BY <2>1, <3>5, <5>1
          <6> QED BY <5>1, <6>1
        <5>2. ASSUME NEW k \in 1 .. n, \A q \in P : loc[k] # <<"buffer", q>>
              PROVE  l[k] = <<"buffer", p>> <=> loc[k] = <<"buffer", p>>
          BY <2>2, <5>2
        <5> QED BY <5>1, <5>2
      <4>2. Where(l, n, <<"buffer", p>>) = Where(loc, n, <<"buffer", p>>)
        BY <4>1 DEF Where
      <4> QED BY <1>4, <1>6, <3>2, <3>3, <3>5, <4>2
    <3> QED BY <3>4, <3>5
  <2>5. Where(l, n, <<"out", None>>) = Where(loc, n, <<"out", None>>)
    BY <2>1, <2>2 DEF Where
  <2>6. Where(l, n, <<"gone", None>>) = gone'
    <3>1. \A p \in P : ToSet(buffers[p]) = Where(loc, n, <<"buffer", p>>)
      BY <1>2 DEF Placed
    <3>2. \A k : k \in Held(P) <=> \E p \in P : k \in ToSet(buffers[p])
      BY DEF Held
    <3>3. \A k : k \in Held(P) <=> k \in 1 .. n /\ \E p \in P : loc[k] = <<"buffer", p>>
      BY <3>1, <3>2 DEF Where
    <3>4. gone = Where(loc, n, <<"gone", None>>)
      BY <1>2 DEF Placed
    <3>5. \A k \in 1 .. n : l[k] = <<"gone", None>> <=>
              (loc[k] = <<"gone", None>> \/ \E p \in P : loc[k] = <<"buffer", p>>)
      BY <2>1, <2>2
    <3>6. \A k : k \in Where(l, n, <<"gone", None>>) <=> k \in gone \/ k \in Held(P)
      BY <3>3, <3>4, <3>5 DEF Where
    <3> QED BY <1>8, <3>6
  <2>7. Placed(l, n)'
    <3>1. Sent' = Where(l, n, <<"out", None>>)
      BY <1>2, <1>3, <2>5 DEF Placed
    <3> QED BY <2>3, <2>4, <2>6, <3>1 DEF Placed, ToSet
  <2>8. PlaceInv'
    BY <1>1, <2>3, <2>7 DEF PacketInv, PlaceInv
  <2>9. ASSUME NEW p \in PDRs
        PROVE  /\ Ascending(drain'[p]) /\ Ascending(buffers'[p])
               /\ drain'[p] = <<>> \/ buffers'[p] = <<>>
               /\ \A i, j \in Past(p) : i < j => out[i].pkt < out[j].pkt
               /\ \A i \in Past(p) :
                    /\ \A j \in DOMAIN drain'[p] : out[i].pkt < drain'[p][j]
                    /\ \A j \in DOMAIN buffers'[p] : out[i].pkt < buffers'[p][j]
    <3>1. /\ Ascending(buffers[p]) /\ Ascending(<<>>)
          /\ \A i, j \in Past(p) : i < j => out[i].pkt < out[j].pkt
          /\ \A i \in Past(p) :
               \A j \in DOMAIN buffers[p] : out[i].pkt < buffers[p][j]
      BY DEF PacketInv, OrderInv, Ascending
    <3>2. drain'[p] = <<>>
      BY <1>5, <1>8
    <3>3. buffers'[p] = IF p \in P THEN <<>> ELSE buffers[p]
      BY <1>6
    <3>4. DOMAIN <<>> = {}
      OBVIOUS
    <3> QED BY ONLY <3>1, <3>2, <3>3, <3>4
  <2>10. \A p \in PDRs : Past(p)' = Past(p)
    BY DEF Past
  <2>11. OrderInv'
    BY <2>9, <2>10 DEF OrderInv, Ascending
  <2> QED BY <2>8, <2>11
<1> QED BY <1>7, <1>8

-----------------------------------------------------------------------------
(* Notifications.                                                          *)

\* a worker is about to make a report for the PDR, or to arm its timer
Announcing(p) == \E w \in Workers : /\ work[w].at \in {"notify", "post"}
                                    /\ work[w].b.pdr = p

LEMMA HeldOne == \A p : Held({p}) = ToSet(buffers[p])
BY DEF Held

\* What was announced stays so, if the debt does not grow.
LEMMA NoticeKept ==
    ASSUME PacketInv, Settled' \in {Settled, Settled + 1}, owed' \subseteq owed,
           \A p \in PDRs :
              \/ ToSet(buffers'[p]) \cap owed' = {}
              \/ /\ ToSet(buffers'[p]) \cap owed' \subseteq ToSet(buffers[p])
                 /\ pending[p] # None => pending'[p] # None
                 /\ Announcing(p) => Announcing(p)' \/ pending'[p] # None,
           ~known' => \A p \in PDRs : buffers'[p] = <<>>
    PROVE  NoticeInv'
<1>1. owed \subseteq 1 .. Settled /\ Settled \in Nat
  BY Counted DEF PacketInv, NoticeInv
<1>2. owed' \subseteq 1 .. Settled'
  BY <1>1
<1>3. ASSUME NEW p \in PDRs, ToSet(buffers'[p]) \cap owed' # {}
      PROVE  pending'[p] # None \/ Announcing(p)'
  <2>1. ToSet(buffers[p]) \cap owed # {}
    BY <1>3
  <2>2. pending[p] # None \/ Announcing(p)
    BY <2>1, HeldOne DEF PacketInv, NoticeInv, HeldAreAnnounced, Announcing
  <2> QED BY <1>3, <2>2
<1>4. \A p \in PDRs : Held({p})' = ToSet(buffers'[p])
  BY DEF Held, ToSet
<1>5. HeldAreAnnounced'
  BY <1>3, <1>4 DEF HeldAreAnnounced, Announcing
<1> QED BY <1>2, <1>5 DEF NoticeInv

\* A session that goes holds nothing; notifications cancelled otherwise are of
\* PDRs whose debt is cancelled too.
LEMMA DeleteNotice ==
    ASSUME PacketInv, Settled' = Settled, UNCHANGED <<buffers, work>>,
           NEW C \in SUBSET PDRs, deleteSessionIfEmpty(C), owed' = owed \ Held(C)
    PROVE  NoticeInv'
<1>1. \A p \in PDRs : Announcing(p)' = Announcing(p)
  BY DEF Announcing
<1>2. \A p \in C : ToSet(buffers[p]) \cap owed' = {}
  BY DEF Held
<1>3. \/ known' = FALSE /\ \A p \in PDRs : buffers[p] = <<>>
      \/ known' = TRUE /\ cancelPendingDDN(C)
  BY DEF deleteSessionIfEmpty
<1>4. CASE known' = FALSE /\ \A p \in PDRs : buffers[p] = <<>>
  <2>1. \A p \in PDRs : ToSet(buffers'[p]) = {}
    BY <1>4 DEF ToSet
  <2> QED BY <1>4, <2>1, NoticeKept
<1>5. CASE known' = TRUE /\ cancelPendingDDN(C)
  <2>1. \A p \in PDRs \ C : pending'[p] = pending[p]
    BY <1>5 DEF cancelPendingDDN
  <2> QED BY <1>1, <1>2, <1>5, <2>1, NoticeKept
<1> QED BY <1>3, <1>4, <1>5

LEMMA RulesNotice ==
    ASSUME PacketInv, Control, \A f \in FARs, r \in FARRules : ~ UpdateFAR(f, r)
    PROVE  PlaceInv' /\ OrderInv' /\ IntakeInv' /\ NoticeInv'
<1>1. UNCHANGED <<buffers, queue, arrived, work, drain, out, gone>>
  BY DEF Control, CreatePDR, UpdatePDR, RemovePDR, CreateFAR, RemoveFAR,
     PutBAR, RemoveBAR, PutURR, RemoveURR, PutQER, RemoveQER, intake, release,
     fate
<1>2. IntakeInv' /\ Settled' = Settled
  BY <1>1, StillCounted
<1>3. PlaceInv' /\ OrderInv'
  BY <1>1, <1>2, StillPlaced
<1>4. {} \in SUBSET PDRs /\ owed = owed \ Held({})
  BY DEF Held
<1>5. ASSUME NEW p \in PDRs, RemovePDR(p) PROVE NoticeInv'
  <2>1. deleteSessionIfEmpty({p}) /\ owed' = owed \ Held({p})
    BY <1>5 DEF RemovePDR
  <2>2. {p} \in SUBSET PDRs
    OBVIOUS
  <2> QED BY <1>1, <1>2, <2>1, <2>2, DeleteNotice
<1>6. ASSUME NEW f \in FARs, RemoveFAR(f) PROVE NoticeInv'
  <2>1. deleteSessionIfEmpty(Users(f)) /\ owed' = owed \ Held(Users(f))
    BY <1>6 DEF RemoveFAR
  <2>2. Users(f) \in SUBSET PDRs
    BY DEF Users
  <2> QED BY <1>1, <1>2, <2>1, <2>2, DeleteNotice
<1>7. ASSUME \/ \E b \in BARs : RemoveBAR(b)
             \/ \E u \in URRs : RemoveURR(u)
             \/ RemoveQER
      PROVE  NoticeInv'
  <2>1. deleteSessionIfEmpty({}) /\ owed' = owed
    BY <1>7 DEF RemoveBAR, RemoveURR, RemoveQER
  <2> QED BY <1>1, <1>2, <1>4, <2>1, DeleteNotice
<1>8. ASSUME \/ \E p \in PDRs, r \in PDRRules :
                   CreatePDR(p, r) \/ UpdatePDR(p, r)
             \/ \E f \in FARs, r \in FARRules : CreateFAR(f, r)
             \/ \E b \in BARs, r \in BARRules : PutBAR(b, r)
             \/ \E u \in URRs, r \in URRRules : PutURR(u, r)
             \/ PutQER
      PROVE  NoticeInv'
  <2>1. /\ pending' = pending /\ owed' = owed
        /\ known' = TRUE \/ known' = known
    BY <1>8 DEF CreatePDR, UpdatePDR, CreateFAR, PutBAR, PutURR, PutQER, ddn
  <2>2. \A p \in PDRs : Announcing(p)' = Announcing(p)
    BY <1>1 DEF Announcing
  <2>3. ~known' => \A p \in PDRs : buffers'[p] = <<>>
    BY <1>1, <2>1 DEF PacketInv, NoticeInv
  <2> QED BY <1>1, <1>2, <2>1, <2>2, <2>3, NoticeKept
<1>9. NoticeInv'
  BY <1>5, <1>6, <1>7, <1>8 DEF Control
<1> QED BY <1>2, <1>3, <1>9

LEMMA UpdateFARNotice ==
    ASSUME PacketInv, NEW f \in FARs, NEW r \in FARRules, UpdateFAR(f, r)
    PROVE  PlaceInv' /\ OrderInv' /\ IntakeInv' /\ NoticeInv'
<1> DEFINE emptied == IF "BUFF" \in fars[f].act
                      THEN {p \in Users(f) : buffers[p] # <<>>} ELSE {}
<1>1. PICK P \in SUBSET PDRs : P = emptied
  BY DEF Users
<1>2. /\ cancelPendingDDN(P) /\ buffers' = Emptied(P) /\ owed' = owed \ Held(P)
      /\ \/ /\ drain' = [p \in PDRs |-> IF p \in P THEN buffers[p] ELSE <<>>]
            /\ gone' = gone
         \/ gone' = gone \cup Held(P) /\ drain' = drain
      /\ UNCHANGED <<known, queue, arrived, work, out>> /\ Unlocked
  BY <1>1 DEF UpdateFAR, intake
<1> HIDE DEF emptied
<1>3. IntakeInv' /\ Settled' = Settled
  BY <1>2, StillCounted
<1>4. PlaceInv' /\ OrderInv'
  BY <1>1, <1>2, <1>3, ReleaseStep
<1>5. \A p \in PDRs : Announcing(p)' = Announcing(p)
  BY <1>2 DEF Announcing
<1>6. \A p \in P : buffers'[p] = <<>> /\ ToSet(buffers'[p]) = {}
  BY <1>2 DEF Emptied, ToSet
<1>7. \A p \in PDRs \ P : buffers'[p] = buffers[p] /\ pending'[p] = pending[p]
  BY <1>2 DEF Emptied, cancelPendingDDN
<1>8. ~known' => \A p \in PDRs : buffers'[p] = <<>>
  BY <1>2, <1>6, <1>7 DEF PacketInv, NoticeInv
<1>9. NoticeInv'
  BY <1>2, <1>3, <1>5, <1>6, <1>7, <1>8, NoticeKept
<1> QED BY <1>3, <1>4, <1>9

\* Workers.  A packet buffered for a FAR that notifies is owed, and its worker
\* is about to announce it; one that posts or arms the timer keeps its word.
LEMMA WorkerNotice ==
    ASSUME PacketInv, NEW w \in Workers, WorkerStep(w)
    PROVE  PlaceInv' /\ OrderInv' /\ IntakeInv' /\ NoticeInv'
<1>1. \A v \in Workers : v # w => work'[v] = work[v]
  BY DEF WorkerStep, Classify, Publish, bufferPacket, PostNow,
     scheduleNotification, updateUsage, ReportThreshold, Goto, PacketInv, TypeOK
<1>2. ASSUME NEW p \in PDRs,
             work[w].at \notin {"notify", "post"} \/ work[w].b.pdr # p,
             Announcing(p)
      PROVE  Announcing(p)'
  BY <1>1, <1>2 DEF Announcing
<1>3. ~known => \A p \in PDRs : buffers[p] = <<>>
  BY DEF PacketInv, NoticeInv
<1>4. Idle.at = "idle"
  BY DEF Idle
<1>5. CASE Classify(w)
  <2>1. /\ IntakeInv' /\ PlaceInv' /\ OrderInv'
        /\ Settled' \in {Settled, Settled + 1}
    BY <1>5, ClassifyStep
  <2>2. UNCHANGED <<known, buffers, owed, pending>> /\ work[w].at = "idle"
    BY <1>4, <1>5 DEF Classify, rules, ddn
  <2>3. \A p \in PDRs : Announcing(p) => Announcing(p)'
    BY <1>2, <2>2
  <2>4. NoticeInv'
    BY <1>3, <2>1, <2>2, <2>3, NoticeKept
  <2> QED BY <2>1, <2>4
<1>6. CASE Publish(w)
  <2>1. IntakeInv' /\ PlaceInv' /\ OrderInv' /\ Settled' = Settled + 1
    BY <1>6, PublishStep
  <2>2. UNCHANGED <<known, buffers, owed, pending>> /\ work[w].at = "publish"
    BY <1>6 DEF Publish, rules, ddn
  <2>3. \A p \in PDRs : Announcing(p) => Announcing(p)'
    BY <1>2, <2>2
  <2>4. NoticeInv'
    BY <1>3, <2>1, <2>2, <2>3, NoticeKept
  <2> QED BY <2>1, <2>4
<1>7. CASE bufferPacket(w)
  <2> DEFINE b == work[w].b
             at == IF "NOCP" \notin b.act THEN "count"
                   ELSE IF b.bar.delay THEN "notify" ELSE "post"
  <2>1. /\ IntakeInv' /\ PlaceInv' /\ OrderInv' /\ Settled' = Settled + 1
        /\ work[w].pkt = Settled + 1 /\ Settled \in Nat
        /\ \A p \in PDRs : ToSet(buffers'[p]) \subseteq ToSet(buffers[p]) \cup
                             IF known /\ p = b.pdr THEN {Settled + 1} ELSE {}
    BY <1>7, bufferStep
  <2>2. /\ UNCHANGED <<known, pending>> /\ work[w].at = "buffer"
        /\ ~known => buffers' = buffers
        /\ owed' = (IF "NOCP" \in b.act THEN owed \cup {work[w].pkt} ELSE owed)
                     \ gone'
        /\ Goto(w, at)
    BY <1>7 DEF bufferPacket, rules, ddn
  <2>3. \A p \in PDRs : Announcing(p) => Announcing(p)'
    BY <1>2, <2>2
  <2>4. owed \subseteq 1 .. Settled
    BY DEF PacketInv, NoticeInv
  <2>5. ~known' => \A p \in PDRs : buffers'[p] = <<>>
    BY <1>3, <2>2
  <2>6. CASE "NOCP" \notin b.act
    <3>1. owed' \subseteq owed
      BY <2>2, <2>6
    <3>2. Settled + 1 \notin owed
      BY <2>1, <2>4
    <3>3. \A p \in PDRs : ToSet(buffers'[p]) \cap owed' \subseteq ToSet(buffers[p])
      BY <2>1, <3>1, <3>2
    <3>4. NoticeInv'
      BY <2>1, <2>2, <2>3, <2>5, <3>1, <3>3, NoticeKept
    <3> QED BY <2>1, <3>4
  <2>7. CASE "NOCP" \in b.act
    <3>1. owed' \subseteq owed \cup {Settled + 1}
      BY <2>1, <2>2, <2>7
    <3>2. owed' \subseteq 1 .. Settled'
      BY <2>1, <2>4, <3>1
    <3>3. PICK a \in {"notify", "post"} : a = at
      BY <2>7
    <3> HIDE DEF at
    <3>4. work'[w].at = a /\ work'[w].b = b
      <4>1. Goto(w, a) /\ work[w].at # "idle" /\ TypeOK
        BY <2>2, <3>3 DEF PacketInv
      <4>2. work' = [work EXCEPT ![w] = [at |-> a, pkt |-> work[w].pkt, b |-> b]]
        BY <3>3, <4>1, JobType
      <4> QED BY <4>1, <4>2 DEF TypeOK
    <3>0. PICK p0 : p0 = b.pdr
      OBVIOUS
    <3>5. Announcing(p0)'
      BY <3>0, <3>3, <3>4 DEF Announcing
    <3>6. ASSUME NEW p \in PDRs, ToSet(buffers'[p]) \cap owed' # {}
          PROVE  pending'[p] # None \/ Announcing(p)'
      <4>1. CASE p = b.pdr
        BY <3>0, <3>5, <4>1
      <4>2. CASE p # b.pdr
        <5>1. ToSet(buffers'[p]) \subseteq ToSet(buffers[p])
          BY <2>1, <4>2
        <5>2. \A k \in ToSet(buffers[p]) : k # Settled + 1
          <6>1. PICK loc : Placed(loc, Settled)
            BY DEF PacketInv, PlaceInv
          <6>2. \A i \in DOMAIN buffers[p] : buffers[p][i] \in 1 .. Settled
            BY <6>1, SettledOnly
          <6> QED BY <2>1, <6>2 DEF ToSet
        <5>3. ToSet(buffers[p]) \cap owed # {}
          BY <3>1, <3>6, <5>1, <5>2
        <5>4. pending[p] # None \/ Announcing(p)
          BY <5>3, HeldOne DEF PacketInv, NoticeInv, HeldAreAnnounced, Announcing
        <5> QED BY <2>2, <2>3, <5>4
      <4> QED BY <4>1, <4>2
    <3>7. \A p \in PDRs : Held({p})' = ToSet(buffers'[p])
      BY DEF Held, ToSet
    <3>8. HeldAreAnnounced'
      BY <3>6, <3>7 DEF HeldAreAnnounced, Announcing
    <3>9. NoticeInv'
      BY <2>5, <3>2, <3>8 DEF NoticeInv
    <3> QED BY <2>1, <3>9
  <2> QED BY <2>6, <2>7
<1>8. ASSUME NEW j, work' = [work EXCEPT ![w] = j], work[w].at # "idle",
             work[w].at \notin {"publish", "buffer"},
             j.at \notin {"publish", "buffer"},
             UNCHANGED <<queue, arrived, buffers, drain, out, gone>>
      PROVE  IntakeInv' /\ PlaceInv' /\ OrderInv' /\ Settled' = Settled
  <2>1. IntakeInv' /\ Settled' = Settled
    BY <1>8, DecidedStep
  <2>2. PlaceInv' /\ OrderInv'
    BY <1>8, <2>1, StillPlaced
  <2> QED BY <2>1, <2>2
<1>9. CASE PostNow(w)
  <2>1. /\ UNCHANGED <<known, pending, queue, arrived, buffers, drain, out, gone>>
        /\ work[w].at = "post" /\ Goto(w, "count")
        /\ owed' = owed \ (ToSet(buffers[work[w].b.pdr]) \cup {work[w].pkt})
    BY <1>9 DEF PostNow, rules, ddn, intake, release, fate
  <2>2. PICK j : j.at = "count" /\ work' = [work EXCEPT ![w] = j]
    <3>1. work' = [work EXCEPT ![w] = [at |-> "count", pkt |-> work[w].pkt,
                                       b |-> work[w].b]]
      BY <2>1, JobType DEF PacketInv
    <3> QED BY <3>1
  <2>3. IntakeInv' /\ PlaceInv' /\ OrderInv' /\ Settled' = Settled
    BY <1>8, <2>1, <2>2
  <2>4. ASSUME NEW p \in PDRs
        PROVE  \/ ToSet(buffers'[p]) \cap owed' = {}
               \/ Announcing(p) => Announcing(p)'
    BY <1>2, <2>1
  <2>5. NoticeInv'
    BY <1>3, <2>1, <2>3, <2>4, NoticeKept
  <2> QED BY <2>3, <2>5
<1>10. CASE scheduleNotification(w)
  <2>1. /\ UNCHANGED <<known, owed, queue, arrived, buffers, drain, out, gone>>
        /\ work[w].at = "notify" /\ Goto(w, "count")
        /\ pending' = Armed(work[w].b.pdr)
    BY <1>10 DEF scheduleNotification, rules, intake, release, fate
  <2>2. /\ work[w] \in Jobs
        /\ work' = [work EXCEPT ![w] = [at |-> "count", pkt |-> work[w].pkt,
                                        b |-> work[w].b]]
    BY <2>1, JobType DEF PacketInv
  <2>3. PICK j : j.at = "count" /\ work' = [work EXCEPT ![w] = j]
    BY <2>2
  <2>4. IntakeInv' /\ PlaceInv' /\ OrderInv' /\ Settled' = Settled
    BY <1>8, <2>1, <2>3
  <2>5. PICK p0 \in PDRs : p0 = work[w].b.pdr
    BY <2>2 DEF Jobs, Bindings
  <2>6. pending \in [PDRs -> {None, "armed", "expired"}]
    BY DEF PacketInv, TypeOK
  <2>7. pending'[p0] # None /\ \A p \in PDRs : p # p0 => pending'[p] = pending[p]
    BY <2>1, <2>5, <2>6 DEF Armed
  <2>8. \A p \in PDRs : /\ pending[p] # None => pending'[p] # None
                        /\ Announcing(p) => Announcing(p)' \/ pending'[p] # None
    BY <1>2, <2>5, <2>7
  <2>9. NoticeInv'
    BY <1>3, <2>1, <2>4, <2>8, NoticeKept
  <2> QED BY <2>4, <2>9
<1>11. CASE updateUsage(w) \/ ReportThreshold(w)
  <2>1. /\ UNCHANGED <<known, pending, owed, queue, arrived, buffers, drain, out,
                       gone>>
        /\ work[w].at \in {"count", "report"}
    BY <1>11 DEF updateUsage, ReportThreshold, rules, ddn, intake, release, fate
  <2>2. PICK j \in {Idle, [work[w] EXCEPT !.at = "report"]} :
          work' = [work EXCEPT ![w] = j]
    BY <1>11 DEF updateUsage, ReportThreshold
  <2>0. j.at \in {"idle", "report"}
    <3>1. work[w] \in Jobs
      BY <1>4, <2>1 DEF PacketInv, TypeOK
    <3>2. [work[w] EXCEPT !.at = "report"].at = "report"
      BY <3>1 DEF Jobs
    <3> QED BY <1>4, <2>2, <3>2
  <2>3. IntakeInv' /\ PlaceInv' /\ OrderInv' /\ Settled' = Settled
    BY <1>8, <2>0, <2>1, <2>2
  <2>4. \A p \in PDRs : Announcing(p) => Announcing(p)'
    BY <1>2, <2>1
  <2>5. NoticeInv'
    BY <1>3, <2>1, <2>3, <2>4, NoticeKept
  <2> QED BY <2>3, <2>5
<1> QED
  BY <1>5, <1>6, <1>7, <1>9, <1>10, <1>11 DEF WorkerStep

-----------------------------------------------------------------------------
\* All steps keep PacketInv.
LEMMA PacketInvHolds == Spec => []PacketInv
<1>1. Init => PacketInv
  <2> SUFFICES ASSUME Init PROVE PacketInv
    OBVIOUS
  <2>1. TypeOK
    BY InitType
  <2>2. /\ \A w \in Workers : queue[w] = <<>> /\ work[w] = Idle
        /\ arrived = 0 /\ Len(queue[Shard]) = 0 /\ DOMAIN queue[Shard] = {}
    BY DEF Init
  <2>3. ~ Undecided
    BY <2>2 DEF Undecided, Idle
  <2>4. Passed = 0 /\ Settled = 0
    BY <2>2, <2>3 DEF Passed, Settled
  <2>5. IntakeInv
    BY <2>2, <2>3 DEF IntakeInv
  <2>6. PlaceInv
    <3> DEFINE loc == [k \in 1 .. 0 |-> <<"gone", None>>]
    <3>1. loc \in [1 .. 0 -> Fates] /\ \A x : Where(loc, 0, x) = {}
      BY DEF Where
    <3>2. /\ \A p \in PDRs : ToSet(buffers[p]) = {} /\ ToSet(drain[p]) = {}
          /\ Sent = {} /\ gone = {} /\ DOMAIN out = {}
      BY DEF Init, ToSet, Sent
    <3> HIDE DEF loc
    <3>3. Placed(loc, 0)
      BY <3>1, <3>2 DEF Placed
    <3> QED BY <2>4, <3>1, <3>2, <3>3 DEF PlaceInv
  <2>7. OrderInv
    BY DEF Init, OrderInv, Ascending, Past
  <2>8. NoticeInv
    BY DEF Init, NoticeInv, HeldAreAnnounced
  <2> QED BY <2>1, <2>5, <2>6, <2>7, <2>8 DEF PacketInv
<1>2. PacketInv /\ [Next]_vars => PacketInv'
  <2> SUFFICES ASSUME PacketInv, [Next]_vars PROVE PacketInv'
    OBVIOUS
  <2>1. TypeOK'
    BY NextType DEF PacketInv
  <2>2. ASSUME UNCHANGED <<buffers, queue, arrived, work, drain, out, gone>>
        PROVE  IntakeInv' /\ PlaceInv' /\ OrderInv' /\ Settled' = Settled
    <3>1. IntakeInv' /\ Settled' = Settled
      BY <2>2, StillCounted
    <3> QED BY <2>2, <3>1, StillPlaced
  <2>3. ~known => \A p \in PDRs : buffers[p] = <<>>
    BY DEF PacketInv, NoticeInv
  <2>4. CASE Control
    BY <2>1, <2>4, RulesNotice, UpdateFARNotice DEF PacketInv
  <2>5. ASSUME NEW p \in PDRs, DrainNext(p) PROVE PacketInv'
    <3>1. IntakeInv' /\ PlaceInv' /\ OrderInv' /\ Settled' = Settled
      BY <2>5, DrainNextStep
    <3>2. UNCHANGED <<known, owed, pending, buffers, work>>
      BY <2>5 DEF DrainNext, rules, ddn
    <3>3. \A q \in PDRs : Announcing(q)' = Announcing(q)
      BY <3>2 DEF Announcing
    <3>4. NoticeInv'
      BY <2>3, <3>1, <3>2, <3>3, NoticeKept
    <3> QED BY <2>1, <3>1, <3>4 DEF PacketInv
  <2>6. CASE \E w \in Workers : WorkerStep(w)
    BY <2>1, <2>6, WorkerNotice DEF PacketInv
  <2>7. CASE Arrive
    <3>1. IntakeInv' /\ Settled' = Settled
      BY <2>7, ArriveStep
    <3>2. UNCHANGED <<known, owed, pending, buffers, work, drain, out, gone>>
      BY <2>7 DEF Arrive, rules, ddn, release, fate
    <3>3. PlaceInv' /\ OrderInv'
      BY <3>1, <3>2, StillPlaced
    <3>4. \A q \in PDRs : Announcing(q)' = Announcing(q)
      BY <3>2 DEF Announcing
    <3>5. NoticeInv'
      BY <2>3, <3>1, <3>2, <3>4, NoticeKept
    <3> QED BY <2>1, <3>1, <3>3, <3>5 DEF PacketInv
  <2>8. ASSUME NEW p \in PDRs, TimerExpires(p) PROVE PacketInv'
    <3>1. UNCHANGED <<known, owed, buffers, queue, arrived, work, drain, out, gone>>
      BY <2>8 DEF TimerExpires, rules, intake, release, fate
    <3>2. IntakeInv' /\ PlaceInv' /\ OrderInv' /\ Settled' = Settled
      BY <2>2, <3>1
    <3>3. pending \in [PDRs -> {None, "armed", "expired"}]
      BY DEF PacketInv, TypeOK
    <3>4. \A q \in PDRs : pending[q] # None => pending'[q] # None
      BY <2>8, <3>3 DEF TimerExpires
    <3>5. \A q \in PDRs : Announcing(q)' = Announcing(q)
      BY <3>1 DEF Announcing
    <3>6. NoticeInv'
      BY <2>3, <3>1, <3>2, <3>4, <3>5, NoticeKept
    <3> QED BY <2>1, <3>2, <3>6 DEF PacketInv
  <2>9. ASSUME NEW p \in PDRs, fireNotification(p) PROVE PacketInv'
    <3>1. UNCHANGED <<known, buffers, queue, arrived, work, drain, out, gone>>
      BY <2>9 DEF fireNotification, rules, intake, release, fate
    <3>2. IntakeInv' /\ PlaceInv' /\ OrderInv' /\ Settled' = Settled
      BY <2>2, <3>1
    <3>3. pending \in [PDRs -> {None, "armed", "expired"}]
      BY DEF PacketInv, TypeOK
    <3>4. \A q \in PDRs : q # p => pending'[q] = pending[q]
      BY <2>9, <3>3 DEF fireNotification, Taken
    <3>5. \A q \in PDRs : Announcing(q)' = Announcing(q)
      BY <3>1 DEF Announcing
    <3>6. /\ owed' \subseteq owed
          /\ \/ ToSet(buffers'[p]) \cap owed' = {}
             \/ pending[p] = None
      <4>1. CASE pending[p] # None /\ known /\ buffers[p] # <<>>
        <5>1. owed' = owed \ Held({p})
          BY <2>9, <4>1 DEF fireNotification
        <5> QED BY <3>1, <5>1, HeldOne
      <4>2. CASE ~(pending[p] # None /\ known /\ buffers[p] # <<>>)
        <5>1. owed' = owed
          BY <2>9, <4>2 DEF fireNotification
        <5>2. pending[p] = None \/ buffers[p] = <<>>
          BY <2>3, <4>2
        <5>3. ToSet(<<>>) = {}
          BY DEF ToSet
        <5> QED BY <3>1, <5>1, <5>2, <5>3
      <4> QED BY <4>1, <4>2
    <3>7. \A q \in PDRs : \/ ToSet(buffers'[q]) \cap owed' = {}
                          \/ pending[q] # None => pending'[q] # None
      BY <3>4, <3>6
    <3>8. NoticeInv'
      BY <2>3, <3>1, <3>2, <3>5, <3>6, <3>7, NoticeKept
    <3> QED BY <2>1, <3>2, <3>8 DEF PacketInv
  <2>10. CASE \/ ServeReport \/ Egress \/ PostFired \/ emitPeriodicURRReports
              \/ PostPeriodic \/ UNCHANGED vars
    <3>1. /\ UNCHANGED <<buffers, queue, arrived, work, drain, out, gone>>
          /\ UNCHANGED <<known, owed, pending>>
      BY <2>10 DEF ServeReport, Egress, PostFired, emitPeriodicURRReports,
         PostPeriodic, vars, rules, ddn, intake, release, fate
    <3>2. IntakeInv' /\ PlaceInv' /\ OrderInv' /\ Settled' = Settled
      BY <2>2, <3>1
    <3>3. \A q \in PDRs : Announcing(q)' = Announcing(q)
      BY <3>1 DEF Announcing
    <3>4. NoticeInv'
      BY <2>3, <3>1, <3>2, <3>3, NoticeKept
    <3> QED BY <2>1, <3>2, <3>4 DEF PacketInv
  <2> QED
    BY <2>4, <2>5, <2>6, <2>7, <2>8, <2>9, <2>10 DEF Next
<1> QED BY <1>1, <1>2, PTL DEF Spec

\* A held packet for a FAR that notifies is not forgotten (bufferPacket,
\* scheduleBufferedNotification, fireBufferedNotification, removals), for any
\* numbers of PDRs, timers and packets.
THEOREM HeldStayAnnounced == Spec => []HeldAreAnnounced
<1>1. PacketInv => HeldAreAnnounced
  BY DEF PacketInv, NoticeInv
<1> QED BY <1>1, PacketInvHolds, PTL

\* The packets a PDR buffers are released in the order of their arrival
\* (workerIndexFor, bufferPacket, handleFARTransitionLocked).
THEOREM ReleasesInOrder == Spec => []ReleasedInOrder
<1>1. PacketInv => ReleasedInOrder
  <2> SUFFICES ASSUME PacketInv, NEW p \in PDRs
               PROVE  LET waiting == drain[p] \o buffers[p]
                          past    == {i \in DOMAIN out : out[i].pdr = p /\ out[i].held}
                      IN /\ Ascending(waiting)
                         /\ \A i, j \in past : i < j => out[i].pkt < out[j].pkt
                         /\ \A i \in past : \A j \in DOMAIN waiting :
                              out[i].pkt < waiting[j]
    BY DEF ReleasedInOrder
  <2>1. drain[p] \in Seq(Packets) /\ buffers[p] \in Seq(Packets)
    BY DEF PacketInv, TypeOK
  <2>2. /\ Ascending(drain[p]) /\ Ascending(buffers[p])
        /\ drain[p] = <<>> \/ buffers[p] = <<>>
        /\ \A i, j \in Past(p) : i < j => out[i].pkt < out[j].pkt
        /\ \A i \in Past(p) :
             /\ \A j \in DOMAIN drain[p] : out[i].pkt < drain[p][j]
             /\ \A j \in DOMAIN buffers[p] : out[i].pkt < buffers[p][j]
    BY DEF PacketInv, OrderInv
  <2>3. drain[p] \o buffers[p] \in {drain[p], buffers[p]}
    <3>1. CASE drain[p] = <<>>
      BY <2>1, <3>1, ConcatEmptySeq
    <3>2. CASE buffers[p] = <<>>
      BY <2>1, <3>2, ConcatEmptySeq
    <3> QED BY <2>2, <3>1, <3>2
  <2>4. PICK s \in {drain[p], buffers[p]} : s = drain[p] \o buffers[p]
    BY <2>3
  <2>5. /\ Ascending(s)
        /\ \A i \in Past(p) : \A j \in DOMAIN s : out[i].pkt < s[j]
    BY ONLY <2>2, <2>4
  <2> QED BY <2>2, <2>4, <2>5 DEF Past
<1> QED BY <1>1, PacketInvHolds, PTL

\* What is at each place, by the invariant.
LEMMA PlacesAre ==
    ASSUME PacketInv, NEW loc, Placed(loc, Settled)
    PROVE  /\ \A w \in Workers : w # Shard => /\ At(<<"queue", w>>) = {}
                                              /\ At(<<"work", w>>) = {}
           /\ At(<<"queue", Shard>>) = (Passed + 1) .. arrived
           /\ At(<<"work", Shard>>) = IF Undecided THEN {Passed} ELSE {}
           /\ \A x \in Fates : At(x) = Where(loc, Settled, x)
<1>1. /\ \A w : At(<<"queue", w>>) = ToSet(queue[w])
      /\ \A w : At(<<"work", w>>) = IF work[w].at \in {"publish", "buffer"}
                                    THEN {work[w].pkt} ELSE {}
  BY DEF At
<1>2. /\ \A p : At(<<"buffer", p>>) = ToSet(buffers[p])
      /\ \A p : At(<<"drain", p>>) = ToSet(drain[p])
      /\ At(<<"out", None>>) = Sent
      /\ At(<<"gone", None>>) = gone
  BY DEF At, Sent
<1>3. \A w \in Workers : w # Shard => At(<<"queue", w>>) = {} /\ At(<<"work", w>>) = {}
  <2>1. ToSet(<<>>) = {} /\ Idle.at = "idle"
    BY DEF ToSet, Idle
  <2>2. \A w \in Workers : w # Shard => queue[w] = <<>> /\ work[w] = Idle
    BY DEF PacketInv, IntakeInv
  <2>3. ASSUME NEW w \in Workers, w # Shard
        PROVE  At(<<"queue", w>>) = {} /\ At(<<"work", w>>) = {}
    <3>1. At(<<"queue", w>>) = ToSet(queue[w]) /\ queue[w] = <<>>
      BY <1>1, <2>2, <2>3
    <3>2. work[w].at \notin {"publish", "buffer"}
      BY <2>1, <2>2, <2>3
    <3>3. At(<<"work", w>>) = {}
      BY <1>1, <3>2
    <3> QED BY <2>1, <3>1, <3>3
  <2> QED BY <2>3
<1>4. At(<<"queue", Shard>>) = (Passed + 1) .. arrived
  <2>1. PICK q : q = queue[Shard]
    OBVIOUS
  <2>2. /\ q \in Seq(Packets) /\ DOMAIN q = 1 .. Len(q) /\ Len(q) \in Nat
    BY <2>1 DEF PacketInv, TypeOK
  <2>3. Passed = arrived - Len(q) /\ \A i \in DOMAIN q : q[i] = Passed + i
    BY <2>1 DEF Passed, PacketInv, IntakeInv
  <2>4. Passed \in Nat /\ arrived \in Nat
    BY Counted DEF PacketInv
  <2>5. \A k \in (Passed + 1) .. arrived : k - Passed \in DOMAIN q /\ q[k - Passed] = k
    BY <2>2, <2>3, <2>4
  <2>6. \A i \in DOMAIN q : q[i] \in (Passed + 1) .. arrived
    BY <2>2, <2>3, <2>4
  <2>7. ToSet(q) = {q[i] : i \in DOMAIN q}
    BY DEF ToSet
  <2>8. \A k \in (Passed + 1) .. arrived : k \in ToSet(q)
    <3>1. ASSUME NEW k \in (Passed + 1) .. arrived PROVE k \in ToSet(q)
      <4>1. k - Passed \in DOMAIN q /\ q[k - Passed] = k
        BY <2>5, <3>1
      <4> QED BY ONLY <2>7, <4>1
    <3> QED BY <3>1
  <2>9. ToSet(q) \subseteq (Passed + 1) .. arrived
    BY ONLY <2>6, <2>7
  <2>10. ToSet(q) = (Passed + 1) .. arrived
    BY ONLY <2>8, <2>9
  <2> QED BY <1>1, <2>1, <2>10
<1>5. At(<<"work", Shard>>) = IF Undecided THEN {Passed} ELSE {}
  BY <1>1 DEF PacketInv, IntakeInv, Undecided
<1>6. ASSUME NEW x \in Fates PROVE At(x) = Where(loc, Settled, x)
  <2>1. \/ \E p \in PDRs : x = <<"buffer", p>>
        \/ \E p \in PDRs : x = <<"drain", p>>
        \/ x = <<"out", None>>
        \/ x = <<"gone", None>>
    <3>1. CASE x \in {"buffer", "drain"} \X PDRs
      <4>1. x = <<x[1], x[2]>> /\ x[1] \in {"buffer", "drain"} /\ x[2] \in PDRs
        BY ONLY <3>1
      <4> QED BY <4>1
    <3>2. CASE x \in {"out", "gone"} \X {None}
      <4>1. PICK a \in {"out", "gone"}, o \in {None} : x = <<a, o>>
        BY <3>2
      <4> QED BY <4>1
    <3> QED BY <3>1, <3>2 DEF Fates
  <2> QED BY <1>2, <2>1 DEF Placed
<1> QED BY <1>3, <1>4, <1>5, <1>6

\* Every packet that arrived is in exactly one place, and there once: none is
\* forwarded twice, forwarded after being dropped, or mislaid (bufferPacket,
\* handleFARTransitionLocked, publishOutcome), whatever workers, main and
\* timers do.
THEOREM PacketsStayAccounted == Spec => []PacketsAccounted
<1>1. PacketInv => PacketsAccounted
  <2> SUFFICES ASSUME PacketInv PROVE PacketsAccounted
    OBVIOUS
  <2>1. PICK loc \in [1 .. Settled -> Fates] : Placed(loc, Settled)
    BY DEF PacketInv, PlaceInv
  <2>2. /\ Passed \in Nat /\ Passed <= arrived /\ arrived \in Nat
        /\ arrived <= MaxPkts /\ Settled \in Nat /\ Settled <= Passed
        /\ Undecided => Passed = Settled + 1
        /\ ~ Undecided => Passed = Settled
    BY Counted DEF PacketInv
  <2>3. /\ \A w \in Workers : w # Shard => /\ At(<<"queue", w>>) = {}
                                           /\ At(<<"work", w>>) = {}
        /\ At(<<"queue", Shard>>) = (Passed + 1) .. arrived
        /\ At(<<"work", Shard>>) = IF Undecided THEN {Passed} ELSE {}
        /\ \A x \in Fates : At(x) = Where(loc, Settled, x)
    BY <2>1, PlacesAre
  <2>4. \A x : x \in Places <=> \/ \E w \in Workers : x = <<"queue", w>>
                                \/ \E w \in Workers : x = <<"work", w>>
                                \/ x \in Fates
    BY DEF Places, Fates
  <2>5. /\ <<"queue", Shard>> \in Places /\ <<"work", Shard>> \in Places
        /\ Fates \subseteq Places
    BY <2>4
  <2>6. ASSUME NEW k \in Packets, NEW x \in Places, k \in At(x)
        PROVE  \/ x = <<"queue", Shard>> /\ k \in (Passed + 1) .. arrived
               \/ x = <<"work", Shard>> /\ Undecided /\ k = Passed
               \/ x \in Fates /\ k \in 1 .. Settled /\ x = loc[k]
    <3>1. CASE \E w \in Workers : x = <<"queue", w>>
      BY <2>3, <2>6, <3>1
    <3>2. CASE \E w \in Workers : x = <<"work", w>>
      BY <2>3, <2>6, <3>2
    <3>3. CASE x \in Fates
      BY <2>3, <2>6, <3>3 DEF Where
    <3> QED BY <2>4, <3>1, <3>2, <3>3
  <2>7. ASSUME NEW k \in Packets, k > arrived
        PROVE  {x \in Places : k \in At(x)} = {}
    BY <2>2, <2>6, <2>7
  <2>8. ASSUME NEW k \in Packets, k <= arrived
        PROVE  \E y : {x \in Places : k \in At(x)} = {y}
    <3>1. k \in Int /\ k >= 1
      BY DEF Packets
    <3>2. CASE k > Passed
      <4>1. k \in At(<<"queue", Shard>>)
        BY <2>2, <2>3, <2>8, <3>1, <3>2
      <4>2. \A x \in Places : k \in At(x) => x = <<"queue", Shard>>
        BY <2>2, <2>6, <3>1, <3>2
      <4>3. {x \in Places : k \in At(x)} = {<<"queue", Shard>>}
        BY <2>5, <4>1, <4>2
      <4> QED BY <4>3
    <3>3. CASE k = Passed /\ Undecided
      <4>1. k \in At(<<"work", Shard>>)
        BY <2>3, <3>3
      <4>2. \A x \in Places : k \in At(x) => x = <<"work", Shard>>
        BY <2>2, <2>6, <3>1, <3>3
      <4>3. {x \in Places : k \in At(x)} = {<<"work", Shard>>}
        BY <2>5, <4>1, <4>2
      <4> QED BY <4>3
    <3>4. CASE k <= Settled
      <4>1. k \in 1 .. Settled /\ loc[k] \in Fates
        BY <2>1, <2>2, <3>1, <3>4
      <4>2. k \in At(loc[k])
        BY <2>3, <4>1 DEF Where
      <4>3. \A x \in Places : k \in At(x) => x = loc[k]
        BY <2>2, <2>6, <3>1, <3>4
      <4>4. {x \in Places : k \in At(x)} = {loc[k]}
        BY <2>5, <4>1, <4>2, <4>3
      <4> QED BY <4>4, Zenon
    <3>5. k > Passed \/ (k = Passed /\ Undecided) \/ k <= Settled
      BY ONLY <2>2, <3>1
    <3> QED BY ONLY <3>2, <3>3, <3>4, <3>5
  <2>9. \A k \in Packets : Cardinality({x \in Places : k \in At(x)}) =
                             IF k <= arrived THEN 1 ELSE 0
    <3>1. ASSUME NEW k \in Packets, k <= arrived
          PROVE  Cardinality({x \in Places : k \in At(x)}) = 1
      <4>1. PICK y : {x \in Places : k \in At(x)} = {y}
        BY <2>8, <3>1
      <4> QED BY <4>1, FS_Singleton
    <3>2. ASSUME NEW k \in Packets, k > arrived
          PROVE  Cardinality({x \in Places : k \in At(x)}) = 0
      BY <2>7, <3>2, FS_EmptySet
    <3>3. \A k \in Packets : k \in Int
      BY DEF Packets
    <3>4. ASSUME NEW k \in Packets PROVE k <= arrived \/ k > arrived
      BY <2>2, <3>3
    <3>5. ASSUME NEW k \in Packets, k > arrived PROVE ~(k <= arrived)
      BY <2>2, <3>3, <3>5
    <3> QED BY <3>1, <3>2, <3>4, <3>5
  <2>10. ASSUME NEW s \in Seq(Packets), Ascending(s) PROVE Distinct(s)
    <3>1. \A i \in DOMAIN s : i \in Int /\ s[i] \in Int
      BY DEF Packets
    <3> QED BY <2>10, <3>1 DEF Ascending, Distinct
  <2>11. \A p \in PDRs : Distinct(buffers[p]) /\ Distinct(drain[p])
    BY <2>10 DEF PacketInv, TypeOK, OrderInv
  <2>12. ASSUME NEW w \in Workers PROVE Distinct(queue[w])
    <3>1. CASE w # Shard
      BY <3>1 DEF PacketInv, IntakeInv, Distinct
    <3>2. CASE w = Shard
      <4>1. \A i \in DOMAIN queue[w] : i \in Int /\ queue[w][i] = Passed + i
        BY <3>2 DEF PacketInv, IntakeInv, TypeOK
      <4> QED BY <2>2, <4>1 DEF Distinct
    <3> QED BY <3>1, <3>2
  <2>13. \A i, j \in DOMAIN out : out[i].pkt = out[j].pkt => i = j
    BY DEF PacketInv, PlaceInv
  <2> QED BY <2>9, <2>11, <2>12, <2>13 DEF PacketsAccounted
<1> QED BY <1>1, PacketInvHolds, PTL

-----------------------------------------------------------------------------
(* The refinement.  Pipe is what IntakeInv says of worker and queue: only  *)
(* a packet that leaves it is decided on.                                  *)

\* What sequences do that lose or gain an element.
LEMMA PipeFacts ==
    ASSUME NEW q \in Seq(Packets), NEW k \in Packets
    PROVE  /\ <<>> \o q = q
           /\ <<k>> \o q # <<>> /\ Head(<<k>> \o q) = k /\ Tail(<<k>> \o q) = q
           /\ q # <<>> => <<Head(q)>> \o Tail(q) = q
           /\ \A x \in Packets : <<k>> \o Append(q, x) = Append(<<k>> \o q, x)
<1>1. <<>> \o q = q
  OBVIOUS
<1>2. /\ <<k>> \o q # <<>> /\ Head(<<k>> \o q) = k /\ Tail(<<k>> \o q) = q
  OBVIOUS
<1>3. q # <<>> => <<Head(q)>> \o Tail(q) = q
  OBVIOUS
<1>4. ASSUME NEW x \in Packets
      PROVE  <<k>> \o Append(q, x) = Append(<<k>> \o q, x)
  OBVIOUS
<1> QED BY <1>1, <1>2, <1>3, <1>4

LEMMA QueueType ==
    ASSUME TypeOK
    PROVE  /\ queue[Shard] \in Seq(Packets)
           /\ Undecided => work[Shard] \in Jobs /\ work[Shard].pkt \in Packets
<1>1. work[Shard] \in {Idle} \cup Jobs /\ Idle.at = "idle"
  BY DEF TypeOK, Idle
<1>2. Undecided => work[Shard] \in Jobs
  BY <1>1 DEF Undecided
<1> QED BY <1>2 DEF TypeOK, Jobs

\* A worker that publishes, buffers or drops its packet takes the first one.
LEMMA PipeDecided ==
    ASSUME PacketInv, NEW w \in Workers, NEW j, UNCHANGED queue,
           work[w].at \in {"publish", "buffer"},
           work' = [work EXCEPT ![w] = j], j.at \notin {"publish", "buffer"}
    PROVE  w = Shard /\ Pipe # <<>> /\ Head(Pipe) = work[w].pkt /\ Pipe' = Tail(Pipe)
<1>1. w = Shard
  BY OneWorker DEF PacketInv
<1>2. Undecided /\ Undecided' = FALSE
  <2>1. work'[Shard] = j
    BY <1>1 DEF PacketInv, TypeOK
  <2> QED BY <1>1, <2>1 DEF Undecided
<1>3. queue[Shard] \in Seq(Packets) /\ work[Shard].pkt \in Packets
  BY <1>2, QueueType DEF PacketInv
<1>4. Pipe = <<work[Shard].pkt>> \o queue[Shard]
  BY <1>2 DEF Pipe
<1>5. Pipe' = <<>> \o queue[Shard]
  BY <1>2 DEF Pipe
<1> QED BY <1>1, <1>3, <1>4, <1>5, PipeFacts

\* A worker that has decided on its packet does not touch the others.
LEMMA PipeKept ==
    ASSUME PacketInv, NEW w \in Workers, NEW j, UNCHANGED queue,
           work[w].at \notin {"idle", "publish", "buffer"},
           work' = [work EXCEPT ![w] = j], j.at \notin {"publish", "buffer"}
    PROVE  Pipe' = Pipe
<1>1. w = Shard
  BY OneWorker DEF PacketInv
<1>2. work'[Shard] = j
  BY <1>1 DEF PacketInv, TypeOK
<1>3. Undecided = FALSE /\ Undecided' = FALSE
  BY <1>1, <1>2 DEF Undecided
<1> QED BY <1>3 DEF Pipe

\* A limit takes the oldest packets from a queue and leaves the newest.
LEMMA NewestEvictsOldest ==
    ASSUME NEW q \in Seq(Packets), NEW k \in Packets, NEW limit \in Nat
    PROVE  \E n \in 0 .. Len(q) :
             Newest(Append(q, k), limit)
               = SubSeq(Append(q, k), n + 1, Len(Append(q, k)))
<1>0. Append(q, k) \in Seq(Packets)
  OBVIOUS
<1>1. PICK all \in Seq(Packets) : all = Append(q, k)
  BY <1>0, Zenon
<1>2. Len(all) = Len(q) + 1 /\ Len(q) \in Nat
  BY <1>1
<1>3. CASE limit > 0 /\ Len(all) > limit
  <2>1. Newest(all, limit) = SubSeq(all, (Len(all) - limit) + 1, Len(all))
    BY <1>3 DEF Newest
  <2>2. Len(all) - limit \in 0 .. Len(q)
    BY <1>2, <1>3
  <2> QED BY <1>1, <2>1, <2>2
<1>4. CASE ~(limit > 0 /\ Len(all) > limit)
  <2>1. Newest(all, limit) = all
    BY <1>4 DEF Newest
  <2>2. SubSeq(all, 1, Len(all)) = all
    OBVIOUS
  <2>3. SubSeq(all, 0 + 1, Len(all)) = all /\ 0 \in 0 .. Len(q)
    BY <1>2, <2>2
  <2> QED BY <1>1, <2>1, <2>3
<1> QED BY <1>3, <1>4

LEMMA NoneReleased ==
    ASSUME TypeOK, Unlocked PROVE drain = Buffer!Empty
<1>1. drain \in [PDRs -> Seq(Packets)]
  BY DEF TypeOK
<1> QED BY <1>1 DEF Unlocked, Buffer!Empty

\* UpdateFAR releases or discards the queues of some PDRs.
LEMMA UpdateFARAbstract ==
    ASSUME PacketInv, NEW f \in FARs, NEW r \in FARRules, UpdateFAR(f, r)
    PROVE  Buffer!Next
<1> DEFINE emptied == IF "BUFF" \in fars[f].act
                      THEN {p \in Users(f) : buffers[p] # <<>>} ELSE {}
<1>1. PICK P \in SUBSET PDRs : P = emptied
  BY DEF Users
<1>2. /\ buffers' = Emptied(P)
      /\ \/ /\ drain' = [p \in PDRs |-> IF p \in P THEN buffers[p] ELSE <<>>]
            /\ gone' = gone
         \/ gone' = gone \cup Held(P) /\ drain' = drain
      /\ UNCHANGED <<queue, arrived, work, out>> /\ Unlocked
  BY <1>1 DEF UpdateFAR, intake
<1> HIDE DEF emptied
<1>3. Pipe' = Pipe
  BY <1>2 DEF Pipe, Undecided
<1>4. drain = Buffer!Empty
  BY <1>2, NoneReleased DEF PacketInv
<1>5. Buffer!Empties(P)
  BY <1>2, <1>3, <1>4, Zenon DEF Buffer!Empties, Emptied
<1>6. CASE /\ drain' = [p \in PDRs |-> IF p \in P THEN buffers[p] ELSE <<>>]
           /\ gone' = gone
  <2>1. Buffer!Release(P)
    BY <1>5, <1>6, Zenon DEF Buffer!Release
  <2> QED BY <2>1, Zenon DEF Buffer!Next
<1>7. CASE gone' = gone \cup Held(P) /\ drain' = drain
  <2>1. Buffer!Discard(P)
    BY <1>5, <1>7, Zenon DEF Buffer!Discard, Held, ToSet, Buffer!ToSet
  <2> QED BY <2>1, Zenon DEF Buffer!Next
<1> QED BY <1>2, <1>6, <1>7

LEMMA ArriveAbstract ==
    ASSUME PacketInv, Arrive PROVE Buffer!Next
<1>1. /\ queue' = [queue EXCEPT ![Shard] = Append(queue[Shard], arrived + 1)]
      /\ arrived' = arrived + 1 /\ arrived + 1 \in Packets
      /\ UNCHANGED <<work, buffers, drain, out, gone>>
  BY DEF Arrive, workerIndexFor, release, fate, PacketInv, TypeOK, Packets
<1>2. queue'[Shard] = Append(queue[Shard], arrived + 1)
  BY <1>1 DEF PacketInv, TypeOK
<1>3. Undecided' = Undecided
  BY <1>1 DEF Undecided
<1>4. queue[Shard] \in Seq(Packets) /\ (Undecided => work[Shard].pkt \in Packets)
  BY QueueType DEF PacketInv
<1>5. Pipe' = Append(Pipe, arrived + 1)
  <2>1. CASE Undecided
    <3>1. Pipe = <<work[Shard].pkt>> \o queue[Shard]
      BY <2>1 DEF Pipe
    <3>2. Pipe' = <<work[Shard].pkt>> \o Append(queue[Shard], arrived + 1)
      BY <1>1, <1>2, <1>3, <2>1 DEF Pipe
    <3> QED BY <1>1, <1>4, <2>1, <3>1, <3>2, PipeFacts
  <2>2. CASE ~Undecided
    <3>1. Pipe = <<>> \o queue[Shard]
      BY <2>2 DEF Pipe
    <3>2. Pipe' = <<>> \o Append(queue[Shard], arrived + 1)
      BY <1>1, <1>2, <1>3, <2>2 DEF Pipe
    <3>3. Append(queue[Shard], arrived + 1) \in Seq(Packets)
      BY <1>1, <1>4
    <3> QED BY <1>1, <1>4, <3>1, <3>2, <3>3, PipeFacts
  <2> QED BY <2>1, <2>2
<1>6. Buffer!Arrive
  BY <1>1, <1>5, Zenon DEF Buffer!Arrive
<1> QED BY <1>6, Zenon DEF Buffer!Next

\* A packet that no PDR matches, or that a QER or the FAR refuses, is dropped
\* as it is looked up; any other stays the first of the pipe.
LEMMA ClassifyAbstract ==
    ASSUME PacketInv, NEW w \in Workers, Classify(w)
    PROVE  Buffer!Drop \/ UNCHANGED <<arrived, Pipe, buffers, drain, out, gone>>
<1> DEFINE q == queue[Shard]
<1>1. w = Shard /\ q # <<>> /\ work[Shard] = Idle
  BY DEF Classify, PacketInv, IntakeInv
<1>2. q \in Seq(Packets) /\ Head(q) \in Packets /\ Tail(q) \in Seq(Packets)
  BY <1>1 DEF PacketInv, TypeOK
<1>3. /\ queue' = [queue EXCEPT ![Shard] = Tail(q)]
      /\ UNCHANGED <<arrived, buffers, drain, out>>
  BY <1>1 DEF Classify, release
<1>4. queue'[Shard] = Tail(q)
  BY <1>3 DEF PacketInv, TypeOK
<1>5. ~Undecided
  BY <1>1 DEF Undecided, Idle
<1>6. Pipe = q
  BY <1>2, <1>5, PipeFacts DEF Pipe
<1>7. ASSUME gone' = gone \cup {Head(q)}, ~Undecided' PROVE Buffer!Drop
  <2>1. Pipe' = Tail(q)
    BY <1>2, <1>4, <1>7, PipeFacts DEF Pipe
  <2> QED BY <1>1, <1>3, <1>6, <1>7, <2>1, Zenon DEF Buffer!Drop, Buffer!Decide
<1>8. CASE Matching(Head(q)) = {} /\ gone' = gone \cup {Head(q)} /\ work' = work
  <2>1. ~Undecided'
    BY <1>5, <1>8 DEF Undecided
  <2> QED BY <1>7, <1>8, <2>1
<1>9. ASSUME NEW do, NEW b,
             do \in {"drop", "buffer", "publish"},
             gone' = IF do = "drop" THEN gone \cup {Head(q)} ELSE gone,
             work' = [work EXCEPT ![Shard] =
                        [at |-> IF do = "drop" THEN "count" ELSE do,
                         pkt |-> Head(q), b |-> b]]
      PROVE  Buffer!Drop \/ UNCHANGED <<arrived, Pipe, buffers, drain, out, gone>>
  <2>1. /\ work'[Shard].at = IF do = "drop" THEN "count" ELSE do
        /\ work'[Shard].pkt = Head(q)
    BY <1>9 DEF PacketInv, TypeOK
  <2>2. CASE do = "drop"
    <3>1. ~Undecided'
      BY <2>1, <2>2 DEF Undecided
    <3> QED BY <1>7, <1>9, <2>2, <3>1
  <2>3. CASE do # "drop"
    <3>1. Undecided'
      BY <1>9, <2>1, <2>3 DEF Undecided
    <3>2. Pipe' = <<Head(q)>> \o Tail(q)
      BY <1>4, <2>1, <3>1 DEF Pipe
    <3>3. Pipe' = Pipe
      BY <1>1, <1>2, <1>6, <3>2, PipeFacts
    <3> QED BY <1>3, <1>9, <2>3, <3>3
  <2> QED BY <2>2, <2>3
<1>10. \A act : resolveAction(act) \in {"drop", "buffer", "publish"}
  BY DEF resolveAction
<1>11. \/ Matching(Head(q)) = {} /\ gone' = gone \cup {Head(q)} /\ work' = work
       \/ \E do \in {"drop", "buffer", "publish"} : \E b :
            /\ gone' = IF do = "drop" THEN gone \cup {Head(q)} ELSE gone
            /\ work' = [work EXCEPT ![Shard] =
                          [at |-> IF do = "drop" THEN "count" ELSE do,
                           pkt |-> Head(q), b |-> b]]
  BY <1>1, <1>10 DEF Classify
<1> QED BY <1>8, <1>9, <1>11

LEMMA PublishAbstract ==
    ASSUME PacketInv, NEW w \in Workers, Publish(w) PROVE Buffer!Next
<1>1. /\ work[w].at = "publish" /\ Goto(w, "count")
      /\ out' = Append(out, Outcome(work[w].pkt, work[w].b.pdr, FALSE))
      /\ UNCHANGED <<queue, arrived, buffers, drain, gone>>
  BY DEF Publish, intake, release
<1>2. /\ work[w] \in Jobs
      /\ work' = [work EXCEPT ![w] = [at |-> "count", pkt |-> work[w].pkt,
                                      b |-> work[w].b]]
  BY <1>1, JobType DEF PacketInv
<1>3. Pipe # <<>> /\ Head(Pipe) = work[w].pkt /\ Pipe' = Tail(Pipe)
  BY <1>1, <1>2, PipeDecided
<1>4. PICK p \in PDRs : p = work[w].b.pdr
  BY <1>2 DEF Jobs, Bindings
<1>5. out' = Append(out, [pkt |-> Head(Pipe), pdr |-> p, held |-> FALSE])
  BY <1>1, <1>3, <1>4 DEF Outcome
<1>6. Buffer!Forward(p)
  BY <1>1, <1>3, <1>5, Zenon DEF Buffer!Forward, Buffer!Decide
<1> QED BY <1>6, Zenon DEF Buffer!Next

LEMMA bufferAbstract ==
    ASSUME PacketInv, NEW w \in Workers, bufferPacket(w) PROVE Buffer!Next
<1> DEFINE k == work[w].pkt
           p == work[w].b.pdr
           all == Append(buffers[p], k)
           kept == Newest(all, work[w].b.bar.limit)
           at == IF "NOCP" \notin work[w].b.act THEN "count"
                 ELSE IF work[w].b.bar.delay THEN "notify" ELSE "post"
<1>1. /\ work[w].at = "buffer" /\ Unlocked
      /\ buffers' = IF known THEN [buffers EXCEPT ![p] = kept] ELSE buffers
      /\ gone' = gone \cup (IF known THEN ToSet(all) \ ToSet(kept) ELSE {k})
      /\ Goto(w, at)
      /\ UNCHANGED <<queue, arrived, drain, out>>
  BY DEF bufferPacket, intake, release
<1>2. at \in {"notify", "post", "count"}
  OBVIOUS
<1> HIDE DEF at
<1>3. /\ work[w] \in Jobs
      /\ work' = [work EXCEPT ![w] = [at |-> at, pkt |-> work[w].pkt,
                                      b |-> work[w].b]]
  BY <1>1, <1>2, JobType DEF PacketInv
<1>4. Pipe # <<>> /\ Head(Pipe) = k /\ Pipe' = Tail(Pipe)
  BY <1>1, <1>2, <1>3, PipeDecided
<1>5. p \in PDRs /\ k \in Packets /\ work[w].b.bar.limit \in Nat
  BY <1>3 DEF Jobs, Bindings, BARRule
<1>6. buffers[p] \in Seq(Packets)
  BY <1>5 DEF PacketInv, TypeOK
<1>7. PICK n \in 0 .. Len(buffers[p]) : kept = SubSeq(all, n + 1, Len(all))
  BY <1>5, <1>6, NewestEvictsOldest
<1>8. drain = Buffer!Empty
  BY <1>1, NoneReleased DEF PacketInv
<1>9. Buffer!Decide
  BY <1>1, <1>4, Zenon DEF Buffer!Decide
<1> HIDE DEF k, p, kept
<1>10. CASE known
  <2> DEFINE Kept(m) == SubSeq(Append(buffers[p], Head(Pipe)), m + 1,
                                 Len(Append(buffers[p], Head(Pipe))))
  <2>1. kept = Kept(n) /\ all = Append(buffers[p], Head(Pipe))
    BY <1>4, <1>7
  <2>2. /\ buffers' = [buffers EXCEPT ![p] = Kept(n)]
        /\ gone' = gone \cup (ToSet(Append(buffers[p], Head(Pipe)))
                                \ ToSet(Kept(n)))
        /\ out' = out
    BY <1>1, <1>10, <2>1, Zenon
  <2>3. Buffer!Hold(p)
    BY <1>7, <1>8, <1>9, <2>2, Zenon DEF Buffer!Hold, ToSet, Buffer!ToSet
  <2> QED BY <1>5, <2>3, Zenon DEF Buffer!Next
<1>11. CASE ~known
  <2>1. buffers' = buffers /\ gone' = gone \cup {Head(Pipe)} /\ out' = out
    BY <1>1, <1>4, <1>11
  <2>2. Buffer!Drop
    BY <1>9, <2>1, Zenon DEF Buffer!Drop
  <2> QED BY <2>2, Zenon DEF Buffer!Next
<1> QED BY <1>10, <1>11

LEMMA WorkerAbstract ==
    ASSUME PacketInv, NEW w \in Workers, WorkerStep(w)
    PROVE  Buffer!Next \/ UNCHANGED <<arrived, Pipe, buffers, drain, out, gone>>
<1>1. CASE Classify(w)
  BY <1>1, ClassifyAbstract, Zenon DEF Buffer!Next
<1>2. CASE PostNow(w) \/ scheduleNotification(w)
  <2>1. /\ work[w].at \in {"post", "notify"} /\ Goto(w, "count")
        /\ UNCHANGED <<queue, arrived, buffers, drain, out, gone>>
    BY <1>2 DEF PostNow, scheduleNotification, intake, release, fate
  <2>2. work' = [work EXCEPT ![w] = [at |-> "count", pkt |-> work[w].pkt,
                                     b |-> work[w].b]]
    BY <2>1, JobType DEF PacketInv
  <2>3. Pipe' = Pipe
    BY <2>1, <2>2, PipeKept
  <2> QED BY <2>1, <2>3
<1>3. CASE updateUsage(w) \/ ReportThreshold(w)
  <2>1. /\ work[w].at \in {"count", "report"}
        /\ UNCHANGED <<queue, arrived, buffers, drain, out, gone>>
    BY <1>3 DEF updateUsage, ReportThreshold, intake, release, fate
  <2>2. \E j \in {Idle, [work[w] EXCEPT !.at = "report"]} :
           work' = [work EXCEPT ![w] = j]
    BY <1>3 DEF updateUsage, ReportThreshold
  <2>3. /\ Idle.at \notin {"publish", "buffer"}
        /\ [work[w] EXCEPT !.at = "report"].at \notin {"publish", "buffer"}
    <3>1. work[w] \in {Idle} \cup Jobs
      BY DEF PacketInv, TypeOK
    <3> QED BY <3>1 DEF Idle, Jobs
  <2>4. Pipe' = Pipe
    BY <2>1, <2>2, <2>3, PipeKept
  <2> QED BY <2>1, <2>4
<1> QED
  BY <1>1, <1>2, <1>3, PublishAbstract, bufferAbstract DEF WorkerStep

LEMMA DrainAbstract ==
    ASSUME PacketInv, NEW p \in PDRs, DrainNext(p) PROVE Buffer!Next
<1>1. /\ drain[p] # <<>>
      /\ out' = Append(out, [pkt |-> Head(drain[p]), pdr |-> p, held |-> TRUE])
      /\ drain' = [drain EXCEPT ![p] = Tail(@)]
      /\ UNCHANGED <<queue, arrived, work, buffers, gone>>
  BY DEF DrainNext, Outcome, intake
<1>2. Pipe' = Pipe
  BY <1>1 DEF Pipe, Undecided
<1>3. Buffer!Send(p)
  BY <1>1, <1>2, Zenon DEF Buffer!Send
<1> QED BY <1>3, Zenon DEF Buffer!Next

\* Every step is a step of DownlinkBuffer or leaves its variables alone.
LEMMA AbstractStep ==
    ASSUME PacketInv, [Next]_vars
    PROVE  [Buffer!Next]_<<arrived, Pipe, buffers, drain, out, gone>>
<1>1. ASSUME UNCHANGED <<queue, arrived, work, buffers, drain, out, gone>>
      PROVE  UNCHANGED <<arrived, Pipe, buffers, drain, out, gone>>
  BY <1>1 DEF Pipe, Undecided
<1>2. CASE \E f \in FARs, r \in FARRules : UpdateFAR(f, r)
  BY <1>2, UpdateFARAbstract
<1>3. CASE Control /\ \A f \in FARs, r \in FARRules : ~UpdateFAR(f, r)
  <2>1. UNCHANGED <<queue, arrived, work, buffers, drain, out, gone>>
    BY <1>3 DEF Control, CreatePDR, UpdatePDR, RemovePDR, CreateFAR, RemoveFAR,
       PutBAR, RemoveBAR, PutURR, RemoveURR, PutQER, RemoveQER, intake, release,
       fate
  <2> QED BY <1>1, <2>1
<1>4. CASE \/ ServeReport \/ Egress \/ PostFired \/ emitPeriodicURRReports
           \/ PostPeriodic \/ UNCHANGED vars
           \/ \E p \in PDRs : TimerExpires(p) \/ fireNotification(p)
  <2>1. UNCHANGED <<queue, arrived, work, buffers, drain, out, gone>>
    BY <1>4 DEF ServeReport, Egress, PostFired, emitPeriodicURRReports,
       PostPeriodic, TimerExpires, fireNotification, vars, intake, release, fate
  <2> QED BY <1>1, <2>1
<1> QED
  BY <1>2, <1>3, <1>4, ArriveAbstract, DrainAbstract, WorkerAbstract DEF Next

\* Workers, old bindings, the lock and the channels implement DownlinkBuffer,
\* for any numbers of rules, workers and packets: packets are decided on in
\* the order of their arrival, a packet that is held takes the place of the
\* oldest ones only, and a queue is released or discarded as a whole
\* (processDownlink, bufferPacket, handleFARTransitionLocked).
THEOREM DriverImplementsDownlinkBuffer == Spec => ImplementsDownlinkBuffer
<1>1. Init => Buffer!Init
  <2> SUFFICES ASSUME Init PROVE Buffer!Init
    OBVIOUS
  <2>1. Pipe = <<>>
    BY DEF Init, Pipe, Undecided, Idle
  <2> QED BY <2>1, Zenon DEF Init, Buffer!Init, Buffer!Empty
<1>2. PacketInv /\ [Next]_vars => [Buffer!Next]_(Buffer!vars)
  BY AbstractStep DEF Buffer!vars
<1> QED
  BY PacketInvHolds, <1>1, <1>2, PTL DEF Spec, ImplementsDownlinkBuffer, Buffer!Spec
=============================================================================
