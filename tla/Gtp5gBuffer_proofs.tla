------------------------- MODULE Gtp5gBuffer_proofs -------------------------
(***************************************************************************)
(* Proofs about downlink buffering with the gtp5g driver, for any numbers  *)
(* of sessions, rules and packets and any lengths of socket, srCh and      *)
(* queues: types, the order in which packets are written, and that a FAR   *)
(* that stops buffering leaves no packet in the queues it was asked for.   *)
(*                                                                         *)
(* The order is not inductive by itself.  A packet passes netlink socket,  *)
(* multiplexer, srCh and queue; the invariant says that the numbers grow   *)
(* within each of these, and that whatever main has served, held or        *)
(* written, is older than everything still in flight.                      *)
(***************************************************************************)
EXTENDS Gtp5gBuffer, TLAPS

\* what main waits for concerns a session that exists; a finished call has
\* left its queues alone, and only a FAR that was read is drained
MainInv ==
    /\ main.at # "idle" => sess[main.seid] # None
    /\ main.at = "call" /\ main.session # None =>
          main.session.q = sess[main.seid].q
    /\ main.at = "drain" /\ main.pdrs # {} => main.read # None

Increasing(q) == \A i, j \in 1 .. Len(q) : i < j => q[i].n < q[j].n
Below(q, n)   == \A i \in 1 .. Len(q) : q[i].n < n
Above(q, n)   == \A i \in 1 .. Len(q) : n < q[i].n

\* the same of a queue, which holds the numbers themselves
Rising(q)   == \A i, j \in 1 .. Len(q) : i < j => q[i] < q[j]
Newer(q, n) == \A i \in 1 .. Len(q) : n < q[i]

\* a packet before all that are in flight
Served(n) ==
    n <= sent /\ Above(nlq, n) /\ (mux # None => n < mux.n) /\ Above(srCh, n)

\* from the newest to the oldest: socket, multiplexer, srCh
FlightInv ==
    /\ Increasing(nlq) /\ Increasing(srCh)
    /\ Below(nlq, sent + 1) /\ Below(srCh, sent + 1)
    /\ mux # None => mux.n <= sent /\ Above(nlq, mux.n) /\ Below(srCh, mux.n)
    /\ \A i \in 1 .. Len(srCh) : Above(nlq, srCh[i].n)

\* the queue q of PDR p of session s
QueueInv(s, p, q) ==
    /\ Rising(q)
    /\ \A i \in 1 .. Len(q) : Served(q[i])
    /\ \A j \in 1 .. Len(written) :
          written[j].seid = s /\ written[j].pdr = p => Newer(q, written[j].n)

HeldInv ==
    \A s \in Seids : sess[s] # None => \A p \in PdrIDs : QueueInv(s, p, sess[s].q[p])

WrittenInv ==
    /\ \A i \in 1 .. Len(written) : Served(written[i].n)
    /\ WrittenInOrder

IInv == TypeOK /\ MainInv /\ FlightInv /\ HeldInv /\ WrittenInv

\* while main drains, having asked for the FAR it updates, the kernel's FAR is
\* the one that was read, and the queues are empty but those still to be
\* emptied and those skipped
DrainInv ==
    main.at = "drain" /\ main.asked = main.far /\ main.read # None =>
        /\ main.read = kfar[main.seid][main.far]
        /\ Releases(main.read, main.change) =>
              \A p \in Linked(main.seid, main.far) \ (main.pdrs \cup main.skipped) :
                  sess[main.seid].q[p] = <<>>

-----------------------------------------------------------------------------
(* Types                                                                   *)

LEMMA Bounds ==
    NlLen \in Nat /\ SrLen \in Nat /\ QLen \in Nat /\ MaxPackets \in Nat /\ MaxSessions \in Nat
BY BufferAssumption

LEMMA SequenceFacts ==
    ASSUME NEW S, NEW q \in Seq(S)
    PROVE  /\ \A i \in 1 .. Len(q) : q[i] \in S
           /\ \A x \in S : Append(q, x) \in Seq(S) /\ Len(Append(q, x)) = Len(q) + 1
OBVIOUS

LEMMA InitInvariant == Init => IInv
<1> SUFFICES ASSUME Init PROVE IInv
  OBVIOUS
<1> USE DEF Init
<1>1. TypeOK
  BY BufferAssumption DEF TypeOK, Idle
<1>2. MainInv
  BY DEF MainInv, Idle
<1>3. FlightInv /\ HeldInv /\ WrittenInv
  BY DEF FlightInv, HeldInv, WrittenInv, Increasing, Below, WrittenInOrder
<1> QED BY <1>1, <1>2, <1>3 DEF IInv

\* the FAR that a packet meets
LEMMA BufferingFAR ==
    ASSUME TypeOK, NEW s \in Seids, NEW p \in PdrIDs, KernelBuffers(s, p)
    PROVE  kfar[s][kpdr[s][p]] \in FAR
<1>1. kpdr[s][p] \in FarIDs
  BY DEF KernelBuffers, TypeOK
<1>2. kfar[s][kpdr[s][p]] # None
  BY DEF KernelBuffers
<1> QED BY <1>1, <1>2 DEF TypeOK

\* the kernel and the multiplexer
LEMMA FlightType ==
    ASSUME TypeOK, (\E s \in Seids, p \in PdrIDs : KernelBuffers(s, p)) \/ Mux
    PROVE  TypeOK'
<1>1. ASSUME NEW s \in Seids, NEW p \in PdrIDs, KernelBuffers(s, p) PROVE TypeOK'
  <2>1. /\ kfar[s][kpdr[s][p]] \in FAR /\ sent < MaxPackets
        /\ sent' = sent + 1
        /\ UNCHANGED <<kpdr, kfar, mux, srCh, main, sess, born, written>>
    BY <1>1, BufferingFAR DEF KernelBuffers
  <2>t. nlq \in Seq(Message) /\ Len(nlq) <= NlLen /\ sent \in 0 .. MaxPackets /\ lost \subseteq 1 .. MaxPackets
    BY DEF TypeOK
  <2> DEFINE m == [n |-> sent + 1, seid |-> s, pdr |-> p,
                   action |-> kfar[s][kpdr[s][p]].action]
  <2>2. m \in Message
    BY <2>1, BufferAssumption DEF Message, FAR, TypeOK
  <2>3. /\ nlq' = nlq \/ (Len(nlq) < NlLen /\ nlq' = Append(nlq, m))
        /\ lost' = lost \/ lost' = lost \cup {sent + 1}
    BY <1>1 DEF KernelBuffers
  <2> HIDE DEF m
  <2>4. nlq' \in Seq(Message) /\ Len(nlq') <= NlLen
    BY ONLY <2>t, <2>2, <2>3, Bounds
  <2>5. sent' \in 0 .. MaxPackets /\ lost' \subseteq 1 .. MaxPackets
    <3>1. sent + 1 \in 1 .. MaxPackets
      BY ONLY <2>t, <2>1, Bounds
    <3>2. sent' \in 0 .. MaxPackets
      BY ONLY <3>1, <2>1, Bounds
    <3> QED BY <2>t, <2>3, <3>1, <3>2, Zenon
  <2> QED BY <2>1, <2>4, <2>5 DEF TypeOK
<1>2. CASE ServeMsg
  BY <1>2, BufferAssumption DEF ServeMsg, TypeOK
<1>3. CASE NotifySessReport
  BY <1>3, BufferAssumption DEF NotifySessReport, TypeOK
<1> QED BY <1>1, <1>2, <1>3 DEF Mux

\* main serves a report
LEMMA PushType ==
    ASSUME TypeOK, NEW session \in Sess, NEW m \in Message,
           \A p \in PdrIDs : Len(session.q[p]) <= QLen
    PROVE  /\ Push(session, m) \in Sess
           /\ \A p \in PdrIDs : p # m.pdr => Push(session, m).q[p] = session.q[p]
           /\ \/ Push(session, m).q[m.pdr] = session.q[m.pdr]
              \/ Push(session, m).q[m.pdr] = Append(session.q[m.pdr], m.n)
           /\ \A p \in PdrIDs : Len(Push(session, m).q[p]) <= QLen
<1> DEFINE h == m.n
           r == IF Len(session.q[m.pdr]) < QLen THEN Append(session.q[m.pdr], h)
                ELSE session.q[m.pdr]
<1>1. h \in 1 .. MaxPackets /\ m.pdr \in PdrIDs /\ session.q \in [PdrIDs -> Seq(1 .. MaxPackets)]
  BY DEF Message, Sess
<1>2. Push(session, m) = [session EXCEPT !.q = [session.q EXCEPT ![m.pdr] = r]]
  BY DEF Push, Sess
<1> HIDE DEF h
<1>3. r \in Seq(1 .. MaxPackets) /\ Len(r) <= QLen
  <2>1. m.pdr \in PdrIDs /\ session.q[m.pdr] \in Seq(1 .. MaxPackets) /\ Len(session.q[m.pdr]) <= QLen
    BY <1>1
  <2>2. h \in 1 .. MaxPackets
    BY <1>1
  <2>3. PICK old : old = session.q[m.pdr]
    OBVIOUS
  <2>4. old \in Seq(1 .. MaxPackets) /\ Len(old) <= QLen /\ Len(old) \in Nat
    BY <2>1, <2>3
  <2>5. Append(old, h) \in Seq(1 .. MaxPackets) /\ Len(Append(old, h)) = Len(old) + 1
    BY <2>2, <2>4, SequenceFacts
  <2>6. r = IF Len(old) < QLen THEN Append(old, h) ELSE old
    BY <2>3
  <2> HIDE DEF r
  <2>7. r = old \/ (Len(old) < QLen /\ r = Append(old, h))
    BY <2>6, Zenon
  <2>8. Len(old) < QLen => Len(Append(old, h)) <= QLen
    BY ONLY <2>4, <2>5, Bounds
  <2> QED BY <2>4, <2>5, <2>7, <2>8, Zenon
<1>4. r = session.q[m.pdr] \/ r = Append(session.q[m.pdr], h)
  OBVIOUS
<1> HIDE DEF r
<1> QED BY <1>1, <1>2, <1>3, <1>4 DEF Sess, h

\* what ServeReport does to the sessions
LEMMA ReportFacts ==
    ASSUME ServeReport
    PROVE  /\ \/ sess' = sess
              \/ /\ sess[Head(srCh).seid] # None
                 /\ sess' = [sess EXCEPT ![Head(srCh).seid] = Push(sess[Head(srCh).seid], Head(srCh))]
           /\ lost' = lost \/ lost' = lost \cup {Head(srCh).n}
BY DEF ServeReport

LEMMA ReportType ==
    ASSUME TypeOK, ServeReport PROVE TypeOK'
<1> DEFINE m == Head(srCh)
<1>0. srCh \in Seq(Message) /\ srCh # <<>> /\ srCh' = Tail(srCh) /\ Len(srCh) <= SrLen
  BY DEF ServeReport, TypeOK
<1>1. m \in Message /\ m.seid \in Seids /\ srCh' \in Seq(Message) /\ Len(srCh') <= SrLen
  <2>1. m \in Message /\ srCh' \in Seq(Message) /\ Len(srCh') <= SrLen
    BY <1>0, BufferAssumption
  <2> QED BY <2>1 DEF Message
<1>l. lost' \subseteq 1 .. MaxPackets
  BY <1>1, ReportFacts DEF TypeOK, Message
<1>2. CASE sess[m.seid] # None /\ sess' = [sess EXCEPT ![m.seid] = Push(sess[m.seid], m)]
  <2>2. sess[m.seid] \in Sess /\ \A p \in PdrIDs : Len(sess[m.seid].q[p]) <= QLen
    BY <1>1, <1>2 DEF TypeOK
  <2> HIDE DEF m
  <2>3. /\ Push(sess[m.seid], m) \in Sess
        /\ \A p \in PdrIDs : Len(Push(sess[m.seid], m).q[p]) <= QLen
    BY <1>1, <2>2, PushType
  <2>4. /\ sess' \in [Seids -> Sess \cup {None}]
        /\ \A s \in Seids : sess'[s] # None => \A p \in PdrIDs : Len(sess'[s].q[p]) <= QLen
    BY <1>1, <1>2, <2>3 DEF TypeOK
  <2> QED BY <1>1, <1>l, <2>4 DEF ServeReport, TypeOK, kernel
<1>3. CASE sess' = sess
  BY <1>1, <1>l, <1>3 DEF ServeReport, TypeOK, kernel
<1> QED BY <1>2, <1>3, ReportFacts

\* A request changes a session, if at all, in its sets of rules.
LEMMA SessType ==
    ASSUME TypeOK, NEW s \in Seids, NEW session \in Sess \cup {None},
           session # None => \A p \in PdrIDs : Len(session.q[p]) <= QLen,
           sess' = [sess EXCEPT ![s] = session]
    PROVE  /\ sess' \in [Seids -> Sess \cup {None}]
           /\ \A t \in Seids : sess'[t] # None => \A p \in PdrIDs : Len(sess'[t].q[p]) <= QLen
BY DEF TypeOK

LEMMA CallType ==
    ASSUME NEW s \in Seids, NEW session \in Sess \cup {None}
    PROVE  Call(s, session) \in [at : {"call"}, seid : Seids, session : Sess \cup {None}]
BY DEF Call

LEMMA EstablishmentType ==
    ASSUME TypeOK, NEW s \in Seids, SessionEstablishment(s) PROVE TypeOK'
<1>1. born[s] \in 0 .. MaxSessions /\ born[s] < MaxSessions
  BY DEF SessionEstablishment, TypeOK
<1>2. /\ NewSess \in Sess
      /\ \A p \in PdrIDs : Len(NewSess.q[p]) <= QLen
  BY <1>1, BufferAssumption DEF NewSess, Sess
<1>3. sess' = [sess EXCEPT ![s] = NewSess]
  BY DEF SessionEstablishment
<1> HIDE DEF NewSess
<1>4. /\ sess' \in [Seids -> Sess \cup {None}]
      /\ \A t \in Seids : sess'[t] # None => \A p \in PdrIDs : Len(sess'[t].q[p]) <= QLen
  BY <1>2, <1>3, SessType
<1>5. born' \in [Seids -> 0 .. MaxSessions]
  BY <1>1, BufferAssumption DEF SessionEstablishment, TypeOK
<1> QED BY <1>4, <1>5 DEF SessionEstablishment, TypeOK, kernel

\* The other requests change the kernel's rules and the sets of a session.
LEMMA RuleType ==
    ASSUME TypeOK, NEW s \in Seids, sess[s] # None,
           kpdr' \in [Seids -> [PdrIDs -> FarIDs \cup {None}]],
           kfar' \in [Seids -> [FarIDs -> FAR \cup {None}]],
           NEW after \in Sess \cup {None}, main' = Call(s, after),
           NEW session \in Sess, session.q = sess[s].q,
           sess' = [sess EXCEPT ![s] = session],
           UNCHANGED <<sent, nlq, mux, srCh, born, written, lost>>
    PROVE  TypeOK'
<1>1. main' \in [at : {"call"}, seid : Seids, session : Sess \cup {None}]
  BY CallType
<1>2. \A p \in PdrIDs : Len(session.q[p]) <= QLen
  BY DEF TypeOK
<1>3. /\ sess' \in [Seids -> Sess \cup {None}]
      /\ \A t \in Seids : sess'[t] # None => \A p \in PdrIDs : Len(sess'[t].q[p]) <= QLen
  BY <1>2, SessType
<1> QED BY <1>1, <1>3 DEF TypeOK

\* main takes a request only when it is not in a call
LEMMA RequestIdle == Requests => main = Idle
<1>1. ASSUME NEW s \in Seids, SessionEstablishment(s) \/ SessionDeletion(s) PROVE main = Idle
  BY <1>1 DEF SessionEstablishment, SessionDeletion
<1>2. ASSUME NEW s \in Seids, NEW p \in PdrIDs,
             RemovePDR(s, p) \/ \E f \in FarIDs : CreatePDR(s, p, f) \/ UpdatePDR(s, p, f)
      PROVE  main = Idle
  BY <1>2 DEF RemovePDR, CreatePDR, UpdatePDR
<1>3. ASSUME NEW s \in Seids, NEW f \in FarIDs,
             \/ RemoveFAR(s, f)
             \/ \E far \in NewFARs[f] : CreateFAR(s, f, far)
             \/ \E c \in Changes[f], asked \in {f, 0} : UpdateFAR(s, f, c, asked)
      PROVE  main = Idle
  BY <1>3 DEF RemoveFAR, CreateFAR, UpdateFAR
<1> QED BY <1>1, <1>2, <1>3, Zenon DEF Requests

LEMMA RequestType ==
    ASSUME TypeOK, Requests PROVE TypeOK'
<1> SUFFICES ASSUME NEW s \in Seids, main = Idle,
                    \/ SessionEstablishment(s) \/ SessionDeletion(s)
                    \/ \E p \in PdrIDs : \/ RemovePDR(s, p)
                                         \/ \E f \in FarIDs : CreatePDR(s, p, f) \/ UpdatePDR(s, p, f)
                    \/ \E f \in FarIDs :
                          \/ RemoveFAR(s, f)
                          \/ \E far \in NewFARs[f] : CreateFAR(s, f, far)
                          \/ \E c \in Changes[f], asked \in {f, 0} : UpdateFAR(s, f, c, asked)
             PROVE  TypeOK'
  BY RequestIdle, Zenon DEF Requests
<1>1. CASE SessionEstablishment(s)
  BY <1>1, EstablishmentType
<1>s. sess[s] # None => /\ sess[s] \in Sess
                        /\ sess' = sess => sess' = [sess EXCEPT ![s] = sess[s]]
  BY DEF TypeOK
<1>k. /\ kpdr \in [Seids -> [PdrIDs -> FarIDs \cup {None}]]
      /\ kfar \in [Seids -> [FarIDs -> FAR \cup {None}]]
  BY DEF TypeOK
<1>2. CASE SessionDeletion(s)
  <2>1. /\ kpdr' \in [Seids -> [PdrIDs -> FarIDs \cup {None}]]
        /\ kfar' \in [Seids -> [FarIDs -> FAR \cup {None}]]
    BY <1>2, <1>k DEF SessionDeletion
  <2> QED BY <1>2, <1>s, <2>1, RuleType DEF SessionDeletion
<1>3. ASSUME NEW p \in PdrIDs, RemovePDR(s, p) PROVE TypeOK'
  <2>1. [sess[s] EXCEPT !.pdrs = @ \ {p}] \in Sess
    BY <1>3, <1>s DEF RemovePDR, Sess
  <2>2. kpdr' \in [Seids -> [PdrIDs -> FarIDs \cup {None}]]
    <3>1. kpdr' = kpdr \/ kpdr' = [kpdr EXCEPT ![s][p] = None]
      BY <1>3 DEF RemovePDR
    <3>2. [kpdr EXCEPT ![s][p] = None] \in [Seids -> [PdrIDs -> FarIDs \cup {None}]]
      BY <1>k
    <3> QED BY <3>1, <3>2, <1>k
  <2> QED BY <1>3, <1>s, <1>k, <2>1, <2>2, RuleType DEF RemovePDR
<1>4. ASSUME NEW p \in PdrIDs, NEW f \in FarIDs, CreatePDR(s, p, f) PROVE TypeOK'
  <2> DEFINE session == [sess[s] EXCEPT !.pdrs = @ \cup {p}]
  <2>1. session \in Sess /\ session.q = sess[s].q
    BY <1>4, <1>s DEF CreatePDR, Sess
  <2>2. kpdr' \in [Seids -> [PdrIDs -> FarIDs \cup {None}]]
    <3>1. kpdr' = kpdr \/ kpdr' = [kpdr EXCEPT ![s][p] = f]
      BY <1>4 DEF CreatePDR
    <3>2. [kpdr EXCEPT ![s][p] = f] \in [Seids -> [PdrIDs -> FarIDs \cup {None}]]
      BY <1>k
    <3> QED BY <3>1, <3>2, <1>k
  <2>3. sess' = [sess EXCEPT ![s] = session] /\ sess'[s] = session
    BY <1>4 DEF CreatePDR, TypeOK
  <2> HIDE DEF session
  <2> QED BY <1>4, <1>s, <1>k, <2>1, <2>2, <2>3, RuleType DEF CreatePDR
<1>5. ASSUME NEW p \in PdrIDs, NEW f \in FarIDs, UpdatePDR(s, p, f) PROVE TypeOK'
  <2>1. kpdr' \in [Seids -> [PdrIDs -> FarIDs \cup {None}]]
    <3>1. kpdr' = kpdr \/ kpdr' = [kpdr EXCEPT ![s][p] = f]
      BY <1>5 DEF UpdatePDR
    <3>2. [kpdr EXCEPT ![s][p] = f] \in [Seids -> [PdrIDs -> FarIDs \cup {None}]]
      BY <1>k
    <3> QED BY <3>1, <3>2, <1>k
  <2> QED BY <1>5, <1>s, <1>k, <2>1, RuleType DEF UpdatePDR
<1>6. ASSUME NEW f \in FarIDs, RemoveFAR(s, f) PROVE TypeOK'
  <2>1. [sess[s] EXCEPT !.fars = @ \ {f}] \in Sess
    BY <1>6, <1>s DEF RemoveFAR, Sess
  <2>2. kfar' \in [Seids -> [FarIDs -> FAR \cup {None}]]
    <3>1. kfar' = kfar \/ kfar' = [kfar EXCEPT ![s][f] = None]
      BY <1>6 DEF RemoveFAR
    <3>2. [kfar EXCEPT ![s][f] = None] \in [Seids -> [FarIDs -> FAR \cup {None}]]
      BY <1>k
    <3> QED BY <3>1, <3>2, <1>k
  <2> QED BY <1>6, <1>s, <1>k, <2>1, <2>2, RuleType DEF RemoveFAR
<1>7. ASSUME NEW f \in FarIDs, NEW far \in NewFARs[f], CreateFAR(s, f, far) PROVE TypeOK'
  <2> DEFINE session == [sess[s] EXCEPT !.fars = @ \cup {f}]
  <2>1. session \in Sess /\ session.q = sess[s].q
    BY <1>7, <1>s DEF CreateFAR, Sess
  <2>2. kfar' \in [Seids -> [FarIDs -> FAR \cup {None}]]
    <3>1. far \in FAR
      BY <1>7, BufferAssumption
    <3>2. kfar' = kfar \/ kfar' = [kfar EXCEPT ![s][f] = far]
      BY <1>7 DEF CreateFAR
    <3>3. [kfar EXCEPT ![s][f] = far] \in [Seids -> [FarIDs -> FAR \cup {None}]]
      BY <1>k, <3>1
    <3> QED BY <3>2, <3>3, <1>k
  <2>3. sess' = [sess EXCEPT ![s] = session] /\ sess'[s] = session
    BY <1>7 DEF CreateFAR, TypeOK
  <2> HIDE DEF session
  <2> QED BY <1>7, <1>s, <1>k, <2>1, <2>2, <2>3, RuleType DEF CreateFAR
<1>8. ASSUME NEW f \in FarIDs, NEW c \in Changes[f], NEW asked \in {f, 0}, UpdateFAR(s, f, c, asked)
      PROVE  TypeOK'
  <2>1. c \in Change
    BY <1>8, BufferAssumption
  <2>2. \/ main' = Drain(s, f, c, f, None, {})
        \/ main' = Get(s, f, c, asked)
    BY <1>8 DEF UpdateFAR
  <2>3. \/ main' \in [at : {"get"}, seid : Seids, far : FarIDs, change : Change,
                             asked : FarIDs \cup {0}]
        \/ main' \in [at : {"drain"}, seid : Seids, far : FarIDs, change : Change,
                             asked : FarIDs \cup {0}, read : FAR \cup {None},
                             pdrs : SUBSET PdrIDs, skipped : SUBSET PdrIDs]
    BY <2>1, <2>2 DEF Drain, Get
  <2> QED BY <1>8, <2>3 DEF UpdateFAR, TypeOK, kernel
<1> QED BY <1>1, <1>2, <1>3, <1>4, <1>5, <1>6, <1>7, <1>8

\* main in the middle of a request
LEMMA MainType ==
    ASSUME TypeOK
    PROVE  /\ main.at \in {"idle", "get", "drain", "call"}
           /\ main.at = "get" => main \in
                [at : {"get"}, seid : Seids, far : FarIDs, change : Change,
                   asked : FarIDs \cup {0}]
           /\ main.at = "drain" => main \in
                [at : {"drain"}, seid : Seids, far : FarIDs, change : Change,
                   asked : FarIDs \cup {0}, read : FAR \cup {None},
                   pdrs : SUBSET PdrIDs, skipped : SUBSET PdrIDs]
           /\ main.at = "call" => main \in [at : {"call"}, seid : Seids,
                                            session : Sess \cup {None}]
           /\ main.at # "idle" => main.seid \in Seids
           /\ main.at = "idle" <=> main = Idle
BY DEF TypeOK, Idle

\* what a queue is when it is emptied: its packets
LEMMA PacketsOfQueue ==
    ASSUME NEW q \in Seq(1 .. MaxPackets), NEW s \in Seids, NEW p \in PdrIDs,
           NEW param \in Params
    PROVE  /\ PacketsOf(q, s, p, param) \in Seq(Written)
           /\ Len(PacketsOf(q, s, p, param)) = Len(q)
           /\ \A i \in 1 .. Len(q) :
                 PacketsOf(q, s, p, param)[i] = [n |-> q[i], seid |-> s, pdr |-> p, param |-> param]
<1> DEFINE W(i) == [n |-> q[i], seid |-> s, pdr |-> p, param |-> param]
<1>2. PacketsOf(q, s, p, param) = [i \in 1 .. Len(q) |-> W(i)]
  BY DEF PacketsOf
<1>3. \A i \in 1 .. Len(q) : W(i) \in Written
  <2> SUFFICES ASSUME NEW i \in 1 .. Len(q) PROVE W(i) \in Written
    OBVIOUS
  <2>1. q[i] \in 1 .. MaxPackets
    BY SequenceFacts
  <2> QED BY <2>1 DEF Written
<1> HIDE DEF W
<1>4. Len(q) \in Nat
  OBVIOUS
<1>5. /\ [i \in 1 .. Len(q) |-> W(i)] \in Seq(Written)
      /\ Len([i \in 1 .. Len(q) |-> W(i)]) = Len(q)
  BY <1>3, <1>4
<1>6. \A i \in 1 .. Len(q) : [j \in 1 .. Len(q) |-> W(j)][i] = W(i)
  OBVIOUS
<1> QED BY <1>2, <1>5, <1>6 DEF W

\* the session after the queue of p is emptied
Emptied(session, p) == [session EXCEPT !.q = [session.q EXCEPT ![p] = <<>>]]

LEMMA EmptiedSession ==
    ASSUME NEW session \in Sess, NEW p \in PdrIDs
    PROVE  /\ Emptied(session, p) \in Sess
           /\ Emptied(session, p).q[p] = <<>>
           /\ \A r \in PdrIDs : r # p => Emptied(session, p).q[r] = session.q[r]
<1>1. session.q \in [PdrIDs -> Seq(1 .. MaxPackets)]
  BY DEF Sess
<1>2. [session.q EXCEPT ![p] = <<>>] \in [PdrIDs -> Seq(1 .. MaxPackets)]
  BY <1>1
<1> QED BY <1>1, <1>2 DEF Emptied, Sess

\* the numbers in a queue
LEMMA RangeOfQueue ==
    ASSUME NEW session \in Sess, NEW p \in PdrIDs
    PROVE  session.q[p] \in Seq(1 .. MaxPackets) /\ Range(session.q[p]) \subseteq 1 .. MaxPackets
<1>1. session.q[p] \in Seq(1 .. MaxPackets)
  BY DEF Sess
<1>2. DOMAIN session.q[p] = 1 .. Len(session.q[p])
  BY <1>1
<1>3. \A i \in 1 .. Len(session.q[p]) : session.q[p][i] \in 1 .. MaxPackets
  BY <1>1, SequenceFacts
<1> QED BY <1>1, <1>2, <1>3, Zenon DEF Range

\* what EmptyQueue does to sessions, written and lost packets
LEMMA EmptyQueueFacts ==
    ASSUME TypeOK, MainInv, NEW p \in PdrIDs, EmptyQueue(p)
    PROVE  /\ main.seid \in Seids
           /\ sess[main.seid] \in Sess
           /\ sess' = [sess EXCEPT ![main.seid] = Emptied(sess[main.seid], p)]
           /\ \/ written' = written
              \/ \E param \in Params :
                    written' = written \o PacketsOf(sess[main.seid].q[p], main.seid, p, param)
           /\ lost' = lost \/ lost' = lost \cup Range(sess[main.seid].q[p])
<1>1. main.at = "drain" /\ p \in main.pdrs
  BY DEF EmptyQueue
<1>2. /\ main.seid \in Seids /\ sess[main.seid] # None
      /\ main.read \in FAR \cup {None} /\ main.read # None
  BY <1>1, MainType DEF MainInv
<1>3. sess[main.seid] \in Sess /\ main.read.param \in Params \cup {None}
  BY <1>2 DEF TypeOK, FAR
<1>4. sess' = [sess EXCEPT ![main.seid].q[p] = <<>>]
  BY DEF EmptyQueue
<1>5. sess' = [sess EXCEPT ![main.seid] = Emptied(sess[main.seid], p)]
  BY <1>4 DEF Emptied
<1>6. \/ written' = written
      \/ /\ main.read.param # None
         /\ written' = written \o PacketsOf(sess[main.seid].q[p], main.seid, p, main.read.param)
  BY DEF EmptyQueue
<1>7. lost' = lost \/ lost' = lost \cup Range(sess[main.seid].q[p])
  BY DEF EmptyQueue
<1> HIDE DEF Emptied
<1> QED BY <1>2, <1>3, <1>5, <1>6, <1>7

LEMMA DriverType ==
    ASSUME TypeOK, MainInv,
           Proceeds
    PROVE  TypeOK'
<1>1. CASE ApplyAction
  <2>1. /\ main.seid \in Seids /\ main.far \in FarIDs /\ main.change \in Change
        /\ main.asked \in FarIDs \cup {0}
    BY <1>1, MainType DEF ApplyAction
  <2>2. PICK read \in {None} \cup {kfar[main.seid][f] : f \in FarIDs \cap {main.asked}} :
          main' = Drain(main.seid, main.far, main.change, main.asked, read,
                        IF Releases(read, main.change) THEN Linked(main.seid, main.asked) ELSE {})
    BY <1>1 DEF ApplyAction
  <2>3. read \in FAR \cup {None} /\ Linked(main.seid, main.asked) \subseteq PdrIDs
    BY <2>1, <2>2 DEF TypeOK, Linked
  <2>4. main' \in [at : {"drain"}, seid : Seids, far : FarIDs, change : Change,
                       asked : FarIDs \cup {0}, read : FAR \cup {None},
                       pdrs : SUBSET PdrIDs, skipped : SUBSET PdrIDs]
    BY <2>1, <2>2, <2>3 DEF Drain
  <2> QED BY <1>1, <2>4 DEF ApplyAction, TypeOK, kernel
<1>2. ASSUME NEW p \in PdrIDs, EmptyQueue(p) PROVE TypeOK'
  <2> DEFINE session == sess[main.seid]
  <2>1. /\ main.seid \in Seids /\ session \in Sess
        /\ sess' = [sess EXCEPT ![main.seid] = Emptied(session, p)]
    BY <1>2, EmptyQueueFacts
  <2>2. written' \in Seq(Written)
    <3>1. CASE written' = written
      BY <3>1 DEF TypeOK
    <3>2. ASSUME NEW param \in Params, written' = written \o PacketsOf(session.q[p], main.seid, p, param)
          PROVE  written' \in Seq(Written)
      <4>1. PacketsOf(session.q[p], main.seid, p, param) \in Seq(Written)
        BY <2>1, RangeOfQueue, PacketsOfQueue
      <4> QED BY <3>2, <4>1 DEF TypeOK
    <3> QED BY <1>2, <3>1, <3>2, EmptyQueueFacts
  <2>3. session # None
    BY <1>2, MainType DEF EmptyQueue, MainInv
  <2>4. \A r \in PdrIDs : Len(session.q[r]) <= QLen
    BY <2>1, <2>3 DEF TypeOK
  <2>5. \A r \in PdrIDs : Len(Emptied(session, p).q[r]) <= QLen
    <3> HIDE DEF session
    <3> SUFFICES ASSUME NEW r \in PdrIDs PROVE Len(Emptied(session, p).q[r]) <= QLen
      OBVIOUS
    <3>1. CASE r = p
      <4>1. Emptied(session, p).q[r] = <<>>
        BY <2>1, <3>1, EmptiedSession
      <4> QED BY <4>1, BufferAssumption
    <3>2. CASE r # p
      <4>1. Emptied(session, p).q[r] = session.q[r]
        BY <2>1, <3>2, EmptiedSession
      <4> QED BY <4>1, <2>4
    <3> QED BY <3>1, <3>2
  <2>6. /\ sess' \in [Seids -> Sess \cup {None}]
        /\ \A t \in Seids : sess'[t] # None => \A r \in PdrIDs : Len(sess'[t].q[r]) <= QLen
    <3> HIDE DEF session
    <3>1. Emptied(session, p) \in Sess
      BY <2>1, EmptiedSession
    <3> HIDE DEF Emptied
    <3> QED BY <2>1, <2>5, <3>1, SessType
  <2>7. main' \in [at : {"drain"}, seid : Seids, far : FarIDs, change : Change,
                       asked : FarIDs \cup {0}, read : FAR \cup {None},
                       pdrs : SUBSET PdrIDs, skipped : SUBSET PdrIDs]
    BY <1>2, MainType DEF EmptyQueue
  <2>8. lost' \subseteq 1 .. MaxPackets
    <3>1. lost' = lost \/ lost' = lost \cup Range(session.q[p])
      BY <1>2, EmptyQueueFacts
    <3> QED BY <2>1, <3>1, RangeOfQueue DEF TypeOK
  <2> QED BY <1>2, <2>2, <2>6, <2>7, <2>8 DEF EmptyQueue, TypeOK, kernel
<1>5. ASSUME NEW p \in PdrIDs, SkipQueue(p) PROVE TypeOK'
  <2>1. main' \in [at : {"drain"}, seid : Seids, far : FarIDs, change : Change,
                       asked : FarIDs \cup {0}, read : FAR \cup {None},
                       pdrs : SUBSET PdrIDs, skipped : SUBSET PdrIDs]
    BY <1>5, MainType DEF SkipQueue
  <2> QED BY <1>5, <2>1 DEF SkipQueue, TypeOK, kernel
<1>3. CASE SendFAR
  <2>1. /\ main.seid \in Seids /\ main.far \in FarIDs /\ main.change \in Change
        /\ sess[main.seid] \in Sess \cup {None}
    BY <1>3, MainType DEF SendFAR, TypeOK
  <2>2. kfar' \in [Seids -> [FarIDs -> FAR \cup {None}]]
    <3> DEFINE old == kfar[main.seid][main.far]
               new == [action |-> IF main.change.action # None THEN main.change.action ELSE old.action,
                       param  |-> IF main.change.param # None THEN main.change.param ELSE old.param]
    <3>1. kfar' = kfar \/ (old # None /\ kfar' = [kfar EXCEPT ![main.seid][main.far] = new])
      BY <1>3 DEF SendFAR
    <3>2. kfar \in [Seids -> [FarIDs -> FAR \cup {None}]]
      BY DEF TypeOK
    <3>3. old # None => new \in FAR
      <4>1. old # None => old \in FAR
        BY <2>1, <3>2
      <4> HIDE DEF old
      <4> QED BY <2>1, <4>1 DEF FAR, Change
    <3> HIDE DEF new, old
    <3>4. old # None =>
            [kfar EXCEPT ![main.seid][main.far] = new] \in [Seids -> [FarIDs -> FAR \cup {None}]]
      BY <2>1, <3>2, <3>3
    <3> QED BY <3>1, <3>2, <3>4
  <2>3. main' \in [at : {"call"}, seid : Seids, session : Sess \cup {None}]
    BY <1>3, <2>1, CallType DEF SendFAR
  <2> QED BY <1>3, <2>2, <2>3 DEF SendFAR, TypeOK
<1>4. CASE Reply
  <2>1. main.seid \in Seids /\ main.session \in Sess \cup {None}
    BY <1>4, MainType DEF Reply
  <2>2. main.session # None => \A r \in PdrIDs : Len(main.session.q[r]) <= QLen
    BY <1>4, <2>1 DEF Reply, MainInv, TypeOK
  <2>3. sess' = [sess EXCEPT ![main.seid] = main.session] /\ main' = Idle
    BY <1>4 DEF Reply
  <2>4. /\ sess' \in [Seids -> Sess \cup {None}]
        /\ \A t \in Seids : sess'[t] # None => \A r \in PdrIDs : Len(sess'[t].q[r]) <= QLen
    BY <2>1, <2>2, <2>3, SessType
  <2>5. lost' \subseteq 1 .. MaxPackets
    <3>1. sess[main.seid] \in Sess
      BY <1>4, <2>1 DEF Reply, MainInv, TypeOK
    <3>2. Queued(sess[main.seid]) \subseteq 1 .. MaxPackets
      BY <3>1, RangeOfQueue, Zenon DEF Queued
    <3>3. lost' = lost \/ lost' = lost \cup Queued(sess[main.seid])
      BY <1>4 DEF Reply
    <3> QED BY <3>2, <3>3 DEF TypeOK
  <2> QED BY <1>4, <2>3, <2>4, <2>5 DEF Reply, TypeOK, kernel
<1> QED BY <1>1, <1>2, <1>3, <1>4, <1>5 DEF Proceeds

LEMMA TypeStep ==
    ASSUME TypeOK, MainInv, [Next]_vars PROVE TypeOK'
<1>1. CASE Next
  BY <1>1, FlightType, ReportType, RequestType, DriverType DEF Next
<1>2. CASE UNCHANGED vars
  BY <1>2 DEF TypeOK, vars
<1> QED BY <1>1, <1>2

-----------------------------------------------------------------------------
(* What main waits for                                                     *)

LEMMA MainIdle ==
    ASSUME main' = Idle PROVE MainInv'
BY DEF MainInv, Idle

\* a request that leaves the queues alone
LEMMA MainCall ==
    ASSUME NEW s \in Seids, sess[s] # None, TypeOK,
           NEW session \in Sess, session.q = sess[s].q,
           NEW after \in Sess \cup {None},
           after # None => after.q = sess[s].q,
           sess' = [sess EXCEPT ![s] = session], main' = Call(s, after)
    PROVE  MainInv'
<1>1. sess'[s] = session /\ session # None
  BY BufferAssumption DEF TypeOK
<1>2. main'.at = "call" /\ main'.seid = s /\ main'.session = after
  BY DEF Call
<1> QED BY <1>1, <1>2 DEF MainInv

\* The sessions after a step of main other than ServeReport and EmptyQueue:
\* with the queues they had, or new.
QueuesKept ==
    \A s \in Seids : sess'[s] # None =>
        \/ sess[s] # None /\ sess'[s].q = sess[s].q
        \/ \A p \in PdrIDs : sess'[s].q[p] = <<>>

LEMMA RequestSessions ==
    ASSUME TypeOK, MainInv, Requests
    PROVE  MainInv' /\ QueuesKept /\ UNCHANGED <<sent, nlq, mux, srCh, written>>
<1> SUFFICES ASSUME NEW s \in Seids, main = Idle,
                    \/ SessionEstablishment(s) \/ SessionDeletion(s)
                    \/ \E p \in PdrIDs : \/ RemovePDR(s, p)
                                         \/ \E f \in FarIDs : CreatePDR(s, p, f) \/ UpdatePDR(s, p, f)
                    \/ \E f \in FarIDs :
                          \/ RemoveFAR(s, f)
                          \/ \E far \in NewFARs[f] : CreateFAR(s, f, far)
                          \/ \E c \in Changes[f], asked \in {f, 0} : UpdateFAR(s, f, c, asked)
             PROVE  MainInv' /\ QueuesKept /\ UNCHANGED <<sent, nlq, mux, srCh, written>>
  BY RequestIdle, Zenon DEF Requests
<1>1. CASE SessionEstablishment(s)
  <2>1. MainInv'
    BY <1>1, MainIdle DEF SessionEstablishment
  <2>2. \A p \in PdrIDs : NewSess.q[p] = <<>>
    BY DEF NewSess
  <2>3. sess' = [sess EXCEPT ![s] = NewSess]
    BY <1>1 DEF SessionEstablishment
  <2> HIDE DEF NewSess
  <2>4. QueuesKept
    BY <2>2, <2>3 DEF QueuesKept, TypeOK
  <2> QED BY <1>1, <2>1, <2>4 DEF SessionEstablishment, kernel
<1>u. sess' = sess => QueuesKept
  BY DEF QueuesKept
<1>s. sess[s] # None => /\ sess[s] \in Sess
                        /\ sess' = sess => sess' = [sess EXCEPT ![s] = sess[s]]
  BY DEF TypeOK
<1>2. CASE SessionDeletion(s)
  <2>1. sess[s] # None /\ sess' = sess /\ main' = Call(s, None)
    BY <1>2 DEF SessionDeletion
  <2>2. MainInv'
    BY <2>1, <1>s, MainCall
  <2> QED BY <1>2, <1>u, <2>1, <2>2 DEF SessionDeletion
<1>3. ASSUME NEW p \in PdrIDs, RemovePDR(s, p)
      PROVE  MainInv' /\ QueuesKept /\ UNCHANGED <<sent, nlq, mux, srCh, written>>
  <2> DEFINE after == [sess[s] EXCEPT !.pdrs = @ \ {p}]
  <2>1. sess[s] # None /\ sess' = sess /\ (main' = Call(s, after) \/ main' = Call(s, sess[s]))
    BY <1>3 DEF RemovePDR
  <2>2. after \in Sess /\ after.q = sess[s].q
    BY <1>s, <2>1 DEF Sess
  <2> HIDE DEF after
  <2>3. MainInv'
    BY <2>1, <2>2, <1>s, MainCall
  <2> QED BY <1>3, <1>u, <2>1, <2>3 DEF RemovePDR
<1>4. ASSUME NEW p \in PdrIDs, NEW f \in FarIDs, CreatePDR(s, p, f)
      PROVE  MainInv' /\ QueuesKept /\ UNCHANGED <<sent, nlq, mux, srCh, written>>
  <2> DEFINE session == [sess[s] EXCEPT !.pdrs = @ \cup {p}]
  <2>1. /\ sess[s] # None /\ sess' = [sess EXCEPT ![s] = session] /\ sess'[s] = session
        /\ main' = Call(s, sess'[s])
    BY <1>4 DEF CreatePDR, TypeOK
  <2>2. session \in Sess /\ session.q = sess[s].q
    BY <1>s, <2>1 DEF Sess
  <2> HIDE DEF session
  <2>3. MainInv'
    BY <2>1, <2>2, MainCall
  <2>4. QueuesKept
    BY <2>1, <2>2 DEF QueuesKept, TypeOK
  <2> QED BY <1>4, <2>3, <2>4 DEF CreatePDR
<1>5. ASSUME NEW p \in PdrIDs, NEW f \in FarIDs, UpdatePDR(s, p, f)
      PROVE  MainInv' /\ QueuesKept /\ UNCHANGED <<sent, nlq, mux, srCh, written>>
  <2>1. sess[s] # None /\ sess' = sess /\ main' = Call(s, sess[s])
    BY <1>5 DEF UpdatePDR
  <2>2. MainInv'
    BY <2>1, <1>s, MainCall
  <2> QED BY <1>5, <1>u, <2>1, <2>2 DEF UpdatePDR
<1>6. ASSUME NEW f \in FarIDs, RemoveFAR(s, f)
      PROVE  MainInv' /\ QueuesKept /\ UNCHANGED <<sent, nlq, mux, srCh, written>>
  <2> DEFINE after == [sess[s] EXCEPT !.fars = @ \ {f}]
  <2>1. sess[s] # None /\ sess' = sess /\ (main' = Call(s, after) \/ main' = Call(s, sess[s]))
    BY <1>6 DEF RemoveFAR
  <2>2. after \in Sess /\ after.q = sess[s].q
    BY <1>s, <2>1 DEF Sess
  <2> HIDE DEF after
  <2>3. MainInv'
    BY <2>1, <2>2, <1>s, MainCall
  <2> QED BY <1>6, <1>u, <2>1, <2>3 DEF RemoveFAR
<1>7. ASSUME NEW f \in FarIDs, NEW far \in NewFARs[f], CreateFAR(s, f, far)
      PROVE  MainInv' /\ QueuesKept /\ UNCHANGED <<sent, nlq, mux, srCh, written>>
  <2> DEFINE session == [sess[s] EXCEPT !.fars = @ \cup {f}]
  <2>1. /\ sess[s] # None /\ sess' = [sess EXCEPT ![s] = session] /\ sess'[s] = session
        /\ main' = Call(s, sess'[s])
    BY <1>7 DEF CreateFAR, TypeOK
  <2>2. session \in Sess /\ session.q = sess[s].q
    BY <1>s, <2>1 DEF Sess
  <2> HIDE DEF session
  <2>3. MainInv'
    BY <2>1, <2>2, MainCall
  <2>4. QueuesKept
    BY <2>1, <2>2 DEF QueuesKept, TypeOK
  <2> QED BY <1>7, <2>3, <2>4 DEF CreateFAR
<1>8. ASSUME NEW f \in FarIDs, NEW c \in Changes[f], NEW asked \in {f, 0}, UpdateFAR(s, f, c, asked)
      PROVE  MainInv' /\ QueuesKept /\ UNCHANGED <<sent, nlq, mux, srCh, written>>
  <2>1. /\ sess[s] # None /\ sess' = sess /\ main'.seid = s
        /\ main'.at = "get" \/ (main'.at = "drain" /\ main'.pdrs = {})
    BY <1>8 DEF UpdateFAR, Get, Drain
  <2> QED BY <1>8, <1>u, <2>1 DEF UpdateFAR, MainInv, kernel
<1> QED BY <1>1, <1>2, <1>3, <1>4, <1>5, <1>6, <1>7, <1>8

LEMMA DriverSessions ==
    ASSUME TypeOK, MainInv,
           ApplyAction \/ (\E p \in PdrIDs : SkipQueue(p)) \/ SendFAR \/ Reply
    PROVE  MainInv' /\ QueuesKept /\ UNCHANGED <<sent, nlq, mux, srCh, written>>
<1>1. CASE ApplyAction
  <2>1. /\ main.at # "idle" /\ main'.at = "drain" /\ main'.seid = main.seid /\ sess' = sess
        /\ main'.pdrs # {} => main'.read # None
    BY <1>1 DEF ApplyAction, Drain, Releases
  <2> QED BY <1>1, <2>1 DEF ApplyAction, MainInv, QueuesKept, kernel
<1>2. CASE SendFAR
  <2>1. /\ main.at # "idle" /\ main'.at = "call" /\ main'.seid = main.seid /\ sess' = sess
        /\ main'.session = sess[main.seid]
    BY <1>2 DEF SendFAR, Call
  <2> QED BY <1>2, <2>1 DEF SendFAR, MainInv, QueuesKept
<1>3. CASE Reply
  <2>1. main.seid \in Seids /\ main.at = "call"
    BY <1>3, MainType DEF Reply
  <2>2. sess' = [sess EXCEPT ![main.seid] = main.session] /\ main' = Idle
    BY <1>3 DEF Reply
  <2>3. QueuesKept
    BY <2>1, <2>2 DEF QueuesKept, TypeOK, MainInv
  <2> QED BY <1>3, <2>2, <2>3, MainIdle DEF Reply, kernel
<1>4. ASSUME NEW p \in PdrIDs, SkipQueue(p)
      PROVE  MainInv' /\ QueuesKept /\ UNCHANGED <<sent, nlq, mux, srCh, written>>
  <2>1. /\ main.at = "drain" /\ main.pdrs # {} /\ sess' = sess
        /\ main'.at = "drain" /\ main'.seid = main.seid /\ main'.read = main.read
    BY <1>4, MainType DEF SkipQueue
  <2> QED BY <1>4, <2>1 DEF SkipQueue, MainInv, QueuesKept, kernel
<1> QED BY <1>1, <1>2, <1>3, <1>4

LEMMA MainStep ==
    ASSUME TypeOK, MainInv, [Next]_vars PROVE MainInv'
<1>1. CASE UNCHANGED <<main, sess>>
  BY <1>1 DEF MainInv
<1>2. CASE ServeReport
  BY <1>2, MainIdle DEF ServeReport
<1>3. ASSUME NEW p \in PdrIDs, EmptyQueue(p) PROVE MainInv'
  <2>1. /\ main.seid \in Seids /\ sess[main.seid] \in Sess
        /\ sess' = [sess EXCEPT ![main.seid] = Emptied(sess[main.seid], p)]
    BY <1>3, EmptyQueueFacts
  <2>2. Emptied(sess[main.seid], p) \in Sess
    BY <2>1, EmptiedSession
  <2> HIDE DEF Emptied
  <2>3. sess'[main.seid] # None
    BY <2>1, <2>2, BufferAssumption DEF TypeOK
  <2>4. /\ main'.at = "drain" /\ main'.seid = main.seid /\ main'.read = main.read
        /\ main.pdrs # {} /\ main.at = "drain"
    BY <1>3, MainType DEF EmptyQueue
  <2> QED BY <2>3, <2>4 DEF MainInv
<1>4. CASE UNCHANGED vars \/ (\E s \in Seids, p \in PdrIDs : KernelBuffers(s, p)) \/ Mux
  BY <1>1, <1>4 DEF vars, KernelBuffers, Mux, ServeMsg, NotifySessReport
<1> QED BY <1>2, <1>3, <1>4, RequestSessions, DriverSessions DEF Next, Proceeds

-----------------------------------------------------------------------------
(* The order of packets                                                    *)

LEMMA TailOrder ==
    ASSUME NEW S, NEW q \in Seq(S), q # <<>>, Increasing(q),
           \A i \in 1 .. Len(q) : q[i].n \in Nat
    PROVE  /\ Increasing(Tail(q)) /\ Above(Tail(q), Head(q).n)
           /\ \A n \in Nat : Below(q, n) => Below(Tail(q), n) /\ Head(q).n < n
           /\ \A n \in Nat : Above(q, n) => Above(Tail(q), n) /\ n < Head(q).n
<1>1. /\ Len(q) \in Nat /\ Len(q) > 0 /\ Head(q) = q[1]
      /\ Len(Tail(q)) = Len(q) - 1
      /\ \A i \in 1 .. Len(Tail(q)) : Tail(q)[i] = q[i + 1]
  OBVIOUS
<1>2. Increasing(Tail(q)) /\ Above(Tail(q), Head(q).n)
  BY <1>1 DEF Increasing, Above
<1>3. \A n \in Nat : Below(q, n) => Below(Tail(q), n) /\ Head(q).n < n
  BY <1>1 DEF Below
<1>4. \A n \in Nat : Above(q, n) => Above(Tail(q), n) /\ n < Head(q).n
  BY <1>1 DEF Above
<1> QED BY <1>2, <1>3, <1>4

LEMMA AppendOrder ==
    ASSUME NEW S, NEW q \in Seq(S), NEW x \in S, Increasing(q), Below(q, x.n)
    PROVE  /\ Increasing(Append(q, x))
           /\ \A n \in Nat : Below(q, n) /\ x.n < n => Below(Append(q, x), n)
           /\ \A n \in Nat : Above(q, n) /\ n < x.n => Above(Append(q, x), n)
<1>1. /\ Len(q) \in Nat /\ Len(Append(q, x)) = Len(q) + 1
      /\ \A i \in 1 .. Len(q) : Append(q, x)[i] = q[i]
      /\ Append(q, x)[Len(q) + 1] = x
  OBVIOUS
<1>2. Increasing(Append(q, x))
  BY <1>1 DEF Increasing, Below
<1>3. \A n \in Nat : Below(q, n) /\ x.n < n => Below(Append(q, x), n)
  BY <1>1 DEF Below
<1>4. \A n \in Nat : Above(q, n) /\ n < x.n => Above(Append(q, x), n)
  BY <1>1 DEF Above
<1> QED BY <1>2, <1>3, <1>4

LEMMA AppendRising ==
    ASSUME NEW q \in Seq(1 .. MaxPackets), NEW x \in 1 .. MaxPackets, Rising(q),
           \A i \in 1 .. Len(q) : q[i] < x
    PROVE  /\ Rising(Append(q, x))
           /\ \A n \in Nat : Newer(q, n) /\ n < x => Newer(Append(q, x), n)
<1>1. /\ Len(q) \in Nat /\ Len(Append(q, x)) = Len(q) + 1
      /\ \A i \in 1 .. Len(q) : Append(q, x)[i] = q[i]
      /\ Append(q, x)[Len(q) + 1] = x
  OBVIOUS
<1>2. Rising(Append(q, x))
  BY <1>1 DEF Rising
<1>3. \A n \in Nat : Newer(q, n) /\ n < x => Newer(Append(q, x), n)
  BY <1>1 DEF Newer
<1> QED BY <1>2, <1>3

\* the numbers of packets in flight, held and written
LEMMA Numbers ==
    ASSUME TypeOK
    PROVE  /\ sent \in Nat
           /\ \A i \in 1 .. Len(nlq) : nlq[i].n \in Nat
           /\ mux # None => mux.n \in Nat
           /\ \A i \in 1 .. Len(srCh) : srCh[i].n \in Nat
           /\ \A s \in Seids : sess[s] # None =>
                 \A p \in PdrIDs : \A i \in 1 .. Len(sess[s].q[p]) : sess[s].q[p][i] \in Nat
           /\ \A i \in 1 .. Len(written) : written[i].n \in Nat
<1>1. \A m \in Message : m.n \in Nat
  BY BufferAssumption DEF Message
<1>2. \A n \in 1 .. MaxPackets : n \in Nat
  BY BufferAssumption
<1>3. \A w \in Written : w.n \in Nat
  BY BufferAssumption DEF Written
<1>4. ASSUME NEW s \in Seids, sess[s] # None, NEW p \in PdrIDs
      PROVE  \A i \in 1 .. Len(sess[s].q[p]) : sess[s].q[p][i] \in Nat
  <2>1. sess[s].q[p] \in Seq(1 .. MaxPackets)
    BY <1>4 DEF TypeOK, Sess
  <2> QED BY ONLY <2>1, Bounds
<1>5. sent \in Nat /\ nlq \in Seq(Message) /\ srCh \in Seq(Message) /\ written \in Seq(Written)
  BY BufferAssumption DEF TypeOK
<1>6. mux # None => mux.n \in Nat
  BY <1>1 DEF TypeOK
<1> QED BY <1>1, <1>3, <1>4, <1>5, <1>6

\* A packet on its way to main stays behind those already served.
LEMMA FlightStep ==
    ASSUME TypeOK, FlightInv,
           (\E s \in Seids, p \in PdrIDs : KernelBuffers(s, p)) \/ Mux
    PROVE  /\ FlightInv' /\ UNCHANGED <<sess, written>>
           /\ \A n \in Nat : Served(n) => Served(n)'
<1>n. /\ sent \in Nat /\ nlq \in Seq(Message) /\ srCh \in Seq(Message)
      /\ mux \in Message \cup {None}
      /\ \A m \in Message : m.n \in Nat
      /\ \A i \in 1 .. Len(nlq) : nlq[i].n \in Nat
      /\ \A i \in 1 .. Len(srCh) : srCh[i].n \in Nat
  <2>1. \A m \in Message : m.n \in Nat
    BY BufferAssumption DEF Message
  <2>2. nlq \in Seq(Message) /\ srCh \in Seq(Message) /\ mux \in Message \cup {None}
    BY DEF TypeOK
  <2> QED BY <2>1, <2>2, Numbers
<1>1. ASSUME NEW s \in Seids, NEW p \in PdrIDs, KernelBuffers(s, p)
      PROVE  /\ FlightInv' /\ UNCHANGED <<sess, written>>
             /\ \A n \in Nat : Served(n) => Served(n)'
  <2> DEFINE m == [n |-> sent + 1, seid |-> s, pdr |-> p,
                   action |-> kfar[s][kpdr[s][p]].action]
  <2>1. /\ sent' = sent + 1 /\ UNCHANGED <<mux, srCh, sess, written>>
        /\ nlq' = nlq \/ nlq' = Append(nlq, m)
    BY <1>1 DEF KernelBuffers
  <2>2. m \in Message
    <3>1. kfar[s][kpdr[s][p]] \in FAR /\ sent < MaxPackets
      BY <1>1, BufferingFAR DEF KernelBuffers
    <3> QED BY <3>1, BufferAssumption, <1>n DEF Message, FAR
  <2>3. m.n = sent + 1
    OBVIOUS
  <2> HIDE DEF m
  <2>4. CASE nlq' = nlq
    <3>1. Below(nlq, sent + 2)
      BY <1>n DEF FlightInv, Below
    <3>2. Below(srCh, sent + 2)
      BY <1>n DEF FlightInv, Below
    <3> QED BY <1>n, <2>1, <2>4, <3>1, <3>2 DEF FlightInv, Served
  <2>5. CASE nlq' = Append(nlq, m)
    <3>1. /\ Increasing(nlq') /\ Below(nlq', sent + 2)
          /\ \A n \in Nat : Above(nlq, n) /\ n < sent + 1 => Above(nlq', n)
      <4>1. Below(nlq, sent + 2)
        BY <1>n DEF FlightInv, Below
      <4> QED BY <1>n, <2>2, <2>3, <2>5, <4>1, AppendOrder DEF FlightInv
    <3>2. Below(srCh, sent + 2)
      BY <1>n DEF FlightInv, Below
    <3>3. \A i \in 1 .. Len(srCh) : Above(nlq', srCh[i].n)
      BY <1>n, <3>1 DEF FlightInv, Below
    <3>4. mux # None => mux.n <= sent + 1 /\ Above(nlq', mux.n) /\ Below(srCh, mux.n)
      BY <1>n, <3>1 DEF FlightInv
    <3>5. FlightInv'
      BY <1>n, <2>1, <3>1, <3>2, <3>3, <3>4 DEF FlightInv
    <3>6. \A n \in Nat : Served(n) => Served(n)'
      BY <1>n, <2>1, <3>1 DEF Served
    <3> QED BY <2>1, <3>5, <3>6
  <2> QED BY <2>1, <2>4, <2>5
<1>2. CASE ServeMsg
  <2>1. /\ nlq # <<>> /\ mux = None /\ mux' = Head(nlq) /\ nlq' = Tail(nlq)
        /\ UNCHANGED <<sent, srCh, sess, written>>
    BY <1>2 DEF ServeMsg
  <2>2. /\ Increasing(nlq') /\ Above(nlq', mux'.n)
        /\ \A n \in Nat : Below(nlq, n) => Below(nlq', n) /\ mux'.n < n
        /\ \A n \in Nat : Above(nlq, n) => Above(nlq', n) /\ n < mux'.n
    BY <1>n, <2>1, TailOrder DEF FlightInv
  <2>3. mux'.n \in Nat
    BY <1>n, <2>1
  <2>4. Below(srCh, mux'.n)
    BY <1>n, <2>2 DEF FlightInv, Below
  <2>5. FlightInv'
    BY <1>n, <2>1, <2>2, <2>3, <2>4 DEF FlightInv
  <2>6. \A n \in Nat : Served(n) => Served(n)'
    BY <2>1, <2>2 DEF Served
  <2> QED BY <2>1, <2>5, <2>6
<1>3. CASE NotifySessReport
  <2>1. /\ mux # None /\ mux' = None /\ srCh' = Append(srCh, mux)
        /\ UNCHANGED <<sent, nlq, sess, written>>
    BY <1>3 DEF NotifySessReport
  <2>2. /\ Increasing(srCh')
        /\ \A n \in Nat : Below(srCh, n) /\ mux.n < n => Below(srCh', n)
        /\ \A n \in Nat : Above(srCh, n) /\ n < mux.n => Above(srCh', n)
    BY <1>n, <2>1, AppendOrder DEF FlightInv
  <2>3. \A i \in 1 .. Len(srCh') : Above(nlq, srCh'[i].n)
    <3>1. /\ Len(srCh') = Len(srCh) + 1
          /\ \A i \in 1 .. Len(srCh) : srCh'[i] = srCh[i]
          /\ srCh'[Len(srCh) + 1] = mux
      BY <1>n, <2>1
    <3> QED BY <1>n, <2>1, <3>1 DEF FlightInv
  <2>4. FlightInv'
    BY <1>n, <2>1, <2>2, <2>3 DEF FlightInv
  <2>5. \A n \in Nat : Served(n) => Served(n)'
    BY <2>1, <2>2 DEF Served
  <2> QED BY <2>1, <2>4, <2>5
<1> QED BY <1>1, <1>2, <1>3 DEF Mux

\* Queues and written packets that a step leaves alone stay in order.
LEMMA QueueKept ==
    ASSUME TypeOK, HeldInv, written' = written, \A n \in Nat : Served(n) => Served(n)',
           NEW s \in Seids, NEW p \in PdrIDs, sess[s] # None,
           sess'[s].q[p] = sess[s].q[p]
    PROVE  QueueInv(s, p, sess[s].q[p])'
<1> DEFINE q == sess[s].q[p]
<1>1. QueueInv(s, p, q)
  BY DEF HeldInv
<1>2. \A i \in 1 .. Len(q) : q[i] \in Nat
  BY Numbers
<1>3. q' = q
  OBVIOUS
<1> HIDE DEF q
<1>4. QueueInv(s, p, q)'
  BY <1>1, <1>2, <1>3 DEF QueueInv, Served
<1> QED BY <1>4 DEF q

LEMMA EmptyKept ==
    ASSUME NEW s \in Seids, NEW p \in PdrIDs, sess'[s].q[p] = <<>>
    PROVE  QueueInv(s, p, sess[s].q[p])'
BY DEF QueueInv, Rising, Newer

LEMMA WrittenKept ==
    ASSUME TypeOK, WrittenInv, written' = written, \A n \in Nat : Served(n) => Served(n)'
    PROVE  WrittenInv'
<1>1. \A i \in 1 .. Len(written) : Served(written[i].n)'
  BY Numbers DEF WrittenInv, Served
<1>2. WrittenInOrder'
  BY DEF WrittenInv, WrittenInOrder
<1> QED BY <1>1, <1>2 DEF WrittenInv

LEMMA OrderInFlight ==
    ASSUME TypeOK, FlightInv, HeldInv, WrittenInv,
           (\E s \in Seids, p \in PdrIDs : KernelBuffers(s, p)) \/ Mux
    PROVE  FlightInv' /\ HeldInv' /\ WrittenInv'
<1>1. /\ FlightInv' /\ UNCHANGED <<sess, written>>
      /\ \A n \in Nat : Served(n) => Served(n)'
  BY FlightStep
<1>2. HeldInv'
  BY <1>1, QueueKept DEF HeldInv
<1>3. WrittenInv'
  BY <1>1, WrittenKept
<1> QED BY <1>1, <1>2, <1>3

LEMMA OrderInRequests ==
    ASSUME TypeOK, FlightInv, HeldInv, WrittenInv, QueuesKept,
           UNCHANGED <<sent, nlq, mux, srCh, written>>
    PROVE  FlightInv' /\ HeldInv' /\ WrittenInv'
<1>1. \A n \in Nat : Served(n) => Served(n)'
  BY DEF Served
<1>2. FlightInv'
  BY DEF FlightInv
<1>3. ASSUME NEW s \in Seids, sess'[s] # None, NEW p \in PdrIDs
      PROVE  QueueInv(s, p, sess[s].q[p])'
  BY <1>1, <1>3, QueueKept, EmptyKept DEF QueuesKept
<1>4. HeldInv'
  BY <1>3 DEF HeldInv
<1> QED BY <1>1, <1>2, <1>4, WrittenKept

\* main serves the oldest packet in flight, and queues it behind the others
LEMMA OrderInReports ==
    ASSUME TypeOK, FlightInv, HeldInv, WrittenInv, ServeReport
    PROVE  FlightInv' /\ HeldInv' /\ WrittenInv'
<1>m. PICK m : m = Head(srCh)
  OBVIOUS
<1>1. /\ srCh \in Seq(Message) /\ srCh # <<>> /\ srCh' = Tail(srCh)
      /\ UNCHANGED <<sent, nlq, mux, written>>
  BY DEF ServeReport, TypeOK, kernel
<1>2. /\ m \in Message /\ m = srCh[1] /\ Len(srCh) \in Nat /\ Len(srCh) > 0
      /\ Len(srCh') = Len(srCh) - 1 /\ \A i \in 1 .. Len(srCh') : srCh'[i] = srCh[i + 1]
  BY <1>1, <1>m
<1>3. m.seid \in Seids /\ m.pdr \in PdrIDs /\ m.n \in Nat
  BY <1>2, BufferAssumption DEF Message
<1>4. /\ Increasing(srCh') /\ Above(srCh', m.n)
      /\ \A n \in Nat : Below(srCh, n) => Below(srCh', n) /\ m.n < n
      /\ \A n \in Nat : Above(srCh, n) => Above(srCh', n) /\ n < m.n
  BY <1>1, <1>m, Numbers, TailOrder DEF FlightInv
<1>5. FlightInv'
  <2>1. \A i \in 1 .. Len(srCh') : Above(nlq, srCh'[i].n)
    BY <1>2 DEF FlightInv
  <2> QED BY <1>1, <1>4, <2>1, Numbers DEF FlightInv
<1>6. \A n \in Nat : Served(n) => Served(n)' /\ n < m.n
  BY <1>1, <1>4 DEF Served
<1>7. Served(m.n)'
  <2>1. m.n <= sent /\ (mux # None => m.n < mux.n) /\ Above(nlq, m.n)
    BY <1>2, <1>3, Numbers DEF FlightInv, Below
  <2> QED BY <1>1, <1>4, <2>1 DEF Served
<1>8. WrittenInv'
  BY <1>1, <1>6, WrittenKept
<1>9. HeldInv'
  <2>1. CASE sess' = sess
    BY <1>1, <1>6, <2>1, QueueKept DEF HeldInv
  <2>2. CASE sess[m.seid] # None /\ sess' = [sess EXCEPT ![m.seid] = Push(sess[m.seid], m)]
    <3> DEFINE s == m.seid
               p == m.pdr
               q == sess[s].q[p]
    <3>2. sess[s] \in Sess /\ \A r \in PdrIDs : Len(sess[s].q[r]) <= QLen
      BY <1>3, <2>2 DEF TypeOK
    <3>3. /\ \A r \in PdrIDs : r # p => Push(sess[s], m).q[r] = sess[s].q[r]
          /\ Push(sess[s], m).q[p] = q \/ Push(sess[s], m).q[p] = Append(q, m.n)
      BY <1>2, <3>2, PushType
    <3>4. \A t \in Seids : t # s => sess'[t] = sess[t]
      BY <2>2 DEF TypeOK
    <3>5. sess'[s] = Push(sess[s], m)
      BY <1>3, <2>2 DEF TypeOK
    <3>6. ASSUME sess'[s].q[p] = Append(q, m.n)
          PROVE  QueueInv(s, p, sess[s].q[p])'
      <4>1. QueueInv(s, p, q) /\ q \in Seq(1 .. MaxPackets)
        BY <1>3, <2>2, <3>2, RangeOfQueue DEF HeldInv
      <4>2. \A i \in 1 .. Len(q) : q[i] \in Nat
        BY <1>3, <2>2, Numbers
      <4>3. PICK h : h = m.n
        OBVIOUS
      <4>4. h \in 1 .. MaxPackets /\ h \in Nat
        BY <1>2, <1>3, <4>3 DEF Message
      <4> HIDE DEF q
      <4>5. \A i \in 1 .. Len(q) : q[i] < h
        BY <1>6, <4>1, <4>2, <4>3 DEF QueueInv
      <4>6. /\ Rising(Append(q, h))
            /\ \A n \in Nat : Newer(q, n) /\ n < h => Newer(Append(q, h), n)
        BY <4>1, <4>4, <4>5, AppendRising DEF QueueInv
      <4>7. /\ Len(Append(q, h)) = Len(q) + 1 /\ Len(q) \in Nat
            /\ \A i \in 1 .. Len(q) : Append(q, h)[i] = q[i]
            /\ Append(q, h)[Len(q) + 1] = h
        BY <4>1, <4>4
      <4>8. \A j \in 1 .. Len(written) :
               written[j].seid = s /\ written[j].pdr = p => Newer(Append(q, h), written[j].n)
        BY <1>6, <4>1, <4>3, <4>6, Numbers DEF QueueInv, WrittenInv
      <4>9. ASSUME NEW i \in 1 .. Len(Append(q, h)), NEW n, n = Append(q, h)[i]
            PROVE  Served(n)'
        <5>1. CASE i \in 1 .. Len(q)
          BY <1>6, <4>1, <4>2, <4>7, <4>9, <5>1 DEF QueueInv
        <5>2. CASE i = Len(q) + 1
          BY <1>7, <4>3, <4>7, <4>9, <5>2
        <5> QED BY <4>7, <5>1, <5>2
      <4> DEFINE q2 == sess'[s].q[p]
      <4>10. /\ Rising(q2)
             /\ \A i \in 1 .. Len(q2) : \A n : n = q2[i] => Served(n)'
             /\ \A j \in 1 .. Len(written') :
                    written'[j].seid = s /\ written'[j].pdr = p => Newer(q2, written'[j].n)
        BY <1>1, <3>6, <4>3, <4>6, <4>8, <4>9
      <4> QED BY <4>10 DEF QueueInv, Served
    <3>7. ASSUME NEW t \in Seids, sess'[t] # None, NEW r \in PdrIDs
          PROVE  QueueInv(t, r, sess[t].q[r])'
      <4>1. CASE t = s /\ r = p /\ sess'[s].q[p] = Append(q, m.n)
        BY <3>6, <4>1
      <4>2. CASE ~(t = s /\ r = p /\ sess'[s].q[p] = Append(q, m.n))
        <5>1. sess[t] # None /\ sess'[t].q[r] = sess[t].q[r]
          BY <2>2, <3>3, <3>4, <3>5, <3>7, <4>2
        <5> QED BY <1>1, <1>6, <5>1, QueueKept
      <4> QED BY <4>1, <4>2
    <3> QED BY <3>7 DEF HeldInv
  <2> QED BY <1>m, <2>1, <2>2, ReportFacts
<1> QED BY <1>5, <1>8, <1>9

LEMMA Concatenation ==
    ASSUME NEW S, NEW u \in Seq(S), NEW v \in Seq(S)
    PROVE  /\ Len(u \o v) = Len(u) + Len(v) /\ Len(u) \in Nat /\ Len(v) \in Nat
           /\ \A i \in 1 .. Len(u \o v) :
                 (u \o v)[i] = IF i <= Len(u) THEN u[i] ELSE v[i - Len(u)]
OBVIOUS

\* main writes a queue out: behind all that is written for the PDR, in order
LEMMA OrderInRelease ==
    ASSUME TypeOK, MainInv, FlightInv, HeldInv, WrittenInv, NEW p \in PdrIDs, EmptyQueue(p)
    PROVE  FlightInv' /\ HeldInv' /\ WrittenInv'
<1>f. UNCHANGED <<sent, nlq, mux, srCh>>
  BY DEF EmptyQueue, kernel
<1>1. FlightInv'
  BY <1>f DEF FlightInv
<1>2. \A n \in Nat : Served(n) => Served(n)'
  BY <1>f DEF Served
<1>3. PICK s : s = main.seid
  OBVIOUS
<1>4. /\ s \in Seids /\ sess[s] \in Sess
      /\ sess' = [sess EXCEPT ![s] = Emptied(sess[s], p)]
      /\ \/ written' = written
         \/ \E param \in Params : written' = written \o PacketsOf(sess[s].q[p], s, p, param)
  BY <1>3, EmptyQueueFacts
<1>5. sess[s] # None
  BY <1>4, BufferAssumption
<1>6. /\ sess'[s].q[p] = <<>>
      /\ \A r \in PdrIDs : r # p => sess'[s].q[r] = sess[s].q[r]
      /\ \A t \in Seids : t # s => sess'[t] = sess[t]
  <2>1. sess'[s] = Emptied(sess[s], p) /\ \A t \in Seids : t # s => sess'[t] = sess[t]
    <3> HIDE DEF Emptied
    <3> QED BY <1>4 DEF TypeOK
  <2> QED BY <1>4, <2>1, EmptiedSession
<1>7. CASE written' = written
  <2>1. ASSUME NEW t \in Seids, sess'[t] # None, NEW r \in PdrIDs
        PROVE  QueueInv(t, r, sess[t].q[r])'
    <3>1. CASE t = s /\ r = p
      BY <1>6, <3>1, EmptyKept
    <3>2. CASE ~(t = s /\ r = p)
      <4>1. sess[t] # None /\ sess'[t].q[r] = sess[t].q[r]
        BY <1>5, <1>6, <2>1, <3>2
      <4> QED BY <1>2, <1>7, <4>1, QueueKept
    <3> QED BY <3>1, <3>2
  <2>2. HeldInv'
    BY <2>1 DEF HeldInv
  <2> QED BY <1>1, <1>2, <1>7, <2>2, WrittenKept
<1>8. ASSUME NEW param \in Params, written' = written \o PacketsOf(sess[s].q[p], s, p, param)
      PROVE  FlightInv' /\ HeldInv' /\ WrittenInv'
  <2> DEFINE q == sess[s].q[p]
             v == PacketsOf(sess[s].q[p], s, p, param)
             k == Len(written)
  <2>1. /\ v \in Seq(Written) /\ Len(v) = Len(q)
        /\ \A i \in 1 .. Len(q) : v[i].n = q[i] /\ v[i].seid = s /\ v[i].pdr = p
    <3>1. /\ v \in Seq(Written) /\ Len(v) = Len(q)
          /\ \A i \in 1 .. Len(q) : v[i] = [n |-> q[i], seid |-> s, pdr |-> p, param |-> param]
      BY <1>4, RangeOfQueue, PacketsOfQueue
    <3> HIDE DEF q, v
    <3>2. ASSUME NEW i \in 1 .. Len(q)
          PROVE  v[i].n = q[i] /\ v[i].seid = s /\ v[i].pdr = p
      <4>1. v[i] = [n |-> q[i], seid |-> s, pdr |-> p, param |-> param]
        BY <3>1
      <4> QED BY ONLY <4>1
    <3> QED BY <3>1, <3>2
  <2>2. QueueInv(s, p, q)
    BY <1>4, <1>5 DEF HeldInv
  <2>3. \A i \in 1 .. Len(q) : q[i] \in Nat
    BY <1>4, <1>5, Numbers
  <2>4. written \in Seq(Written) /\ \A i \in 1 .. k : written[i].n \in Nat
    BY Numbers DEF TypeOK
  <2>5. written' = written \o v
    BY <1>8
  <2> HIDE DEF q, v
  <2>6. /\ Len(written') = k + Len(v) /\ k \in Nat /\ Len(v) \in Nat
        /\ \A i \in 1 .. Len(written') :
              written'[i] = IF i <= k THEN written[i] ELSE v[i - k]
    BY <2>1, <2>4, <2>5, Concatenation
  <2> HIDE DEF k
  <2>7. \A i \in 1 .. Len(written') :
           \/ i \in 1 .. k /\ written'[i] = written[i]
           \/ i - k \in 1 .. Len(q) /\ i > k /\ written'[i] = v[i - k]
    BY <2>1, <2>6
  <2>8. WrittenInv'
    <3>1. ASSUME NEW i \in 1 .. Len(written'), NEW n, n = written'[i].n
          PROVE  n \in Nat /\ Served(n)'
      <4>1. CASE i \in 1 .. k /\ written'[i] = written[i]
        BY <1>2, <2>4, <3>1, <4>1 DEF WrittenInv, k
      <4>2. CASE i - k \in 1 .. Len(q) /\ written'[i] = v[i - k]
        BY <1>2, <2>1, <2>2, <2>3, <3>1, <4>2 DEF QueueInv
      <4> QED BY <2>7, <4>1, <4>2
    <3>3. WrittenInOrder'
      <4>1. ASSUME NEW i \in 1 .. Len(written'), NEW j \in 1 .. Len(written'), i < j,
                   written'[i].seid = written'[j].seid, written'[i].pdr = written'[j].pdr
            PROVE  written'[i].n < written'[j].n
        <5>1. CASE i \in 1 .. k /\ written'[i] = written[i] /\ j \in 1 .. k /\ written'[j] = written[j]
          BY <4>1, <5>1 DEF WrittenInv, WrittenInOrder, k
        <5>2. CASE /\ i \in 1 .. k /\ written'[i] = written[i]
                   /\ j - k \in 1 .. Len(q) /\ written'[j] = v[j - k]
          <6>1. /\ v[j - k].n = q[j - k] /\ v[j - k].seid = s /\ v[j - k].pdr = p
            BY <2>1, <5>2
          <6>2. written[i].seid = s /\ written[i].pdr = p /\ i \in 1 .. Len(written)
            BY <4>1, <5>2, <6>1 DEF k
          <6>3. Newer(q, written[i].n)
            BY <2>2, <6>2 DEF QueueInv
          <6> QED BY <5>2, <6>1, <6>3 DEF Newer
        <5>3. CASE /\ i - k \in 1 .. Len(q) /\ written'[i] = v[i - k]
                   /\ j - k \in 1 .. Len(q) /\ written'[j] = v[j - k]
          BY <2>1, <2>2, <2>6, <4>1, <5>3 DEF QueueInv, Rising
        <5>4. /\ (i \in 1 .. k /\ written'[i] = written[i]) \/ (i - k \in 1 .. Len(q) /\ i > k /\ written'[i] = v[i - k])
              /\ (j \in 1 .. k /\ written'[j] = written[j]) \/ (j - k \in 1 .. Len(q) /\ j > k /\ written'[j] = v[j - k])
          BY <2>7, <4>1
        <5>5. ~(i > k /\ j \in 1 .. k)
          BY ONLY <2>6, <4>1, i \in 1 .. Len(written')
        <5> QED BY <5>1, <5>2, <5>3, <5>4, <5>5
      <4> QED BY <4>1 DEF WrittenInOrder
    <3> QED BY <3>1, <3>3 DEF WrittenInv, Served
  <2>9. HeldInv'
    <3>1. ASSUME NEW t \in Seids, sess'[t] # None, NEW r \in PdrIDs
          PROVE  QueueInv(t, r, sess[t].q[r])'
      <4>1. CASE t = s /\ r = p
        BY <1>6, <4>1, EmptyKept
      <4>2. CASE ~(t = s /\ r = p)
        <5> DEFINE q2 == sess[t].q[r]
        <5>1. sess[t] # None /\ sess'[t].q[r] = q2
          BY <1>5, <1>6, <3>1, <4>2
        <5>2. QueueInv(t, r, q2) /\ \A i \in 1 .. Len(q2) : q2[i] \in Nat
          BY <5>1, Numbers DEF HeldInv
        <5> HIDE DEF q2
        <5>3. \A i \in 1 .. Len(q2) : \A n : n = q2[i] => Served(n)'
          BY <1>2, <5>2 DEF QueueInv
        <5>4. ASSUME NEW j \in 1 .. Len(written'), written'[j].seid = t, written'[j].pdr = r
              PROVE  Newer(q2, written'[j].n)
          <6>1. j \in 1 .. k /\ written'[j] = written[j]
            BY <2>1, <2>7, <4>2, <5>4
          <6> QED BY <5>2, <5>4, <6>1 DEF QueueInv, k
        <5> QED BY <5>1, <5>2, <5>3, <5>4 DEF QueueInv, Served
      <4> QED BY <4>1, <4>2
    <3> QED BY <3>1 DEF HeldInv
  <2> QED BY <1>1, <2>8, <2>9
<1> QED BY <1>4, <1>7, <1>8

-----------------------------------------------------------------------------
(* The theorems                                                            *)

LEMMA InvariantStep ==
    ASSUME IInv, [Next]_vars PROVE IInv'
<1> USE DEF IInv
<1>1. TypeOK' /\ MainInv'
  BY TypeStep, MainStep
<1>2. CASE UNCHANGED vars
  <2>1. QueuesKept /\ UNCHANGED <<sent, nlq, mux, srCh, written>>
    BY <1>2 DEF vars, QueuesKept
  <2> QED BY <1>1, <2>1, OrderInRequests
<1>3. CASE (\E s \in Seids, p \in PdrIDs : KernelBuffers(s, p)) \/ Mux
  BY <1>1, <1>3, OrderInFlight
<1>4. CASE ServeReport
  BY <1>1, <1>4, OrderInReports
<1>5. CASE Requests \/ ApplyAction \/ (\E p \in PdrIDs : SkipQueue(p)) \/ SendFAR \/ Reply
  BY <1>1, <1>5, RequestSessions, DriverSessions, OrderInRequests
<1>6. ASSUME NEW p \in PdrIDs, EmptyQueue(p) PROVE IInv'
  BY <1>1, <1>6, OrderInRelease
<1> QED BY <1>2, <1>3, <1>4, <1>5, <1>6 DEF Next, Proceeds

LEMMA InvariantHolds == Spec => []IInv
BY InitInvariant, InvariantStep, PTL DEF Spec

\* Types: in particular neither netlink socket, srCh nor a queue of Sess.Push
\* ever holds more than its length.
THEOREM TypeCorrect == Spec => []TypeOK
<1>1. IInv => TypeOK
  BY DEF IInv
<1> QED BY <1>1, InvariantHolds, PTL

\* The packets that applyAction writes for one PDR leave in the order in which
\* the kernel handed them over, each once, whatever reports, updates and
\* sessions come in between.
THEOREM PacketsWrittenInOrder == Spec => []WrittenInOrder
<1>1. IInv => WrittenInOrder
  BY DEF IInv, WrittenInv
<1> QED BY <1>1, InvariantHolds, PTL

-----------------------------------------------------------------------------
(* The switch of a FAR                                                     *)

LEMMA DrainStep ==
    ASSUME TypeOK, MainInv, DrainInv, [Next]_vars PROVE DrainInv'
<1>1. CASE UNCHANGED <<main, sess, kpdr, kfar>>
  BY <1>1 DEF DrainInv, Releases, Linked
<1>2. CASE main'.at # "drain"
  BY <1>2 DEF DrainInv
<1>3. CASE ApplyAction
  <2>1. main.seid \in Seids /\ main.far \in FarIDs
    BY <1>3, MainType DEF ApplyAction
  <2>2. PICK read \in {None} \cup {kfar[main.seid][f] : f \in FarIDs \cap {main.asked}} :
          main' = Drain(main.seid, main.far, main.change, main.asked, read,
                        IF Releases(read, main.change) THEN Linked(main.seid, main.asked) ELSE {})
    BY <1>3 DEF ApplyAction
  <2>3. PICK pdrs : pdrs = IF Releases(read, main.change) THEN Linked(main.seid, main.asked) ELSE {}
    OBVIOUS
  <2>4. /\ main'.seid = main.seid /\ main'.far = main.far /\ main'.change = main.change
        /\ main'.asked = main.asked /\ main'.read = read /\ main'.pdrs = pdrs
        /\ UNCHANGED <<kpdr, kfar, sess>>
    BY <1>3, <2>2, <2>3 DEF ApplyAction, Drain, kernel
  <2>5. main.asked = main.far /\ read # None => read = kfar[main.seid][main.far]
    BY <2>2
  <2>6. main.asked = main.far /\ Releases(read, main.change) => pdrs = Linked(main.seid, main.far)
    BY <2>3
  <2>7. (Linked(main.seid, main.far) = Linked(main.seid, main.far)')
    BY <2>4 DEF Linked
  <2> QED BY <2>4, <2>5, <2>6, <2>7 DEF DrainInv, Releases
<1>4. ASSUME NEW p \in PdrIDs, EmptyQueue(p) PROVE DrainInv'
  <2>1. /\ main.seid \in Seids /\ sess[main.seid] \in Sess
        /\ sess' = [sess EXCEPT ![main.seid] = Emptied(sess[main.seid], p)]
    BY <1>4, EmptyQueueFacts
  <2>2. /\ main.at = "drain" /\ main'.seid = main.seid /\ main'.far = main.far
        /\ main'.change = main.change /\ main'.read = main.read /\ main'.pdrs = main.pdrs \ {p}
        /\ main'.asked = main.asked /\ main'.skipped = main.skipped
        /\ UNCHANGED <<kpdr, kfar>>
    BY <1>4, MainType DEF EmptyQueue, kernel
  <2>3. /\ sess'[main.seid].q[p] = <<>>
        /\ \A r \in PdrIDs : r # p => sess'[main.seid].q[r] = sess[main.seid].q[r]
    <3>1. sess'[main.seid] = Emptied(sess[main.seid], p)
      BY <2>1 DEF TypeOK
    <3> QED BY <2>1, <3>1, EmptiedSession
  <2>4. Linked(main.seid, main.far)' = Linked(main.seid, main.far) /\ Linked(main.seid, main.far) \subseteq PdrIDs
    BY <2>2 DEF Linked
  <2> QED BY <2>2, <2>3, <2>4 DEF DrainInv, Releases
<1>5. CASE ServeReport
  BY <1>2, <1>5, MainType DEF ServeReport, Idle
<1>6. CASE Requests
  <2>1. \/ main' = main /\ main = Idle
        \/ main'.at \in {"call", "get"}
        \/ main'.at = "drain" /\ main'.read = None
    BY <1>6 DEF Requests, SessionEstablishment, SessionDeletion, RemovePDR, CreatePDR, UpdatePDR,
                RemoveFAR, CreateFAR, UpdateFAR, Call, Get, Drain
  <2> QED BY <1>2, <2>1 DEF Idle, DrainInv
<1>7. CASE SendFAR \/ Reply
  BY <1>2, <1>7 DEF SendFAR, Reply, Call, Idle
<1>8. CASE UNCHANGED vars \/ (\E s \in Seids, p \in PdrIDs : KernelBuffers(s, p)) \/ Mux
  BY <1>1, <1>8 DEF vars, KernelBuffers, Mux, ServeMsg, NotifySessReport
<1>9. ASSUME NEW p \in PdrIDs, SkipQueue(p) PROVE DrainInv'
  <2>1. /\ main.at = "drain" /\ main'.seid = main.seid /\ main'.far = main.far
        /\ main'.change = main.change /\ main'.read = main.read /\ main'.pdrs = main.pdrs \ {p}
        /\ main'.asked = main.asked /\ main'.skipped = main.skipped \cup {p}
        /\ UNCHANGED <<kpdr, kfar, sess>>
    BY <1>9, MainType DEF SkipQueue, kernel
  <2>2. Linked(main.seid, main.far)' = Linked(main.seid, main.far)
    BY <2>1 DEF Linked
  <2> QED BY <2>1, <2>2 DEF DrainInv, Releases
<1> QED BY <1>3, <1>4, <1>5, <1>6, <1>7, <1>8, <1>9 DEF Next, Proceeds

\* only SendFAR changes a FAR of the kernel while main drains
LEMMA SwitchStep ==
    ASSUME TypeOK, MainInv, DrainInv, [Next]_vars,
           NEW s \in Seids, NEW f \in FarIDs,
           main.at = "drain", main.asked = main.far, main.read # None,
           StopsBuffering(kfar[s][f], kfar'[s][f]),
           NEW p \in Linked(s, f) \ main.skipped
    PROVE  sess'[s].q[p] = <<>>
<1>0. /\ "BUFF" \in kfar[s][f].action /\ "BUFF" \notin kfar'[s][f].action
      /\ kfar'[s][f].action \cap {"DROP", "FORW"} # {}
  BY DEF StopsBuffering
<1>1. SendFAR
  <2>1. main # Idle
    BY DEF Idle
  <2>2. ~ServeReport /\ ~Requests
    BY <2>1, RequestIdle DEF ServeReport
  <2>3. kfar' # kfar
    BY <1>0
  <2> QED BY <2>2, <2>3 DEF Next, Proceeds, vars, KernelBuffers, Mux, ServeMsg, NotifySessReport,
                            ApplyAction, EmptyQueue, SkipQueue, Reply, kernel
<1>2. /\ main.seid \in Seids /\ main.far \in FarIDs /\ main.change \in Change
      /\ main.pdrs = {} /\ UNCHANGED sess
  BY <1>1, MainType DEF SendFAR
<1>3. PICK far : far = [action |-> IF main.change.action # None THEN main.change.action
                                   ELSE kfar[main.seid][main.far].action,
                        param  |-> IF main.change.param # None THEN main.change.param
                                   ELSE kfar[main.seid][main.far].param]
  OBVIOUS
<1>4. kfar' = [kfar EXCEPT ![main.seid][main.far] = far]
  BY <1>0, <1>1, <1>3 DEF SendFAR
<1>5. s = main.seid /\ f = main.far /\ kfar'[s][f] = far
  BY <1>0, <1>2, <1>4 DEF TypeOK
<1>6. main.change.action # None /\ main.change.action \cap {"DROP", "FORW"} # {}
  BY <1>0, <1>3, <1>5
<1>7. Releases(main.read, main.change)
  BY <1>0, <1>5, <1>6 DEF Releases, DrainInv
<1> QED BY <1>2, <1>5, <1>7 DEF DrainInv

\* When an update makes the kernel's FAR drop or forward what it buffered
\* (applyAction before UpdateFAROID, gtp5g.go), no packet is left in the queues
\* of its PDRs, for any sessions, rules and packets - provided that applyAction
\* asked for that FAR, was told of it, and was told of the PDR of each queue.
THEOREM SwitchReleasesAll == Spec => SwitchLeavesNoneHeld
<1>1. Init => DrainInv
  BY DEF Init, DrainInv, Idle
<1>2. IInv /\ DrainInv /\ [Next]_vars => DrainInv'
  BY DrainStep DEF IInv
<1>3. IInv /\ DrainInv /\ [Next]_vars =>
        [\A s \in Seids, f \in FarIDs :
          /\ main.at = "drain" /\ main.asked = main.far /\ main.read # None
          /\ StopsBuffering(kfar[s][f], kfar'[s][f])
          => \A p \in Linked(s, f) \ main.skipped : sess'[s].q[p] = <<>>]_vars
  BY SwitchStep DEF IInv
<1> QED BY <1>1, <1>2, <1>3, InvariantHolds, PTL DEF Spec, SwitchLeavesNoneHeld
=============================================================================
