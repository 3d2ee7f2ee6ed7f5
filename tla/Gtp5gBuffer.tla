----------------------------- MODULE Gtp5gBuffer -----------------------------
(***************************************************************************)
(* Downlink buffering with the gtp5g driver (internal/forwarder/gtp5g.go,  *)
(* internal/forwarder/buffnetlink, Sess.Push and Pop of internal/pfcp).    *)
(*                                                                         *)
(* A packet that meets a buffering FAR in the kernel is sent to user space *)
(* over a netlink socket, passes the multiplexer goroutine and srCh, and   *)
(* is put by main into a queue of its session and PDR.  UpdateFAR empties  *)
(* the queues of the FAR's PDRs before it changes the kernel's FAR.        *)
(*                                                                         *)
(* Processes: the kernel, the multiplexer goroutine (mux.Serve, started in *)
(* OpenGtp5g), and main, the PFCP event loop, in which every driver call   *)
(* runs.  The multiplexer carries the multicast messages and the replies   *)
(* to the driver's requests alike: while it waits for room in srCh, main   *)
(* gets no reply, and while main waits for a reply, nobody empties srCh.   *)
(*                                                                         *)
(* Every netlink request may fail: the kernel refuses to change a rule, or *)
(* does not tell of one.  A PFCP request is modelled with one rule in it;  *)
(* a request with several is a sequence of these without a report in       *)
(* between.  Left out: the QERs (they give the packet written its QFI),    *)
(* precedence and PDI of a PDR, a failing send of a packet that is         *)
(* written, the Session Report Request that announces a packet (the        *)
(* requests the UPF sends are those of PfcpTransaction), and the usage     *)
(* reports of the multicast group, which go through srCh to the            *)
(* ServeReport of PfcpSession.                                             *)
(***************************************************************************)
EXTENDS Naturals, Sequences, Functions

LOCAL INSTANCE FiniteSets
LOCAL INSTANCE FiniteSetsExt

CONSTANTS
    Seids, PdrIDs,
    FarIDs,      \* numbers; 0 may be one of them
    Actions,     \* apply actions a request may carry: subsets of Flags
    Params,      \* outer headers a FAR may create (tunnel endpoints)
    NewFARs,     \* what a request may create a FAR ID as: members of FAR
    Changes,     \* what an update of a FAR ID may carry: members of Change
    None,
    NlLen,       \* messages the netlink socket holds
    SrLen,       \* REPORT_CHANNEL_LEN
    QLen,        \* BUFFQ_LEN
    MaxPackets,  \* bound: packets that meet a buffering FAR
    MaxSessions  \* bound: sessions established with one SEID

Flags  == {"DROP", "FORW", "BUFF", "NOCP"}
FAR    == [action : Actions, param : Params \cup {None}]
\* None: the request has no such IE
Change == [action : Actions \cup {None}, param : Params \cup {None}]

\* the packets in a queue are numbered as they met a buffering FAR
Sess == [pdrs : SUBSET PdrIDs, fars : SUBSET FarIDs, q : [PdrIDs -> Seq(1 .. MaxPackets)]]

ASSUME BufferAssumption ==
    /\ Actions \subseteq SUBSET Flags /\ FarIDs \subseteq Nat
    /\ NewFARs \in [FarIDs -> SUBSET FAR] /\ Changes \in [FarIDs -> SUBSET Change]
    /\ {NlLen, SrLen, QLen, MaxPackets, MaxSessions} \subseteq Nat
    /\ None \notin Params /\ None \notin FarIDs /\ None \notin Actions /\ None \notin Sess

VARIABLES
    kpdr,     \* kernel: the FAR of each PDR, None without PDR
    kfar,     \* kernel: action and outer header of each FAR
    sent,     \* packets that have met a buffering FAR
    nlq,      \* messages in the netlink socket
    mux,      \* message the multiplexer goroutine is passing on
    srCh,
    main,     \* what main is waiting for
    sess,     \* LocalNode.sess: rules and queues of each session
    born,     \* sessions established so far with each SEID
    written,  \* packets written to the access network, oldest first
    lost      \* history: packets dropped on the way

vars == <<kpdr, kfar, sent, nlq, mux, srCh, main, sess, born, written, lost>>
kernel == <<kpdr, kfar, sent, nlq>>

Message == [n : 1 .. MaxPackets, seid : Seids, pdr : PdrIDs, action : Actions]
Written == [n : 1 .. MaxPackets, seid : Seids, pdr : PdrIDs, param : Params]

Idle == [at |-> "idle"]
\* waiting for the reply to GetFAROID, which asks for a FAR by the ID read so
\* far: that of the update, or 0 when the Apply Action comes before the FAR ID
Get(s, f, c, asked) == [at |-> "get", seid |-> s, far |-> f, change |-> c, asked |-> asked]
\* emptying the queues of pdrs, having read the FAR (None: no FAR was read) and
\* having skipped those for whose PDR the kernel did not answer
Drain(s, f, c, asked, read, pdrs) ==
    [at |-> "drain", seid |-> s, far |-> f, change |-> c, asked |-> asked, read |-> read,
     pdrs |-> pdrs, skipped |-> {}]
\* waiting for the reply to the last netlink request of a driver call, after
\* which the session is as given
Call(s, session) == [at |-> "call", seid |-> s, session |-> session]

TypeOK ==
    /\ kpdr \in [Seids -> [PdrIDs -> FarIDs \cup {None}]]
    /\ kfar \in [Seids -> [FarIDs -> FAR \cup {None}]]
    /\ sent \in 0 .. MaxPackets
    /\ nlq \in Seq(Message) /\ Len(nlq) <= NlLen
    /\ mux \in Message \cup {None}
    /\ srCh \in Seq(Message) /\ Len(srCh) <= SrLen
    /\ sess \in [Seids -> Sess \cup {None}]
    /\ \A s \in Seids : sess[s] # None => \A p \in PdrIDs : Len(sess[s].q[p]) <= QLen
    /\ \/ main = Idle
       \/ main \in [at : {"get"}, seid : Seids, far : FarIDs, change : Change,
                    asked : FarIDs \cup {0}]
       \/ main \in [at : {"drain"}, seid : Seids, far : FarIDs, change : Change,
                    asked : FarIDs \cup {0}, read : FAR \cup {None},
                    pdrs : SUBSET PdrIDs, skipped : SUBSET PdrIDs]
       \/ main \in [at : {"call"}, seid : Seids, session : Sess \cup {None}]
    /\ born \in [Seids -> 0 .. MaxSessions]
    /\ written \in Seq(Written)
    /\ lost \subseteq 1 .. MaxPackets

Init ==
    /\ kpdr = [s \in Seids |-> [p \in PdrIDs |-> None]]
    /\ kfar = [s \in Seids |-> [f \in FarIDs |-> None]]
    /\ sent = 0 /\ nlq = <<>> /\ mux = None /\ srCh = <<>>
    /\ main = Idle
    /\ sess = [s \in Seids |-> None]
    /\ born = [s \in Seids |-> 0]
    /\ written = <<>> /\ lost = {}

-----------------------------------------------------------------------------
(* The kernel and the multiplexer goroutine                                *)

\* A packet meets a buffering FAR; a full socket loses it
KernelBuffers(s, p) ==
    /\ sent < MaxPackets
    /\ kpdr[s][p] # None
    /\ LET far == kfar[s][kpdr[s][p]] IN
       /\ far # None /\ "BUFF" \in far.action
       /\ \/ /\ Len(nlq) < NlLen
             /\ nlq' = Append(nlq, [n |-> sent + 1, seid |-> s, pdr |-> p, action |-> far.action])
             /\ UNCHANGED lost
          \/ /\ Len(nlq) = NlLen
             /\ lost' = lost \cup {sent + 1}
             /\ UNCHANGED nlq
    /\ sent' = sent + 1
    /\ UNCHANGED <<kpdr, kfar, mux, srCh, main, sess, born, written>>

\* ServeMsg decodes the next message ...
ServeMsg ==
    /\ mux = None /\ nlq # <<>>
    /\ mux' = Head(nlq)
    /\ nlq' = Tail(nlq)
    /\ UNCHANGED <<kpdr, kfar, sent, srCh, main, sess, born, written, lost>>

\* mutant: the multiplexer waits for main to be ready for the report
NotifySessReportUnbuffered ==
    /\ mux # None /\ Len(srCh) < SrLen /\ main = Idle
    /\ srCh' = Append(srCh, mux)
    /\ mux' = None
    /\ UNCHANGED <<kpdr, kfar, sent, nlq, main, sess, born, written, lost>>

\* ... and passes it on with NotifySessReport, which blocks on a full srCh
NotifySessReport ==
    /\ mux # None /\ Len(srCh) < SrLen
    /\ srCh' = Append(srCh, mux)
    /\ mux' = None
    /\ UNCHANGED <<kpdr, kfar, sent, nlq, main, sess, born, written, lost>>

-----------------------------------------------------------------------------
(* main: reports                                                           *)

\* mutant: room is made for the packet that arrives, and one too much is kept
PushOneTooMany(session, m) ==
    [session EXCEPT !.q[m.pdr] = IF Len(@) <= QLen THEN Append(@, m.n) ELSE Append(Tail(@), m.n)]

\* a full queue loses the packet that arrives
Push(session, m) ==
    [session EXCEPT !.q[m.pdr] = IF Len(@) < QLen THEN Append(@, m.n) ELSE @]

\* ServeReport: a packet is lost when its session is gone, when the node ID of
\* the session does not resolve to an address, or when no queue took it
ServeReport ==
    /\ main = Idle /\ srCh # <<>>
    /\ LET m == Head(srCh) IN
       \/ /\ sess[m.seid] # None
          /\ sess' = IF "BUFF" \in m.action THEN [sess EXCEPT ![m.seid] = Push(@, m)] ELSE sess
          /\ lost' = IF sess' = sess THEN lost \cup {m.n} ELSE lost
       \/ /\ lost' = lost \cup {m.n}
          /\ UNCHANGED sess
    /\ srCh' = Tail(srCh)
    /\ UNCHANGED <<kernel, mux, main, born, written>>

-----------------------------------------------------------------------------
(* main: requests.  A driver call sends a netlink request, on which the    *)
(* kernel acts at once, and waits for the reply.                           *)

NewSess ==
    [pdrs |-> {}, fars |-> {}, q |-> [p \in PdrIDs |-> <<>>]]

SessionEstablishment(s) ==
    /\ main = Idle /\ sess[s] = None /\ born[s] < MaxSessions
    /\ sess' = [sess EXCEPT ![s] = NewSess]
    /\ born' = [born EXCEPT ![s] = @ + 1]
    /\ UNCHANGED <<kernel, mux, srCh, main, written, lost>>

\* Close removes every rule it knows, but those the kernel refuses to remove,
\* and the session goes with its queues
SessionDeletion(s) ==
    /\ main = Idle /\ sess[s] # None
    /\ \E keptP \in SUBSET sess[s].pdrs, keptF \in SUBSET sess[s].fars :
          /\ kpdr' = [kpdr EXCEPT ![s] = [p \in PdrIDs |->
                        IF p \in sess[s].pdrs \ keptP THEN None ELSE @[p]]]
          /\ kfar' = [kfar EXCEPT ![s] = [f \in FarIDs |->
                        IF f \in sess[s].fars \ keptF THEN None ELSE @[f]]]
    /\ main' = Call(s, None)
    /\ UNCHANGED <<sent, nlq, mux, srCh, sess, born, written, lost>>

\* the PDR is tracked before the driver is asked
CreatePDR(s, p, f) ==
    /\ main = Idle /\ sess[s] # None
    /\ sess' = [sess EXCEPT ![s].pdrs = @ \cup {p}]
    /\ kpdr' \in {kpdr, [kpdr EXCEPT ![s][p] = f]}
    /\ main' = Call(s, sess'[s])
    /\ UNCHANGED <<kfar, sent, nlq, mux, srCh, born, written, lost>>

UpdatePDR(s, p, f) ==
    /\ main = Idle /\ sess[s] # None /\ p \in sess[s].pdrs
    /\ \/ kpdr[s][p] # None /\ kpdr' = [kpdr EXCEPT ![s][p] = f]
       \/ UNCHANGED kpdr
    /\ main' = Call(s, sess[s])
    /\ UNCHANGED <<kfar, sent, nlq, mux, srCh, sess, born, written, lost>>

\* the queue of the PDR stays
RemovePDR(s, p) ==
    /\ main = Idle /\ sess[s] # None /\ p \in sess[s].pdrs
    /\ \/ /\ kpdr' = [kpdr EXCEPT ![s][p] = None]
          /\ main' = Call(s, [sess[s] EXCEPT !.pdrs = @ \ {p}])
       \/ /\ UNCHANGED kpdr
          /\ main' = Call(s, sess[s])
    /\ UNCHANGED <<kfar, sent, nlq, mux, srCh, sess, born, written, lost>>

CreateFAR(s, f, far) ==
    /\ main = Idle /\ sess[s] # None
    /\ sess' = [sess EXCEPT ![s].fars = @ \cup {f}]
    /\ kfar' \in {kfar, [kfar EXCEPT ![s][f] = far]}
    /\ main' = Call(s, sess'[s])
    /\ UNCHANGED <<kpdr, sent, nlq, mux, srCh, born, written, lost>>

RemoveFAR(s, f) ==
    /\ main = Idle /\ sess[s] # None /\ f \in sess[s].fars
    /\ \/ /\ kfar' = [kfar EXCEPT ![s][f] = None]
          /\ main' = Call(s, [sess[s] EXCEPT !.fars = @ \ {f}])
       \/ /\ UNCHANGED kfar
          /\ main' = Call(s, sess[s])
    /\ UNCHANGED <<kpdr, sent, nlq, mux, srCh, sess, born, written, lost>>

\* UpdateFAR meets the Apply Action in the request and asks the kernel for
\* the FAR whose ID it has read so far; without an Apply Action it asks nothing
UpdateFAR(s, f, change, asked) ==
    /\ main = Idle /\ sess[s] # None /\ f \in sess[s].fars
    /\ main' = IF change.action = None THEN Drain(s, f, change, f, None, {})
               ELSE Get(s, f, change, asked)
    /\ UNCHANGED <<kernel, mux, srCh, sess, born, written, lost>>

\* the PDRs of the FAR, far.PDRIDs
Linked(s, f) == {p \in PdrIDs : kpdr[s][p] = f}

\* mutant: only a FAR that is to forward is asked for its packets
ReleasesOnForward(far, change) ==
    /\ far # None /\ "BUFF" \in far.action
    /\ change.action # None /\ "FORW" \in change.action

\* applyAction looks at the action the kernel still has
Releases(far, change) ==
    /\ far # None /\ "BUFF" \in far.action
    /\ change.action # None /\ change.action \cap {"DROP", "FORW"} # {}

\* mutant: the packet read last is written first
PacketsOfReversed(q, s, p, param) ==
    [i \in 1 .. Len(q) |-> [n |-> q[Len(q) + 1 - i], seid |-> s, pdr |-> p, param |-> param]]

\* mutant: the last packet is taken for the end of the queue
PacketsOfButLast(q, s, p, param) ==
    [i \in 1 .. Len(q) - 1 |-> [n |-> q[i], seid |-> s, pdr |-> p, param |-> param]]

\* WritePacket for every packet that Pop returns
PacketsOf(q, s, p, param) ==
    [i \in 1 .. Len(q) |-> [n |-> q[i], seid |-> s, pdr |-> p, param |-> param]]

\* applyAction has the reply to GetFAROID, and knows which queues to empty; it
\* returns when the kernel has no such FAR or the request failed
ApplyAction ==
    /\ main.at = "get" /\ mux = None
    /\ LET s == main.seid
           a == main.asked
       IN  \E read \in {None} \cup {kfar[s][f] : f \in FarIDs \cap {a}} :
             main' = Drain(s, main.far, main.change, a, read,
                           IF Releases(read, main.change) THEN Linked(s, a) ELSE {})
    /\ UNCHANGED <<kernel, mux, srCh, sess, born, written, lost>>

\* It empties one queue.  The packets are dropped, or, after the reply to
\* GetPDROID, written with the outer header the FAR had; without one they are
\* lost.
EmptyQueue(p) ==
    /\ main.at = "drain" /\ p \in main.pdrs
    /\ LET s       == main.seid
           q       == sess[s].q[p]
           dropped == "DROP" \in main.change.action
       IN  /\ dropped \/ mux = None
           /\ IF dropped \/ main.read.param = None
              THEN lost' = lost \cup Range(q) /\ UNCHANGED written
              ELSE written' = written \o PacketsOf(q, s, p, main.read.param) /\ UNCHANGED lost
           /\ sess' = [sess EXCEPT ![s].q[p] = <<>>]
    /\ main' = [main EXCEPT !.pdrs = @ \ {p}]
    /\ UNCHANGED <<kernel, mux, srCh, born>>

\* GetPDROID fails, and the queue is left as it is
SkipQueue(p) ==
    /\ main.at = "drain" /\ p \in main.pdrs
    /\ "DROP" \notin main.change.action /\ mux = None
    /\ main' = [main EXCEPT !.pdrs = @ \ {p}, !.skipped = @ \cup {p}]
    /\ UNCHANGED <<kernel, mux, srCh, sess, born, written, lost>>

\* UpdateFAROID is sent, with the attributes the request has
SendFAR ==
    /\ main.at = "drain" /\ main.pdrs = {}
    /\ LET s == main.seid
           f == main.far
           c == main.change
       IN  /\ \/ /\ kfar[s][f] # None
                 /\ kfar' = [kfar EXCEPT ![s][f] =
                       [action |-> IF c.action # None THEN c.action ELSE @.action,
                        param  |-> IF c.param # None THEN c.param ELSE @.param]]
              \/ UNCHANGED kfar
           /\ main' = Call(s, sess[s])
    /\ UNCHANGED <<kpdr, sent, nlq, mux, srCh, sess, born, written, lost>>

\* the packets in the queues of a session
Queued(session) == UNION {Range(session.q[p]) : p \in PdrIDs}

\* the reply to the last request of the call; the queues go with the session
Reply ==
    /\ main.at = "call" /\ mux = None
    /\ sess' = [sess EXCEPT ![main.seid] = main.session]
    /\ lost' = IF main.session = None THEN lost \cup Queued(sess[main.seid]) ELSE lost
    /\ main' = Idle
    /\ UNCHANGED <<kernel, mux, srCh, born, written>>

Mux == ServeMsg \/ NotifySessReport

Requests ==
    \E s \in Seids :
        \/ SessionEstablishment(s) \/ SessionDeletion(s)
        \/ \E p \in PdrIDs : RemovePDR(s, p) \/ \E f \in FarIDs : CreatePDR(s, p, f) \/ UpdatePDR(s, p, f)
        \/ \E f \in FarIDs :
              \/ RemoveFAR(s, f)
              \/ \E far \in NewFARs[f] : CreateFAR(s, f, far)
              \/ \E c \in Changes[f], asked \in {f, 0} : UpdateFAR(s, f, c, asked)

\* main goes on with a driver call
Proceeds ==
    ApplyAction \/ (\E p \in PdrIDs : EmptyQueue(p) \/ SkipQueue(p)) \/ SendFAR \/ Reply

Next ==
    \/ \E s \in Seids, p \in PdrIDs : KernelBuffers(s, p)
    \/ Mux \/ ServeReport \/ Requests
    \/ Proceeds

\* The multiplexer goroutine serves what is ready, replies included, and the
\* select of main takes a report again and again, however many requests come.
Fairness ==
    /\ WF_vars(Mux)
    /\ SF_vars(Proceeds)
    /\ SF_vars(ServeReport)

Spec == Init /\ [][Next]_vars /\ Fairness

-----------------------------------------------------------------------------
(* Properties                                                              *)

\* Packets of one PDR are written in the order in which they met the
\* buffering FAR, none of them twice, through socket, srCh, queue and however
\* many updates of the FAR.
WrittenInOrder ==
    \A i, j \in 1 .. Len(written) :
        i < j /\ written[i].seid = written[j].seid /\ written[i].pdr = written[j].pdr
            => written[i].n < written[j].n

\* messages on their way to main, and the packets in the queues
InFlight == nlq \o srCh \o (IF mux = None THEN <<>> ELSE <<mux>>)
Queues   == {x \in Seids \X PdrIDs : sess[x[1]] # None}
QueuedAt(x) == sess[x[1]].q[x[2]]

\* Every packet that met a buffering FAR is in one place, and in no other: in
\* the socket, with the multiplexer, in srCh, in a queue, written, or dropped
\* for one of the reasons the code has.  None is left over when a session
\* goes, when a call changes the rules while reports wait, or when the queues
\* of a FAR are emptied.
PacketsAccounted ==
    /\ 1 .. sent = {m.n : m \in Range(InFlight)} \cup {w.n : w \in Range(written)} \cup lost
                   \cup UNION {Range(QueuedAt(x)) : x \in Queues}
    /\ sent = Len(InFlight) + Len(written) + Cardinality(lost)
                + MapThenSumSet(LAMBDA x : Len(QueuedAt(x)), Queues)

\* the FAR buffered, and now drops or forwards instead
StopsBuffering(old, new) ==
    /\ old # None /\ "BUFF" \in old.action
    /\ new # None /\ "BUFF" \notin new.action /\ new.action \cap {"DROP", "FORW"} # {}

\* When an update makes the kernel's FAR drop or forward what it buffered, user
\* space holds nothing for its PDRs any more, although applyAction runs before
\* the kernel's update: what main has served until then is written or dropped.
\* The code leaves packets behind in these cases, which are the conditions of
\* the formula: the update has its Apply Action before its FAR ID, so that
\* applyAction asks for FAR 0; the kernel does not tell of the FAR, or of the
\* PDR of a queue; the new action says neither DROP nor FORW.  (And what is in
\* the socket or in srCh at the time is queued later, and stays.)
SwitchLeavesNoneHeld ==
    [][\A s \in Seids, f \in FarIDs :
          /\ main.at = "drain" /\ main.asked = main.far /\ main.read # None
          /\ StopsBuffering(kfar[s][f], kfar'[s][f])
          => \A p \in Linked(s, f) \ main.skipped : sess'[s].q[p] = <<>>]_vars

\* As long as srCh does not fill up within a driver call, the call returns:
\* main, which empties srCh, gets its replies although the multiplexer passes
\* packets on in between.  (When srCh does fill up, both wait for ever: the
\* multiplexer for room in srCh, main for a reply.)
CallsReturn ==
    [](main.at # "idle" => mux = None \/ Len(srCh) < SrLen)
        => (main.at # "idle" ~> main.at = "idle")
=============================================================================
