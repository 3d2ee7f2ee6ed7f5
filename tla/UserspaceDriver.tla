--------------------------- MODULE UserspaceDriver ---------------------------
(***************************************************************************)
(* Buffering, delayed notification and usage accounting of the userspace   *)
(* forwarder (internal/forwarder/userspace), for the downlink packets of   *)
(* one session: its rules, all of one local SEID, and one UE address.      *)
(* Sessions share nothing but the lock, the workers and the channels.      *)
(*                                                                         *)
(* Processes: `main', the PFCP goroutine, which calls the rule operations  *)
(* and reads srCh; the workers, each with a queue; the callbacks of the    *)
(* notification timers; the periodic URR loop; the egress loops.  d.mu is  *)
(* held over a whole action, and from UpdateFAR until the last packet it   *)
(* releases is in egressCh.  A worker looks its packet up in the snapshot  *)
(* without the lock and uses the binding it found in later steps.  Every   *)
(* rule operation publishes the snapshot and nothing else changes rules,   *)
(* so a look-up sees the rules as they are; rule objects are replaced,     *)
(* never changed, so a binding keeps the rules as they were.  (The MASQUE  *)
(* handler of the adaptive QoS controller publishes without the lock,      *)
(* adaptive_qos.go:938; the model is of a driver with that option off.)    *)
(***************************************************************************)
EXTENDS Integers, Sequences, FiniteSets, SequencesExt

CONSTANTS
    PDRs,        \* PDR IDs
    FARs,        \* FAR IDs
    BARs,        \* BAR IDs
    URRs,        \* URR IDs
    None,        \* a nil pointer
    PDRRules,    \* the PDRs the control plane sends: [far, urrs]
    FARRules,    \* the FARs it sends: [act, bar]
    BARRules,    \* the BARs it sends: [limit, delay]
    URRRules,    \* the URRs it sends: [threshold, perio]
    Precedence,  \* Precedence[p], of PDR p
    Accepts,     \* Accepts[p]: the packets that pass the SDF filters of PDR p
    Workers,     \* the worker goroutines
    Shard,       \* the worker that shardForIPv4 gives the UE address
    MaxPkts,     \* bound: packets that arrive
    EgressLen,   \* capacity of egressCh
    SrLen        \* REPORT_CHANNEL_LEN of the PFCP server

Packets == 1 .. MaxPkts    \* in the order of their arrival

Flags == {"DROP", "FORW", "BUFF", "NOCP"}    \* of an Apply Action

PDRRule == [far : FARs \cup {None}, urrs : SUBSET URRs]
FARRule == [act : SUBSET Flags, bar : BARs \cup {None}]
BARRule == [limit : Nat, delay : BOOLEAN]      \* limit 0: none given
URRRule == [threshold : Nat, perio : BOOLEAN]  \* threshold 0: none given

ASSUME UserspaceConstants ==
    /\ PDRs \subseteq Nat /\ MaxPkts \in Nat
    /\ None \notin FARs \cup BARs \cup Nat \cup {"armed", "expired"}
    /\ PDRRules \subseteq PDRRule /\ FARRules \subseteq FARRule
    /\ BARRules \subseteq BARRule /\ URRRules \subseteq URRRule
    /\ Precedence \in [PDRs -> Nat]
    /\ Accepts \in [PDRs -> SUBSET Packets]
    /\ Shard \in Workers
    /\ EgressLen \in Nat \ {0} /\ SrLen \in Nat \ {0}

VARIABLES
    known,     \* d.sessions has the SEID
    pdrs, fars, bars, urrs,    \* the rule maps of SessionState, None: no entry
    qer,       \* SessionState.QERs is not empty
    buffers,   \* SessionState.Buffers
    usage,     \* SessionState.URRReports: packets measured, None: no entry
    pending,   \* pendingDDN: None, or whether the entry's timer has expired
    stray,     \* per PDR, running timers whose entry is gone
    fired,     \* per PDR, callbacks of expired timers that wait for d.mu
    posting,   \* reports of timer callbacks that wait for room in srCh
    loop,      \* the periodic URR loop has reports to post
    queue,     \* worker.queue
    work,      \* per worker, its packet, the binding it found and where it is
    drain,     \* per PDR, packets UpdateFAR has still to publish, with d.mu held
    turn,      \* the PDR whose packets it is publishing, None: the next one
    egressCh,  \* number of outcomes in egressCh
    srCh,      \* number of reports in srCh
    arrived,   \* history: packets read from the N6 interface
    out,       \* history: the outcomes published, in order
    gone,      \* history: packets dropped, evicted or discarded
    owed,      \* history: buffered packets the control plane is to be told of
    unreported \* history: per URR, packets accounted to it less those in its
               \* periodic and final reports

rules  == <<known, pdrs, fars, bars, urrs, qer>>
ddn    == <<pending, stray, fired, posting>>
meter  == <<usage, loop, unreported>>
intake == <<queue, arrived>>
fate   == <<out, gone>>
release == <<drain, turn>>
vars   == <<rules, buffers, ddn, meter, intake, work, release, egressCh, srCh,
            fate, owed>>

Idle == [at |-> "idle"]

\* a PacketOutcome that forwards: held tells whether it comes from a buffer
Outcome(k, p, held) == [pkt |-> k, pdr |-> p, held |-> held]
Outcomes == [pkt : Packets, pdr : PDRs, held : BOOLEAN]

\* a PDRBinding: the PDR's ID, its FAR's action, limit and delay of the FAR's
\* BAR, and the PDR's URRs with their rules
Bindings == [pdr : PDRs, act : SUBSET Flags, bar : BARRule,
             urrs : SUBSET (URRs \X URRRule)]

\* what a worker does with its packet next
Jobs == [at : {"publish", "buffer", "notify", "post", "count", "report"},
         pkt : Packets, b : Bindings]

TypeOK ==
    /\ known \in BOOLEAN /\ qer \in BOOLEAN /\ loop \in BOOLEAN
    /\ pdrs \in [PDRs -> PDRRule \cup {None}]
    /\ fars \in [FARs -> FARRule \cup {None}]
    /\ bars \in [BARs -> BARRule \cup {None}]
    /\ urrs \in [URRs -> URRRule \cup {None}]
    /\ buffers \in [PDRs -> Seq(Packets)]
    /\ usage \in [URRs -> Nat \cup {None}]
    /\ pending \in [PDRs -> {None, "armed", "expired"}]
    /\ stray \in [PDRs -> Nat] /\ fired \in [PDRs -> Nat] /\ posting \in Nat
    /\ queue \in [Workers -> Seq(Packets)]
    /\ work \in [Workers -> {Idle} \cup Jobs]
    /\ drain \in [PDRs -> Seq(Packets)] /\ turn \in PDRs \cup {None}
    /\ out \in Seq(Outcomes)
    /\ egressCh \in 0 .. EgressLen /\ srCh \in 0 .. SrLen
    /\ arrived \in 0 .. MaxPkts
    /\ gone \subseteq Packets /\ owed \subseteq Packets
    /\ unreported \in [URRs -> Int]

Init ==
    /\ known = FALSE /\ qer = FALSE /\ loop = FALSE
    /\ pdrs = [p \in PDRs |-> None] /\ fars = [f \in FARs |-> None]
    /\ bars = [b \in BARs |-> None] /\ urrs = [u \in URRs |-> None]
    /\ buffers = [p \in PDRs |-> <<>>]
    /\ usage = [u \in URRs |-> None]
    /\ pending = [p \in PDRs |-> None]
    /\ stray = [p \in PDRs |-> 0] /\ fired = [p \in PDRs |-> 0]
    /\ posting = 0
    /\ queue = [w \in Workers |-> <<>>] /\ work = [w \in Workers |-> Idle]
    /\ drain = [p \in PDRs |-> <<>>] /\ turn = None /\ egressCh = 0 /\ srCh = 0
    /\ arrived = 0 /\ out = <<>> /\ gone = {} /\ owed = {}
    /\ unreported = [u \in URRs |-> 0]

-----------------------------------------------------------------------------
(* Rule operations, called by main.                                        *)

\* d.mu is free, and main is not inside UpdateFAR
Unlocked == \A p \in PDRs : drain[p] = <<>>

\* ensureSessionLocked; the rule replaces one with the same ID
CreatePDR(p, r) ==
    /\ Unlocked
    /\ known' = TRUE
    /\ pdrs' = [pdrs EXCEPT ![p] = r]
    /\ UNCHANGED <<fars, bars, urrs, qer, buffers, ddn, meter, intake, work,
                   release, egressCh, srCh, fate, owed>>

\* what the request leaves out keeps its value
mergePDRRule(prev, next) ==
    [far  |-> IF next.far # None THEN next.far ELSE prev.far,
     urrs |-> IF next.urrs # {} THEN next.urrs ELSE prev.urrs]

mergeFARRule(prev, next) ==
    [act |-> IF next.act # {} THEN next.act ELSE prev.act,
     bar |-> IF next.bar # None THEN next.bar ELSE prev.bar]

UpdatePDR(p, r) ==
    /\ Unlocked
    /\ known /\ pdrs[p] # None
    /\ pdrs' = [pdrs EXCEPT ![p] = mergePDRRule(@, r)]
    /\ UNCHANGED <<known, fars, bars, urrs, qer, buffers, ddn, meter, intake,
                   work, release, egressCh, srCh, fate, owed>>

\* cancelPendingDDNLocked for the PDRs in P: an armed timer is stopped, the
\* callback of an expired one will find no entry
cancelPendingDDN(P) ==
    pending' = [p \in PDRs |-> IF p \in P THEN None ELSE pending[p]]

Held(P) == UNION {ToSet(buffers[p]) : p \in P}

\* deleteSessionIfEmptyLocked: the session goes when it holds nothing, and
\* its notifications, here those of all PDRs, go with it
deleteSessionIfEmpty(cancelled) ==
    LET empty == /\ \A p \in PDRs : pdrs'[p] = None /\ buffers[p] = <<>>
                 /\ \A f \in FARs : fars'[f] = None
                 /\ \A b \in BARs : bars'[b] = None
                 /\ \A u \in URRs : urrs'[u] = None /\ usage'[u] = None
                 /\ ~qer'
    IN /\ known' = ~empty
       /\ cancelPendingDDN(IF empty THEN PDRs ELSE cancelled)

RemovePDR(p) ==
    /\ Unlocked
    /\ known /\ pdrs[p] # None
    /\ pdrs' = [pdrs EXCEPT ![p] = None]
    /\ owed' = owed \ Held({p})
    /\ UNCHANGED <<fars, bars, urrs, qer, meter>>
    /\ deleteSessionIfEmpty({p})
    /\ UNCHANGED <<buffers, stray, fired, posting, intake, work, release,
                   egressCh, srCh, fate>>

CreateFAR(f, r) ==
    /\ Unlocked
    /\ known' = TRUE
    /\ fars' = [fars EXCEPT ![f] = r]
    /\ UNCHANGED <<pdrs, bars, urrs, qer, buffers, ddn, meter, intake, work,
                   release, egressCh, srCh, fate, owed>>

\* mutant: released packets stay in the buffer
EmptiedNot(P) == buffers

\* the buffers once those of the PDRs in P are deleted
Emptied(P) == [p \in PDRs |-> IF p \in P THEN <<>> ELSE buffers[p]]

\* the PDRs that forward by FAR f
Users(f) == {p \in PDRs : pdrs[p] # None /\ pdrs[p].far = f}

\* UpdateFAR with handleFARTransitionLocked: if the FAR buffered before, what
\* its PDRs hold is to be published if it forwards now, and discarded if not
UpdateFAR(f, r) ==
    /\ Unlocked
    /\ known /\ fars[f] # None
    /\ LET merged == mergeFARRule(fars[f], r)
           emptied == IF "BUFF" \in fars[f].act
                      THEN {p \in Users(f) : buffers[p] # <<>>}
                      ELSE {}
       IN /\ fars' = [fars EXCEPT ![f] = merged]
          /\ cancelPendingDDN(emptied)
          /\ buffers' = Emptied(emptied)
          /\ owed' = owed \ Held(emptied)
          /\ IF "FORW" \in merged.act
             THEN /\ drain' = [p \in PDRs |-> IF p \in emptied THEN buffers[p]
                                              ELSE <<>>]
                  /\ UNCHANGED gone
             ELSE gone' = gone \cup Held(emptied) /\ UNCHANGED drain
    /\ UNCHANGED <<known, pdrs, bars, urrs, qer, stray, fired, posting, meter,
                   intake, work, turn, egressCh, srCh, out>>

\* publishOutcome for the next packet UpdateFAR releases, PDR by PDR in map
\* order; it blocks while egressCh is full
DrainNext(p) ==
    /\ drain[p] # <<>> /\ turn \in {p, None}
    /\ egressCh < EgressLen
    /\ egressCh' = egressCh + 1
    /\ out' = Append(out, Outcome(Head(drain[p]), p, TRUE))
    /\ drain' = [drain EXCEPT ![p] = Tail(@)]
    /\ turn' = IF Tail(drain[p]) = <<>> THEN None ELSE p
    /\ UNCHANGED <<rules, buffers, ddn, meter, intake, work, srCh, gone, owed>>

RemoveFAR(f) ==
    /\ Unlocked
    /\ known /\ fars[f] # None
    /\ fars' = [fars EXCEPT ![f] = None]
    /\ owed' = owed \ Held(Users(f))
    /\ UNCHANGED <<pdrs, bars, urrs, qer, meter>>
    /\ deleteSessionIfEmpty(Users(f))
    /\ UNCHANGED <<buffers, stray, fired, posting, intake, work, release,
                   egressCh, srCh, fate>>

\* CreateBAR, and UpdateBAR of an existing one: the rule is replaced as a whole
PutBAR(b, r) ==
    /\ Unlocked
    /\ known' = TRUE
    /\ bars' = [bars EXCEPT ![b] = r]
    /\ UNCHANGED <<pdrs, fars, urrs, qer, buffers, ddn, meter, intake, work,
                   release, egressCh, srCh, fate, owed>>

RemoveBAR(b) ==
    /\ Unlocked
    /\ known /\ bars[b] # None
    /\ bars' = [bars EXCEPT ![b] = None]
    /\ UNCHANGED <<pdrs, fars, urrs, qer, meter>>
    /\ deleteSessionIfEmpty({})
    /\ UNCHANGED <<buffers, stray, fired, posting, intake, work, release,
                   egressCh, srCh, fate, owed>>

\* CreateURR, and UpdateURR of an existing one: what was measured stays
PutURR(u, r) ==
    /\ Unlocked
    /\ known' = TRUE
    /\ urrs' = [urrs EXCEPT ![u] = r]
    /\ UNCHANGED <<pdrs, fars, bars, qer, buffers, ddn, meter, intake, work,
                   release, egressCh, srCh, fate, owed>>

Measured(u) == IF usage[u] = None THEN 0 ELSE usage[u]

\* the usage measured so far is returned as the final report
RemoveURR(u) ==
    /\ Unlocked
    /\ known /\ urrs[u] # None
    /\ urrs' = [urrs EXCEPT ![u] = None]
    /\ usage' = [usage EXCEPT ![u] = None]
    /\ unreported' = [unreported EXCEPT ![u] = @ - Measured(u)]
    /\ UNCHANGED <<pdrs, fars, bars, qer>>
    /\ deleteSessionIfEmpty({})
    /\ UNCHANGED <<buffers, stray, fired, posting, loop, intake, work, release,
                   egressCh, srCh, fate, owed>>

\* CreateQER and UpdateQER
PutQER ==
    /\ Unlocked
    /\ known' = TRUE /\ qer' = TRUE
    /\ UNCHANGED <<pdrs, fars, bars, urrs, buffers, ddn, meter, intake, work,
                   release, egressCh, srCh, fate, owed>>

\* the session's last QER
RemoveQER ==
    /\ Unlocked
    /\ known /\ qer
    /\ qer' = FALSE
    /\ UNCHANGED <<pdrs, fars, bars, urrs, meter>>
    /\ deleteSessionIfEmpty({})
    /\ UNCHANGED <<buffers, stray, fired, posting, intake, work, release,
                   egressCh, srCh, fate, owed>>

\* main takes a report from srCh; PfcpSession models what it does with it
ServeReport ==
    /\ Unlocked
    /\ srCh > 0
    /\ srCh' = srCh - 1
    /\ UNCHANGED <<rules, buffers, ddn, meter, intake, work, release, egressCh,
                   fate, owed>>

-----------------------------------------------------------------------------
(* The packet path.                                                        *)

\* mutant: a packet goes to any worker
anyWorker == Workers

\* workerIndexFor: all packets to one UE address go to one worker
workerIndexFor == {Shard}

\* tunReadLoop reads a packet and enqueues it
Arrive ==
    /\ arrived < MaxPkts
    /\ arrived' = arrived + 1
    /\ \E w \in workerIndexFor : queue' = [queue EXCEPT ![w] =
                                            Append(@, arrived + 1)]
    /\ UNCHANGED <<rules, buffers, ddn, meter, work, release, egressCh, srCh,
                   fate, owed>>

\* sortBindings: the highest precedence first, then the lowest ID
Before(p, q) ==
    \/ Precedence[p] > Precedence[q]
    \/ Precedence[p] = Precedence[q] /\ p < q

\* matchDownlink: the PDR whose binding comes first among those that match, as
\* the only member of a set
Matching(k) == {p \in PDRs : pdrs[p] # None /\ k \in Accepts[p]}
Matched(k)  == {p \in Matching(k) : \A q \in Matching(k) \ {p} : Before(p, q)}

\* buildRuntimeSnapshot: the rules a PDR refers to, as far as they exist
Binding(p) ==
    LET far == IF pdrs[p].far = None THEN None ELSE fars[pdrs[p].far]
        bar == IF far = None THEN None
               ELSE IF far.bar = None THEN None ELSE bars[far.bar]
    IN [pdr  |-> p,
        act  |-> IF far = None THEN {} ELSE far.act,
        bar  |-> IF bar = None THEN [limit |-> 0, delay |-> FALSE] ELSE bar,
        urrs |-> {<<u, urrs[u]>> : u \in {v \in pdrs[p].urrs : urrs[v] # None}}]

\* resolveAction, as the step that follows; anything else drops the packet
resolveAction(act) ==
    CASE "DROP" \in act -> "drop"
      [] "BUFF" \in act -> "buffer"
      [] "FORW" \in act -> "publish"
      [] OTHER          -> "drop"

\* processDownlink, first part: the look-up and the QERs' verdict, which is
\* arbitrary here.  A packet that no PDR matches is not accounted.
Classify(w) ==
    /\ work[w] = Idle
    /\ queue[w] # <<>>
    /\ queue' = [queue EXCEPT ![w] = Tail(@)]
    /\ LET k == Head(queue[w])
       IN \/ /\ Matching(k) = {}
             /\ gone' = gone \cup {k}
             /\ UNCHANGED work
          \/ \E p \in Matched(k), shut \in {FALSE, qer} :
                  LET b  == Binding(p)
                      do == IF shut THEN "drop" ELSE resolveAction(b.act)
                  IN /\ gone' = IF do = "drop" THEN gone \cup {k} ELSE gone
                     /\ work' = [work EXCEPT ![w] =
                                   [at |-> IF do = "drop" THEN "count" ELSE do,
                                    pkt |-> k, b |-> b]]
    /\ UNCHANGED <<rules, buffers, ddn, meter, arrived, release, egressCh, srCh,
                   out, owed>>

Goto(w, at) == work' = [work EXCEPT ![w].at = at]

\* forwardDownlink and publishOutcome
Publish(w) ==
    /\ work[w].at = "publish"
    /\ egressCh < EgressLen
    /\ egressCh' = egressCh + 1
    /\ out' = Append(out, Outcome(work[w].pkt, work[w].b.pdr, FALSE))
    /\ Goto(w, "count")
    /\ UNCHANGED <<rules, buffers, ddn, meter, intake, release, srCh, gone, owed>>

\* mutant: one packet less than the limit allows
NewestLess(q, limit) ==
    IF limit > 0 /\ Len(q) > limit THEN SubSeq(q, Len(q) - limit + 2, Len(q))
    ELSE q

\* what is left of a queue under a limit, 0 being no limit: its newest packets
Newest(q, limit) ==
    IF limit > 0 /\ Len(q) > limit THEN SubSeq(q, Len(q) - limit + 1, Len(q))
    ELSE q

\* bufferPacket, and the choice at the start of scheduleBufferedNotification
bufferPacket(w) ==
    LET b == work[w].b
        all == Append(buffers[b.pdr], work[w].pkt)
        kept == Newest(all, b.bar.limit)
    IN /\ work[w].at = "buffer"
       /\ Unlocked
       /\ buffers' = IF known THEN [buffers EXCEPT ![b.pdr] = kept] ELSE buffers
       /\ gone' = gone \cup (IF known THEN ToSet(all) \ ToSet(kept)
                                      ELSE {work[w].pkt})
       /\ owed' = (IF "NOCP" \in b.act THEN owed \cup {work[w].pkt} ELSE owed)
                    \ gone'
       /\ Goto(w, IF "NOCP" \notin b.act THEN "count"
                  ELSE IF b.bar.delay THEN "notify" ELSE "post")
       /\ UNCHANGED <<rules, ddn, meter, intake, release, egressCh, srCh, out>>

\* mutant: the report is posted over the limit of the channel
PostNowUnbounded(w) ==
    /\ work[w].at = "post"
    /\ srCh' = srCh + 1
    /\ owed' = owed \ (ToSet(buffers[work[w].b.pdr]) \cup {work[w].pkt})
    /\ Goto(w, "count")
    /\ UNCHANGED <<rules, buffers, ddn, meter, intake, release, egressCh, fate>>

\* emitReport without a delay: NotifySessReport blocks while srCh is full
PostNow(w) ==
    /\ work[w].at = "post"
    /\ srCh < SrLen
    /\ srCh' = srCh + 1
    /\ owed' = owed \ (ToSet(buffers[work[w].b.pdr]) \cup {work[w].pkt})
    /\ Goto(w, "count")
    /\ UNCHANGED <<rules, buffers, ddn, meter, intake, release, egressCh, fate>>

\* mutant: no new timer while a callback of the PDR is running
ArmedUnlessFired(p) ==
    IF pending[p] # None \/ fired[p] > 0 THEN pending
    ELSE [pending EXCEPT ![p] = "armed"]

\* an entry and its timer, unless the PDR has an entry
Armed(p) ==
    IF pending[p] # None THEN pending ELSE [pending EXCEPT ![p] = "armed"]

\* scheduleBufferedNotification with a delay: one entry per PDR at a time
scheduleNotification(w) ==
    /\ work[w].at = "notify"
    /\ Unlocked
    /\ pending' = Armed(work[w].b.pdr)
    /\ Goto(w, "count")
    /\ UNCHANGED <<rules, buffers, stray, fired, posting, meter, intake, release,
                   egressCh, srCh, fate, owed>>

\* updateUsage: each URR of the binding measures the packet, whether or not
\* the session still has it, and reaching a threshold is reported
updateUsage(w) ==
    LET b == work[w].b
        measuring == {x[1] : x \in b.urrs}
        total == [u \in URRs |-> IF u \in measuring THEN Measured(u) + 1
                                 ELSE usage[u]]
        reached == {x \in b.urrs : /\ x[2].threshold > 0
                                   /\ total[x[1]] >= x[2].threshold}
    IN /\ work[w].at = "count"
       /\ measuring # {} => Unlocked
       /\ IF known /\ measuring # {}
          THEN /\ usage' = total
               /\ unreported' = [u \in URRs |-> unreported[u] +
                                   IF u \in measuring THEN 1 ELSE 0]
               /\ work' = [work EXCEPT ![w] =
                             IF reached = {} THEN Idle
                             ELSE [work[w] EXCEPT !.at = "report"]]
          ELSE /\ work' = [work EXCEPT ![w] = Idle]
               /\ UNCHANGED <<usage, unreported>>
       /\ UNCHANGED <<rules, buffers, ddn, loop, intake, release, egressCh, srCh,
                      fate, owed>>

\* emitReport for the URRs that reached a threshold
ReportThreshold(w) ==
    /\ work[w].at = "report"
    /\ srCh < SrLen
    /\ srCh' = srCh + 1
    /\ work' = [work EXCEPT ![w] = Idle]
    /\ UNCHANGED <<rules, buffers, ddn, meter, intake, release, egressCh, fate,
                   owed>>

\* egressLoop takes an outcome and writes it
Egress ==
    /\ egressCh > 0
    /\ egressCh' = egressCh - 1
    /\ UNCHANGED <<rules, buffers, ddn, meter, intake, work, release, srCh, fate,
                   owed>>

-----------------------------------------------------------------------------
(* Timers and the periodic loop.                                           *)

\* a timer expires, that of the entry or one left over: its callback starts
TimerExpires(p) ==
    /\ \/ /\ pending[p] = "armed"
          /\ pending' = [pending EXCEPT ![p] = "expired"]
          /\ UNCHANGED stray
       \/ /\ stray[p] > 0
          /\ stray' = [stray EXCEPT ![p] = @ - 1]
          /\ UNCHANGED pending
    /\ fired' = [fired EXCEPT ![p] = @ + 1]
    /\ UNCHANGED <<rules, buffers, posting, meter, intake, work, release,
                   egressCh, srCh, fate, owed>>

\* mutant: an entry is taken only if there is something to report
TakenIfHeld(p) ==
    IF buffers[p] = <<>> THEN pending ELSE [pending EXCEPT ![p] = None]

Taken(p) == [pending EXCEPT ![p] = None]

\* fireBufferedNotification takes whatever entry the PDR has now, although it
\* may belong to a younger timer, and reports if the PDR holds packets
fireNotification(p) ==
    /\ fired[p] > 0
    /\ Unlocked
    /\ fired' = [fired EXCEPT ![p] = @ - 1]
    /\ pending' = Taken(p)
    /\ stray' = [stray EXCEPT ![p] = @ + IF pending[p] = "armed" THEN 1 ELSE 0]
    /\ IF pending[p] # None /\ known /\ buffers[p] # <<>>
       THEN posting' = posting + 1 /\ owed' = owed \ Held({p})
       ELSE UNCHANGED <<posting, owed>>
    /\ UNCHANGED <<rules, buffers, meter, intake, work, release, egressCh, srCh,
                   fate>>

\* a callback posts its report
PostFired ==
    /\ posting > 0
    /\ srCh < SrLen
    /\ posting' = posting - 1 /\ srCh' = srCh + 1
    /\ UNCHANGED <<rules, buffers, pending, stray, fired, meter, intake, work,
                   release, egressCh, fate, owed>>

\* mutant: the usage goes on from where it was
Continued(over) == usage

\* the usage once that of the URRs in `over' starts again
Restarted(over) == [u \in URRs |-> IF u \in over THEN 0 ELSE usage[u]]

\* emitPeriodicURRReports: the usage of URRs whose period is over is reported
\* and starts again from zero
emitPeriodicURRReports ==
    /\ ~loop
    /\ Unlocked
    /\ \E over \in SUBSET {u \in URRs : urrs[u] # None /\ usage[u] # None} :
         /\ over # {} /\ \A u \in over : urrs[u].perio
         /\ unreported' = [u \in URRs |-> unreported[u] -
                             IF u \in over THEN usage[u] ELSE 0]
         /\ usage' = Restarted(over)
    /\ loop' = TRUE
    /\ UNCHANGED <<rules, buffers, ddn, intake, work, release, egressCh, srCh, fate,
                   owed>>

\* the loop posts the reports of the session
PostPeriodic ==
    /\ loop
    /\ srCh < SrLen
    /\ loop' = FALSE /\ srCh' = srCh + 1
    /\ UNCHANGED <<rules, buffers, ddn, usage, unreported, intake, work, release,
                   egressCh, fate, owed>>

-----------------------------------------------------------------------------
Control ==
    \/ \E p \in PDRs : \/ \E r \in PDRRules : CreatePDR(p, r) \/ UpdatePDR(p, r)
                       \/ RemovePDR(p)
    \/ \E f \in FARs : \/ \E r \in FARRules : CreateFAR(f, r) \/ UpdateFAR(f, r)
                       \/ RemoveFAR(f)
    \/ \E b \in BARs : (\E r \in BARRules : PutBAR(b, r)) \/ RemoveBAR(b)
    \/ \E u \in URRs : (\E r \in URRRules : PutURR(u, r)) \/ RemoveURR(u)
    \/ PutQER \/ RemoveQER

WorkerStep(w) ==
    \/ Classify(w) \/ Publish(w) \/ bufferPacket(w) \/ PostNow(w)
    \/ scheduleNotification(w) \/ updateUsage(w) \/ ReportThreshold(w)

Next ==
    \/ Control \/ (\E p \in PDRs : DrainNext(p)) \/ ServeReport
    \/ Arrive \/ Egress
    \/ \E w \in Workers : WorkerStep(w)
    \/ \E p \in PDRs : TimerExpires(p) \/ fireNotification(p)
    \/ PostFired \/ emitPeriodicURRReports \/ PostPeriodic

Spec == Init /\ [][Next]_vars

-----------------------------------------------------------------------------
(* Properties.                                                             *)

\* where a packet can be: in a worker's queue, at a worker that has not decided
\* its fate, in a buffer, in UpdateFAR, in the egress channel or on the wire,
\* or nowhere any more
Places == ({"queue", "work"} \X Workers) \cup ({"buffer", "drain"} \X PDRs)
            \cup ({"out", "gone"} \X {None})

\* the packets at a place
At(place) ==
    CASE place[1] = "queue"  -> ToSet(queue[place[2]])
      [] place[1] = "work"   -> IF work[place[2]].at \in {"publish", "buffer"}
                                THEN {work[place[2]].pkt} ELSE {}
      [] place[1] = "buffer" -> ToSet(buffers[place[2]])
      [] place[1] = "drain"  -> ToSet(drain[place[2]])
      [] place[1] = "out"    -> {out[i].pkt : i \in DOMAIN out}
      [] place[1] = "gone"   -> gone

Distinct(s) == \A i, j \in DOMAIN s : s[i] = s[j] => i = j

\* Every packet that arrived is in exactly one place, and there once: no
\* interleaving of workers with buffering, eviction and release forwards a
\* packet twice, forwards one that was dropped, or mislays one (pipeline.go,
\* bufferPacket and handleFARTransitionLocked).
PacketsAccounted ==
    /\ \A k \in Packets : Cardinality({x \in Places : k \in At(x)}) =
                            IF k <= arrived THEN 1 ELSE 0
    /\ \A w \in Workers : Distinct(queue[w])
    /\ \A p \in PDRs : Distinct(buffers[p]) /\ Distinct(drain[p])
    /\ \A i, j \in DOMAIN out : out[i].pkt = out[j].pkt => i = j

Ascending(s) == \A i, j \in DOMAIN s : i < j => s[i] < s[j]

\* The packets a PDR buffers are released in the order in which they arrived:
\* those being released and those still held are in ascending order, and those
\* released so far too, and before them (workerIndexFor gives a UE address to
\* one worker, queues are FIFO, and the drain keeps their order).  Released
\* means put into egressCh, which several egress loops empty.
ReleasedInOrder ==
    \A p \in PDRs :
        LET waiting == drain[p] \o buffers[p]
            past    == {i \in DOMAIN out : out[i].pdr = p /\ out[i].held}
        IN /\ Ascending(waiting)
           /\ \A i, j \in past : i < j => out[i].pkt < out[j].pkt
           /\ \A i \in past : \A j \in DOMAIN waiting : out[i].pkt < waiting[j]

\* A packet held for a FAR that notifies the control plane is not forgotten:
\* until a report for its PDR is made, a notification is pending or the
\* worker is about to make one.  Removing the PDR or its FAR cancels the debt
\* (bar_delay.go: cancellations, expired timers and new entries race).
HeldAreAnnounced ==
    \A p \in PDRs : Held({p}) \cap owed # {} =>
        \/ pending[p] # None
        \/ \E w \in Workers : /\ work[w].at \in {"notify", "post"}
                               /\ work[w].b.pdr = p

\* Every pending notification still has a timer or a callback that will take
\* it: a callback of an older timer, whose entry was cancelled, may take the
\* entry of a younger one, but never leaves an entry without either
\* (fireBufferedNotification and cancelPendingDDNLocked).
PendingHasCallback ==
    \A p \in PDRs : pending[p] = "expired" => fired[p] > 0

\* What a URR measures is reported once: of the packets workers have accounted
\* to it, those not in its periodic and final reports are its current usage,
\* whatever the periodic loop and main did meanwhile, and over all uses of its
\* ID (updateUsage, emitPeriodicURRReports, RemoveURR).
UsageConserved ==
    \A u \in URRs : unreported[u] = Measured(u)

\* the worker of the UE address has a packet and has not decided its fate
Undecided == work[Shard].at \in {"publish", "buffer"}

\* its packets up to that decision, in the order of their arrival
Pipe == (IF Undecided THEN <<work[Shard].pkt>> ELSE <<>>) \o queue[Shard]

Buffer == INSTANCE DownlinkBuffer
          WITH pipe <- Pipe, held <- buffers, releasing <- drain, sent <- out,
               lost <- gone

\* Workers, bindings, locks and channels together do what DownlinkBuffer
\* promises: packets are decided on in the order of their arrival, a packet
\* that is held takes the place of the oldest ones only, and a queue is
\* released or discarded as a whole, with nothing held meanwhile (pipeline.go:
\* processDownlink, bufferPacket, handleFARTransitionLocked).
ImplementsDownlinkBuffer == Buffer!Spec
=============================================================================
