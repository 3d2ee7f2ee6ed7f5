----------------------------- MODULE AdaptiveQoS -----------------------------
(***************************************************************************)
(* The adaptive QoS controller of the userspace forwarder                  *)
(* (internal/forwarder/userspace/adaptive_qos.go): flows that UEs report,  *)
(* the overrides of QERs they bring about, and how both end.               *)
(*                                                                         *)
(* Processes: the callers of applyAdaptiveReport (the report loop and the  *)
(* workers, through InterceptUplink), which read the clock before they     *)
(* wait for d.mu; the callbacks of the auto-end timers, which look whether *)
(* their flow is current in one critical section and end it in another;    *)
(* main, which changes PDRs and QERs; an operator who resets the state.    *)
(* The bodies that hold d.mu are one action each.                          *)
(*                                                                         *)
(* Time is counted in ticks from 1; 0 is Go's zero time, `not given'.      *)
(* Bit rates are unsigned integers of the code's width.  The trace, the    *)
(* feedback and the views for the demonstration are left out: nothing      *)
(* reads them back.  So are the limits authorization.maxGfbrUl and         *)
(* maxGfbrDl of the configuration, which the code shows in those views and *)
(* compares with no rate.                                                  *)
(***************************************************************************)
EXTENDS Integers, FiniteSets, Sequences

CONSTANTS
    Seids,           \* local SEIDs
    PdrIDs,          \* PDR IDs of a session
    PDRRules,        \* PDRRules[s]: the PDRs sent for session s: [ue, qers]
    QERs,            \* QERs[s]: the QER IDs of session s
    Others,          \* the sessions that get FARs, URRs or BARs
    FlowIDs,         \* flow IDs the UEs choose
    None,            \* an absent address, hint or report
    Reports,         \* the reports the UEs send
    Callers,         \* goroutines that apply reports
    Rules,           \* config adaptiveQos.rules: a sequence of [kinds, rates, dur]
    MaxBitrateDL,    \* config authorization.maxBitrateDl, 0: none
    MaxBitrateUL,    \* config authorization.maxBitrateUl, 0: none
    Word,            \* 2^64: rates are uint64
    DefaultDuration, \* config authorization.defaultProfileDuration
    Grace,           \* adaptiveAutoEndGrace
    DefaultWindow,   \* 150 ms in derivePredictiveBurstDecision
    DefaultUL,       \* 100_000 in derivePredictiveBurstDecision
    DefaultRate,     \* 1000000, all rates of the profile adaptive-default
    MaxStarts,       \* bound: flows started
    LastReport,      \* bound: reports come until this time
    MaxClock         \* bound: the clock stops here

Times  == 0 .. MaxClock
QerIDs == UNION {QERs[s] : s \in Seids}

\* an AdaptiveReport; kind stands for the traffic pattern, the latency
\* sensitivity and the loss tolerance that rules are matched with
Report == [type : {"intent", "end"}, flow : FlowIDs, hint : Seids \cup {None},
           ue : Nat, stamp : Times, arrival : Times, burst : BOOLEAN,
           kind : Nat, size : Nat, deadline : Nat, length : Nat]

\* the maximum and the guaranteed bit rates of a profile or an override
Rates == [mbrDL : Nat, mbrUL : Nat, gfbrDL : Nat, gfbrUL : Nat]

PDRRule == [ue : Nat, qers : SUBSET QerIDs]    \* ue 0: no UE address

ASSUME AdaptiveConstants ==
    /\ Reports \subseteq Report /\ PDRRules \in [Seids -> SUBSET PDRRule]
    /\ None \notin Seids \cup Report
    /\ \A i \in DOMAIN Rules : Rules[i] \in [kinds : SUBSET Nat, rates : Rates, dur : Nat]
    /\ {MaxBitrateDL, MaxBitrateUL, Grace, MaxStarts, LastReport, MaxClock} \subseteq Nat
    /\ LastReport + 1 + Grace <= MaxClock
    /\ \A r \in Reports : r.arrival + Grace <= MaxClock
    /\ {DefaultDuration, DefaultWindow, DefaultUL, DefaultRate, Word} \subseteq Nat \ {0}

VARIABLES
    sessions,  \* d.sessions: PDRs, QERs, AdaptiveFlows, AdaptiveQER
    clock,     \* the time
    pending,   \* per caller, the report it waits for d.mu with
    timers,    \* auto-end timers, by the start that armed them
    starts,    \* number of flows started, which identifies their objects
    unbound,   \* history: <<seid, qer>> whose override outlives a refresh of
               \* its flow that no longer applies to the QER
    misended   \* history: starts ended by a timer that they had outdated

vars == <<sessions, clock, pending, timers, starts, unbound, misended>>

\* AdaptiveFlowState and AdaptiveQEROverride, as far as they have effects
Flow     == [start : Nat, stamp : Times, arrival : Times, applied : SUBSET QerIDs]
Override == [flow : FlowIDs, burst : BOOLEAN, rates : Rates, until : Nat]

Timer    == [flow : FlowIDs, stamp : Times, at : Times, seen : 0 .. MaxStarts]

\* a map from some of the keys in K to V; a map with some keys set to a value,
\* and one without some of its keys
IsMap(map, K, V) == DOMAIN map \subseteq K /\ map \in [DOMAIN map -> V]
With(map, K, v)  == [k \in DOMAIN map \cup K |-> IF k \in K THEN v ELSE map[k]]
Without(map, K)  == [k \in DOMAIN map \ K |-> map[k]]

\* SessionState, as far as it is used here; other: it has FARs, URRs, BARs,
\* buffered packets or usage reports
IsSession(x) ==
    /\ x = [pdrs |-> x.pdrs, qers |-> x.qers, other |-> x.other,
            flows |-> x.flows, over |-> x.over]
    /\ IsMap(x.pdrs, PdrIDs, PDRRule) /\ x.qers \subseteq QerIDs /\ x.other \in BOOLEAN
    /\ IsMap(x.flows, FlowIDs, Flow) /\ IsMap(x.over, QerIDs, Override)

TypeOK ==
    /\ DOMAIN sessions \subseteq Seids
    /\ sessions = [s \in DOMAIN sessions |-> sessions[s]]
    /\ \A s \in DOMAIN sessions : IsSession(sessions[s])
    /\ clock \in 1 .. MaxClock
    /\ pending \in [Callers -> [report : Reports, now : Times] \cup {None}]
    /\ starts \in 0 .. MaxStarts
    /\ IsMap(timers, 1 .. MaxStarts, Timer)
    /\ \A n \in DOMAIN timers : n <= starts /\ timers[n].seen <= starts
    /\ unbound \subseteq Seids \X QerIDs
    /\ misended \subseteq 1 .. starts

\* SEIDs start without sessions: a session is made by its first rule
Init ==
    /\ sessions = << >>
    /\ clock = 1
    /\ pending = [c \in Callers |-> None]
    /\ timers = << >>
    /\ starts = 0
    /\ unbound = {}
    /\ misended = {}

-----------------------------------------------------------------------------
(* Rules of the control plane *)

EmptySession ==
    [pdrs |-> << >>, qers |-> {}, other |-> FALSE, flows |-> << >>, over |-> << >>]

\* ensureSessionLocked
Ensured(s) == IF s \in DOMAIN sessions THEN sessions[s] ELSE EmptySession

\* deleteSessionIfEmptyLocked: rules keep a session, adaptive state does not
Shrunk(s, sess) ==
    IF DOMAIN sess.pdrs = {} /\ sess.qers = {} /\ ~sess.other
    THEN Without(sessions, {s}) ELSE With(sessions, {s}, sess)

\* a deleted session takes its overrides along
Forgotten(s) == IF s \in DOMAIN sessions' THEN {} ELSE {s} \X QerIDs

PutPDR(s, p, rule) ==
    /\ LET sess == Ensured(s)
       IN  sessions' = With(sessions, {s}, [sess EXCEPT !.pdrs = With(@, {p}, rule)])
    /\ UNCHANGED <<clock, pending, timers, starts, unbound, misended>>

RemovePDR(s, p) ==
    /\ s \in DOMAIN sessions
    /\ p \in DOMAIN sessions[s].pdrs
    /\ sessions' = Shrunk(s, [sessions[s] EXCEPT !.pdrs = Without(@, {p})])
    /\ unbound' = unbound \ Forgotten(s)
    /\ UNCHANGED <<clock, pending, timers, starts, misended>>

PutQER(s, q) ==
    /\ LET sess == Ensured(s)
       IN  sessions' = With(sessions, {s}, [sess EXCEPT !.qers = @ \cup {q}])
    /\ UNCHANGED <<clock, pending, timers, starts, unbound, misended>>

\* the override of the QER stays
RemoveQER(s, q) ==
    /\ s \in DOMAIN sessions
    /\ q \in sessions[s].qers
    /\ sessions' = Shrunk(s, [sessions[s] EXCEPT !.qers = @ \ {q}])
    /\ unbound' = unbound \ Forgotten(s)
    /\ UNCHANGED <<clock, pending, timers, starts, misended>>

\* the first of the other rules
PutOther(s) ==
    /\ LET sess == Ensured(s)
       IN  sessions' = With(sessions, {s}, [sess EXCEPT !.other = TRUE])
    /\ UNCHANGED <<clock, pending, timers, starts, unbound, misended>>

\* the last of them; when it is a buffer that is drained, or usage that is
\* read, nobody looks whether the session is empty
RemoveOther(s) ==
    /\ s \in DOMAIN sessions
    /\ sessions[s].other
    /\ LET left == [sessions[s] EXCEPT !.other = FALSE]
       IN  sessions' = Shrunk(s, left) \/ sessions' = With(sessions, {s}, left)
    /\ unbound' = unbound \ Forgotten(s)
    /\ UNCHANGED <<clock, pending, timers, starts, misended>>

-----------------------------------------------------------------------------
(* The profile of a report *)

\* bits per second, rounded up; a product beyond the word wraps around
rateFromBurst(size, window) ==
    IF size = 0 THEN 0
    ELSE ((((size * 8) % Word) * 1000 + window - 1) % Word) \div window

Positive(a, b) == IF a # 0 THEN a ELSE b

\* a limit of 0 is none
Authorised(rate, limit) == IF limit > 0 /\ rate > limit THEN limit ELSE rate

\* three quarters of the maximum rate, or all of it if that is none
Guaranteed(rate) == Positive(((rate * 3) % Word) \div 4, rate)

Window(r) ==
    Positive(IF r.deadline = 0 \/ r.length > r.deadline THEN r.length
             ELSE r.deadline, DefaultWindow)

\* the uplink gets an eighth of the downlink, or a quarter if that is none
UplinkShare(dl) == Positive(Positive(dl \div 8, dl \div 4), DefaultUL)

Profile(dl, ul, dur) ==
    [rates |-> [mbrDL |-> dl, mbrUL |-> ul,
                gfbrDL |-> Guaranteed(dl), gfbrUL |-> Guaranteed(ul)],
     dur   |-> dur]

\* mutant: the uplink share is taken after the check of the downlink only
deriveBurstUnchecked(r) ==
    LET dl == Authorised(rateFromBurst(r.size, Window(r)), MaxBitrateDL)
    IN  Profile(dl, UplinkShare(dl), Positive(r.deadline, r.length))

derivePredictiveBurstDecision(r) ==
    LET dl == rateFromBurst(r.size, Window(r))
    IN  Profile(Authorised(dl, MaxBitrateDL), Authorised(UplinkShare(dl), MaxBitrateUL),
                Positive(r.deadline, r.length))

\* as the only member of a set, the profile of the first rule that matches,
\* or the default profile
selectAdaptiveProfile(r) ==
    LET hits  == {i \in DOMAIN Rules : r.kind \in Rules[i].kinds}
        first == {i \in hits : \A j \in hits : i <= j}
    IN  CASE r.burst       -> {derivePredictiveBurstDecision(r)}
          [] ~r.burst /\ hits # {} ->
               {[rates |-> Rules[i].rates, dur |-> Rules[i].dur] : i \in first}
          [] ~r.burst /\ hits = {} ->
               {[rates |-> [mbrDL |-> DefaultRate, mbrUL |-> DefaultRate,
                            gfbrDL |-> DefaultRate, gfbrUL |-> DefaultRate],
                 dur   |-> DefaultDuration]}

-----------------------------------------------------------------------------
(* Reports *)

\* A caller has decoded a report and read the clock.
Receive(c) ==
    /\ pending[c] = None
    /\ clock <= LastReport
    /\ \E r \in Reports : pending' = [pending EXCEPT ![c] = [report |-> r, now |-> clock]]
    /\ UNCHANGED <<sessions, clock, timers, starts, unbound, misended>>

\* The sessions a report may be bound to, one of them in map order: by its
\* SEID hint, else by the UE address of their PDRs, else the only session.
resolveAdaptiveSession(r) ==
    CASE r.hint # None -> {r.hint} \cap DOMAIN sessions
      [] r.hint = None /\ r.ue # 0 ->
           {s \in DOMAIN sessions :
              \E p \in DOMAIN sessions[s].pdrs : sessions[s].pdrs[p].ue = r.ue}
      [] r.hint = None /\ r.ue = 0 ->
           IF Cardinality(DOMAIN sessions) = 1 THEN DOMAIN sessions ELSE {}

\* the QERs the PDRs refer to, or all if they refer to none
collectAdaptiveQERIDs(sess) ==
    LET used == (UNION {sess.pdrs[p].qers : p \in DOMAIN sess.pdrs}) \cap sess.qers
    IN  IF used # {} THEN used ELSE sess.qers

\* mutant: the grace is given twice
scheduleTwiceTheGrace(n, r, stamp) ==
    IF r.arrival = 0 THEN timers
    ELSE With(timers, {n}, [flow |-> r.flow, stamp |-> stamp,
                            at |-> IF r.arrival > clock THEN r.arrival + 2 * Grace
                                   ELSE clock + 2 * Grace,
                            seen |-> 0])

\* mutant: a refresh leaves it to the first timer
scheduleUnlessKnown(n, r, stamp) ==
    IF r.arrival = 0 \/ \E s \in DOMAIN sessions : r.flow \in DOMAIN sessions[s].flows THEN timers
    ELSE With(timers, {n}, [flow |-> r.flow, stamp |-> stamp,
                            at |-> IF r.arrival > clock THEN r.arrival + Grace
                                   ELSE clock + Grace,
                            seen |-> 0])

\* the timer runs Grace past the expected arrival, and at least Grace
scheduleAdaptiveFlowAutoEnd(n, r, stamp) ==
    IF r.arrival = 0 THEN timers
    ELSE With(timers, {n}, [flow |-> r.flow, stamp |-> stamp,
                            at |-> IF r.arrival > clock THEN r.arrival + Grace
                                   ELSE clock + Grace,
                            seen |-> 0])

\* the override of a report with this profile
OverrideFor(r, profile, now) ==
    [flow |-> r.flow, burst |-> r.burst, rates |-> profile.rates,
     until |-> now + Positive(profile.dur, DefaultDuration)]

\* the QERs whose override is of flow f, applied to them before
OverriddenBy(sess, f) ==
    {q \in DOMAIN sess.over : /\ sess.over[q].flow = f
                              /\ f \in DOMAIN sess.flows /\ q \in sess.flows[f].applied}

startAdaptiveFlow(c, s) ==
    LET r       == pending[c].report
        now     == pending[c].now
        sess    == sessions[s]
        applied == collectAdaptiveQERIDs(sess)
        stamp   == Positive(r.stamp, now)
        n       == starts + 1
        flow    == [start |-> n, stamp |-> stamp, arrival |-> r.arrival,
                    applied |-> applied]
    IN  /\ starts < MaxStarts
        /\ \E profile \in selectAdaptiveProfile(r) :
              sessions' = [sessions EXCEPT ![s] =
                 [sess EXCEPT !.flows = With(@, {r.flow}, flow),
                              !.over  = With(@, applied, OverrideFor(r, profile, now))]]
        /\ timers' = scheduleAdaptiveFlowAutoEnd(n, r, stamp)
        /\ starts' = n
        /\ unbound' = (unbound \cup ({s} \X OverriddenBy(sess, r.flow))) \ ({s} \X applied)
        /\ UNCHANGED <<clock, misended>>

\* the sessions that have the flow: the first in map order is taken
Holders(f) == {s \in DOMAIN sessions : f \in DOMAIN sessions[s].flows}

\* mutant: only the QERs that are still there are cleaned
EndedKnown(s, f) ==
    [sessions EXCEPT ![s] =
       [sessions[s] EXCEPT !.flows = Without(@, {f}),
                           !.over  = Without(@, sessions[s].flows[f].applied
                                                \cap sessions[s].qers)]]

\* The flow goes, and the overrides of the QERs it was applied to, whichever
\* flow they are of.
Ended(s, f) ==
    [sessions EXCEPT ![s] =
       [sessions[s] EXCEPT !.flows = Without(@, {f}),
                           !.over  = Without(@, sessions[s].flows[f].applied)]]

\* endAdaptiveFlow in the session it found, and when it found none
EndIn(s, f) ==
    /\ sessions' = Ended(s, f)
    /\ unbound' = unbound \ ({s} \X sessions[s].flows[f].applied)

EndMisses(f) ==
    /\ Holders(f) = {}
    /\ UNCHANGED <<sessions, unbound>>

applyAdaptiveReport(c) ==
    /\ pending[c] # None
    /\ pending' = [pending EXCEPT ![c] = None]
    /\ LET r == pending[c].report IN
       \/ /\ r.type = "end"
          /\ EndMisses(r.flow) \/ \E s \in Holders(r.flow) : EndIn(s, r.flow)
          /\ UNCHANGED <<clock, timers, starts, misended>>
       \/ /\ r.type = "intent"
          /\ \E s \in resolveAdaptiveSession(r) : startAdaptiveFlow(c, s)
       \/ /\ r.type = "intent"
          /\ resolveAdaptiveSession(r) = {} \/ starts = MaxStarts
          /\ UNCHANGED <<sessions, clock, timers, starts, unbound, misended>>

resetAdaptiveState ==
    /\ sessions # << >>
    /\ sessions' = [s \in DOMAIN sessions |->
                      [sessions[s] EXCEPT !.flows = << >>, !.over = << >>]]
    /\ unbound' = {}
    /\ UNCHANGED <<clock, pending, timers, starts, misended>>

-----------------------------------------------------------------------------
(* Auto-end timers *)

\* mutant: a flow with the ID is enough
isFlowPresent(t, s) == TRUE

isFlowStillCurrent(t, s) == sessions[s].flows[t.flow].stamp = t.stamp

\* The callback's check, under the read lock.
TimerChecks(n) ==
    /\ timers[n].seen = 0
    /\ clock >= timers[n].at
    /\ \/ \E s \in Holders(timers[n].flow) :
            timers' = IF isFlowStillCurrent(timers[n], s)
                      THEN [timers EXCEPT ![n].seen = starts]
                      ELSE Without(timers, {n})
       \/ /\ Holders(timers[n].flow) = {}
          /\ timers' = Without(timers, {n})
    /\ UNCHANGED <<sessions, clock, pending, starts, unbound, misended>>

\* Its end report.  A flow that was refreshed before the check, with another
\* timestamp, is not this timer's to end.
TimerEnds(n) ==
    LET t == timers[n] IN
    /\ t.seen # 0
    /\ timers' = Without(timers, {n})
    /\ \/ EndMisses(t.flow) /\ UNCHANGED misended
       \/ \E s \in Holders(t.flow) :
            LET flow == sessions[s].flows[t.flow] IN
            /\ EndIn(s, t.flow)
            /\ misended' = IF flow.stamp # t.stamp /\ flow.start <= t.seen
                           THEN misended \cup {flow.start} ELSE misended
    /\ UNCHANGED <<clock, pending, starts>>

\* A report that waits for d.mu does so at most until LastReport + 1.
Tick ==
    /\ clock < MaxClock
    /\ clock <= LastReport \/ \A c \in Callers : pending[c] = None
    /\ clock' = clock + 1
    /\ UNCHANGED <<sessions, pending, timers, starts, unbound, misended>>

-----------------------------------------------------------------------------
(* Specification *)

ControlPlane ==
    \E s \in Seids :
      \/ \E p \in PdrIDs : \/ \E rule \in PDRRules[s] : PutPDR(s, p, rule)
                           \/ RemovePDR(s, p)
      \/ \E q \in QERs[s] : PutQER(s, q) \/ RemoveQER(s, q)
      \/ s \in Others /\ (PutOther(s) \/ RemoveOther(s))

TimerStep == \E n \in DOMAIN timers : TimerChecks(n) \/ TimerEnds(n)

Next ==
    \/ ControlPlane
    \/ \E c \in Callers : Receive(c) \/ applyAdaptiveReport(c)
    \/ resetAdaptiveState
    \/ TimerStep
    \/ Tick

\* Time passes, a goroutine that waits for d.mu gets it, and the runtime runs
\* the callbacks of expired timers.
Fairness ==
    /\ WF_vars(Tick)
    /\ WF_vars(\E c \in Callers : applyAdaptiveReport(c))
    /\ WF_vars(TimerStep)

Spec == Init /\ [][Next]_vars /\ Fairness

-----------------------------------------------------------------------------
(* Properties *)

\* An override is there only as long as a flow that is applied to its QER, so
\* that ending the flow takes it away.  The exception are overrides that a
\* refresh of their flow left behind, when the session's QERs had changed.
OverridesHaveFlows ==
    \A s \in DOMAIN sessions : \A q \in DOMAIN sessions[s].over :
      \/ <<s, q>> \in unbound
      \/ LET f == sessions[s].over[q].flow
         IN  f \in DOMAIN sessions[s].flows /\ q \in sessions[s].flows[f].applied

\* rate is within limit, which is none if 0
Within(rate, limit) == limit > 0 => rate <= limit

\* The maximum bit rates of a predictive burst are within the limit of their
\* own direction, however the uplink rate is derived and even if the product
\* of a large burst wraps around, and its guaranteed rates are no more than
\* the maximum rates.  That is all: the code compares guaranteed rates with no
\* limit of their own (maxGfbrUl, maxGfbrDl), and the rates of rules and of the
\* default profile with none at all.
BurstsAuthorised ==
    \A s \in DOMAIN sessions : \A q \in DOMAIN sessions[s].over :
      LET o == sessions[s].over[q]
          m == o.rates
      IN  o.burst => /\ Within(m.mbrDL, MaxBitrateDL) /\ Within(m.mbrUL, MaxBitrateUL)
                     /\ m.gfbrDL <= m.mbrDL /\ m.gfbrUL <= m.mbrUL

\* A timer looks for the ID of its flow alone, in all sessions.
IDsUnique == \A f \in FlowIDs : \A s, t \in Holders(f) : s = t

\* isFlowStillCurrent keeps a timer from ending a flow that was refreshed with
\* a new timestamp; only a refresh between that check and the end is too late.
\* This takes IDs that no two sessions use at a time: the timer would take the
\* flow of the one for that of the other.
RefreshOutdatesTimer == []IDsUnique => [](misended = {})

\* the flow of start n is in a session's table and has an expected arrival
Awaited(n) ==
    \E s \in DOMAIN sessions : \E f \in DOMAIN sessions[s].flows :
      sessions[s].flows[f].start = n /\ sessions[s].flows[f].arrival # 0

\* With such IDs a flow with an expected arrival ends by itself, or is
\* refreshed: its timer cannot miss it.
FlowsEnd == []IDsUnique => \A n \in 1 .. MaxStarts : Awaited(n) ~> ~Awaited(n)
=============================================================================
