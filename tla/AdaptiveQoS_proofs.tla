------------------------- MODULE AdaptiveQoS_proofs -------------------------
(***************************************************************************)
(* Proofs about the adaptive QoS controller, for any sessions, flows,      *)
(* QERs, reports, rules and timers: types; an override never outlives the  *)
(* flow that brought it about, unless a refresh left it behind; the rates  *)
(* of a burst stay within the authorisation; a refreshed flow is not ended *)
(* by an older timer.                                                      *)
(*                                                                         *)
(* The invariant is one of each session: what `Fine' says of it is kept by *)
(* every change of that session and does not depend on the others.  Types  *)
(* need two more facts: the number of a flow is that of a start so far,    *)
(* and a report that waits for d.mu came by LastReport, so that the timer  *)
(* it arms expires before the model's clock stops.  The last result needs  *)
(* ChecksHold: what a timer's check has found stays true, as every flow    *)
(* that a later step brings about has a number the timer has not seen.     *)
(***************************************************************************)
EXTENDS AdaptiveQoS, TLAPS

\* the override of q is of a flow that is applied to q
Bound(x, q) ==
    x.over[q].flow \in DOMAIN x.flows /\ q \in x.flows[x.over[q].flow].applied

\* the rates of a burst
LawfulRates(m) ==
    /\ Within(m.mbrDL, MaxBitrateDL) /\ Within(m.mbrUL, MaxBitrateUL)
    /\ m.gfbrDL <= m.mbrDL /\ m.gfbrUL <= m.mbrUL

Lawful(o) == o.burst => LawfulRates(o.rates)

\* session x with SEID s after n starts, U being the unbound overrides
Fine(s, x, n, U) ==
    /\ IsSession(x)
    /\ \A f \in DOMAIN x.flows : x.flows[f].start \in 1 .. n
    /\ \A q \in DOMAIN x.over : <<s, q>> \in U \/ Bound(x, q)
    /\ \A q \in DOMAIN x.over : Lawful(x.over[q])

SessionsInv ==
    /\ DOMAIN sessions \subseteq Seids
    /\ sessions = [s \in DOMAIN sessions |-> sessions[s]]
    /\ \A s \in DOMAIN sessions : Fine(s, sessions[s], starts, unbound)

ReportsInTime == \A c \in Callers : pending[c] # None => clock <= LastReport + 1

IInv == TypeOK /\ SessionsInv /\ ReportsInTime

-----------------------------------------------------------------------------
(* Maps and sessions                                                       *)

LEMMA WithFacts ==
    ASSUME NEW map, NEW K, NEW v
    PROVE  /\ DOMAIN With(map, K, v) = DOMAIN map \cup K
           /\ \A k \in K : With(map, K, v)[k] = v
           /\ \A k \in DOMAIN map \ K : With(map, K, v)[k] = map[k]
           /\ With(map, K, v) = [k \in DOMAIN With(map, K, v) |-> With(map, K, v)[k]]
BY DEF With

LEMMA WithoutFacts ==
    ASSUME NEW map, NEW K
    PROVE  /\ DOMAIN Without(map, K) = DOMAIN map \ K
           /\ \A k \in DOMAIN map \ K : Without(map, K)[k] = map[k]
           /\ Without(map, K) = [k \in DOMAIN Without(map, K) |-> Without(map, K)[k]]
BY DEF Without

LEMMA MapTypes ==
    ASSUME NEW S, NEW V, NEW map, IsMap(map, S, V), NEW K
    PROVE  /\ IsMap(Without(map, K), S, V)
           /\ \A v \in V : K \subseteq S => IsMap(With(map, K, v), S, V)
BY DEF IsMap, With, Without

LEMMA NoMap == ASSUME NEW S, NEW V PROVE IsMap(<< >>, S, V) /\ DOMAIN << >> = {}
BY DEF IsMap

\* the fields of a session that is changed
LEMMA RulesExcept ==
    ASSUME NEW x, IsSession(x), NEW v
    PROVE  /\ [x EXCEPT !.pdrs = v] =
                 [pdrs |-> v, qers |-> x.qers, other |-> x.other, flows |-> x.flows, over |-> x.over]
           /\ [x EXCEPT !.qers = v] =
                 [pdrs |-> x.pdrs, qers |-> v, other |-> x.other, flows |-> x.flows, over |-> x.over]
           /\ [x EXCEPT !.other = v] =
                 [pdrs |-> x.pdrs, qers |-> x.qers, other |-> v, flows |-> x.flows, over |-> x.over]
<1>1. PICK a, b, e, c, d : /\ x = [pdrs |-> a, qers |-> b, other |-> e, flows |-> c, over |-> d]
                           /\ a = x.pdrs /\ b = x.qers /\ e = x.other /\ c = x.flows /\ d = x.over
  BY DEF IsSession
<1>2. [x EXCEPT !.pdrs = v] =
        [pdrs |-> v, qers |-> x.qers, other |-> x.other, flows |-> x.flows, over |-> x.over]
  BY ONLY <1>1
<1>3. [x EXCEPT !.qers = v] =
        [pdrs |-> x.pdrs, qers |-> v, other |-> x.other, flows |-> x.flows, over |-> x.over]
  BY ONLY <1>1
<1>4. [x EXCEPT !.other = v] =
        [pdrs |-> x.pdrs, qers |-> x.qers, other |-> v, flows |-> x.flows, over |-> x.over]
  BY ONLY <1>1
<1> QED BY <1>2, <1>3, <1>4

LEMMA FlowsExcept ==
    ASSUME NEW x, IsSession(x), NEW v, NEW w
    PROVE  [x EXCEPT !.flows = v, !.over = w] =
              [pdrs |-> x.pdrs, qers |-> x.qers, other |-> x.other, flows |-> v, over |-> w]
<1>1. PICK a, b, e, c, d : /\ x = [pdrs |-> a, qers |-> b, other |-> e, flows |-> c, over |-> d]
                           /\ a = x.pdrs /\ b = x.qers /\ e = x.other /\ c = x.flows /\ d = x.over
  BY DEF IsSession
<1>2. [x EXCEPT !.flows = v, !.over = w] = [[x EXCEPT !.flows = v] EXCEPT !.over = w]
  OBVIOUS
<1>3. [x EXCEPT !.flows = v] = [pdrs |-> a, qers |-> b, other |-> e, flows |-> v, over |-> d]
  BY ONLY <1>1
<1>4. PICK y : /\ y = [x EXCEPT !.flows = v]
               /\ y = [pdrs |-> a, qers |-> b, other |-> e, flows |-> v, over |-> d]
  BY <1>3
<1>5. y = [pdrs |-> a, qers |-> b, other |-> e, flows |-> v, over |-> d]
  BY <1>4
<1>6. [y EXCEPT !.over = w] = [pdrs |-> a, qers |-> b, other |-> e, flows |-> v, over |-> w]
  BY ONLY <1>5
<1> QED BY <1>1, <1>2, <1>4, <1>6

\* a session with the flows and overrides it had
LEMMA FineRules ==
    ASSUME NEW s, NEW x, NEW n, NEW U, Fine(s, x, n, U),
           NEW pdrs, IsMap(pdrs, PdrIDs, PDRRule), NEW qers \in SUBSET QerIDs, NEW other \in BOOLEAN
    PROVE  Fine(s, [pdrs |-> pdrs, qers |-> qers, other |-> other, flows |-> x.flows, over |-> x.over], n, U)
<1> DEFINE y == [pdrs |-> pdrs, qers |-> qers, other |-> other, flows |-> x.flows, over |-> x.over]
<1>1. y.pdrs = pdrs /\ y.qers = qers /\ y.other = other /\ y.flows = x.flows /\ y.over = x.over
      /\ y = [pdrs |-> y.pdrs, qers |-> y.qers, other |-> y.other, flows |-> y.flows, over |-> y.over]
  OBVIOUS
<1> HIDE DEF y
<1>2. Fine(s, y, n, U)
  BY <1>1 DEF Fine, IsSession, Bound
<1> QED BY <1>2 DEF y

\* later starts, and an unbound override that is still unbound
LEMMA FineLater ==
    ASSUME NEW s, NEW x, NEW n \in Nat, NEW m \in Nat, n <= m, NEW U, NEW W,
           Fine(s, x, n, U), \A q \in DOMAIN x.over : <<s, q>> \in U => <<s, q>> \in W
    PROVE  Fine(s, x, m, W)
<1>1. \A f \in DOMAIN x.flows : x.flows[f].start \in 1 .. m
  BY DEF Fine
<1> QED BY <1>1 DEF Fine

LEMMA FineNone ==
    ASSUME NEW s, NEW n, NEW U, NEW pdrs, IsMap(pdrs, PdrIDs, PDRRule),
           NEW qers \in SUBSET QerIDs, NEW other \in BOOLEAN
    PROVE  Fine(s, [pdrs |-> pdrs, qers |-> qers, other |-> other, flows |-> << >>, over |-> << >>], n, U)
<1> DEFINE y == [pdrs |-> pdrs, qers |-> qers, other |-> other, flows |-> << >>, over |-> << >>]
<1>1. y.pdrs = pdrs /\ y.qers = qers /\ y.other = other /\ y.flows = << >> /\ y.over = << >>
      /\ y = [pdrs |-> y.pdrs, qers |-> y.qers, other |-> y.other, flows |-> y.flows, over |-> y.over]
  OBVIOUS
<1>2. IsMap(y.flows, FlowIDs, Flow) /\ IsMap(y.over, QerIDs, Override)
      /\ DOMAIN y.flows = {} /\ DOMAIN y.over = {}
  BY <1>1, NoMap
<1> HIDE DEF y
<1>3. Fine(s, y, n, U)
  BY <1>1, <1>2 DEF Fine, IsSession
<1> QED BY <1>3 DEF y

\* endAdaptiveFlow: an override of the flow that stays was unbound before, and
\* no other flow loses one that it needs
LEMMA FineEnded ==
    ASSUME NEW s, NEW x, NEW n, NEW U, Fine(s, x, n, U), NEW f \in DOMAIN x.flows, NEW W,
           W = U \ ({s} \X x.flows[f].applied)
    PROVE  Fine(s, [x EXCEPT !.flows = Without(@, {f}), !.over = Without(@, x.flows[f].applied)], n, W)
<1>1. PICK flows, over : flows = Without(x.flows, {f}) /\ over = Without(x.over, x.flows[f].applied)
  OBVIOUS
<1>2. /\ DOMAIN flows = DOMAIN x.flows \ {f} /\ \A g \in DOMAIN flows : flows[g] = x.flows[g]
      /\ DOMAIN over = DOMAIN x.over \ x.flows[f].applied /\ \A q \in DOMAIN over : over[q] = x.over[q]
  BY <1>1 DEF Without
<1>3. IsMap(flows, FlowIDs, Flow) /\ IsMap(over, QerIDs, Override)
  BY <1>1, MapTypes DEF Fine, IsSession
<1>4. PICK y : y = [pdrs |-> x.pdrs, qers |-> x.qers, other |-> x.other, flows |-> flows, over |-> over]
  OBVIOUS
<1>5. /\ y.pdrs = x.pdrs /\ y.qers = x.qers /\ y.other = x.other /\ y.flows = flows /\ y.over = over
      /\ y = [pdrs |-> y.pdrs, qers |-> y.qers, other |-> y.other, flows |-> y.flows, over |-> y.over]
  BY <1>4
<1>6. IsSession(y)
  BY <1>3, <1>5 DEF Fine, IsSession
<1>7. \A g \in DOMAIN y.flows : y.flows[g].start \in 1 .. n
  BY <1>2, <1>5 DEF Fine
<1>8. ASSUME NEW q \in DOMAIN y.over PROVE <<s, q>> \in W \/ Bound(y, q)
  <2>1. q \in DOMAIN x.over /\ q \notin x.flows[f].applied /\ y.over[q] = x.over[q]
    BY <1>2, <1>5
  <2>2. CASE <<s, q>> \in U
    BY <2>1, <2>2
  <2>3. CASE Bound(x, q)
    <3>1. x.over[q].flow # f
      BY <2>1, <2>3 DEF Bound
    <3> QED BY <1>2, <1>5, <2>1, <2>3, <3>1 DEF Bound
  <2> QED BY <2>1, <2>2, <2>3 DEF Fine
<1>9. \A q \in DOMAIN y.over : Lawful(y.over[q])
  BY <1>2, <1>5 DEF Fine
<1>10. y = [x EXCEPT !.flows = Without(@, {f}), !.over = Without(@, x.flows[f].applied)]
  <2>1. [x EXCEPT !.flows = flows, !.over = over] = y
    <3>1. IsSession(x)
      BY DEF Fine
    <3>2. [x EXCEPT !.flows = flows, !.over = over] =
            [pdrs |-> x.pdrs, qers |-> x.qers, other |-> x.other, flows |-> flows, over |-> over]
      BY <3>1, FlowsExcept
    <3> QED BY <1>4, <3>2
  <2> QED BY <1>1, <2>1
<1> QED BY <1>6, <1>7, <1>8, <1>9, <1>10 DEF Fine

-----------------------------------------------------------------------------
(* Profiles                                                                *)

\* three quarters of a rate, also of one whose product wraps around
LEMMA GuaranteedFacts ==
    ASSUME NEW rate \in Nat PROVE Guaranteed(rate) \in Nat /\ Guaranteed(rate) <= rate
<1>1. PICK w \in Nat \ {0} : w = Word
  BY AdaptiveConstants
<1>2. PICK p \in Nat : p = (rate * 3) % w /\ p <= rate * 3
  <2>1. ASSUME NEW a \in Nat PROVE a % w \in Nat /\ a % w <= a
    OBVIOUS
  <2> QED BY <2>1
<1>3. p \div 4 \in Nat /\ p \div 4 <= rate
  BY <1>2
<1> QED BY <1>1, <1>2, <1>3 DEF Guaranteed, Positive

LEMMA BurstProfile ==
    ASSUME NEW r \in Report
    PROVE  /\ derivePredictiveBurstDecision(r).rates \in Rates
           /\ derivePredictiveBurstDecision(r).dur \in Nat
           /\ LawfulRates(derivePredictiveBurstDecision(r).rates)
<1>1. r.size \in Nat /\ r.deadline \in Nat /\ r.length \in Nat
  BY DEF Report
<1>2. /\ MaxBitrateDL \in Nat /\ MaxBitrateUL \in Nat
      /\ DefaultWindow \in Nat \ {0} /\ DefaultUL \in Nat
  BY AdaptiveConstants
<1>3. \A rate, limit \in Nat : Authorised(rate, limit) \in Nat /\ Within(Authorised(rate, limit), limit)
  BY DEF Authorised, Within
<1>4. Window(r) \in Nat \ {0}
  BY <1>1, <1>2 DEF Window, Positive
<1>5. rateFromBurst(r.size, Window(r)) \in Nat
  <2>1. PICK w \in Nat \ {0} : w = Word
    BY AdaptiveConstants
  <2>2. ASSUME NEW a \in Nat PROVE a % w \in Nat
    OBVIOUS
  <2>3. ASSUME NEW a \in Nat, NEW v \in Nat \ {0} PROVE a * 1000 + v - 1 \in Nat /\ a \div v \in Nat
    OBVIOUS
  <2>4. PICK bits \in Nat : bits = (r.size * 8) % w
    BY <1>1, <2>2
  <2>5. (bits * 1000 + Window(r) - 1) % w \in Nat
    <3>1. bits * 1000 + Window(r) - 1 \in Nat
      BY <1>4, <2>3
    <3> QED BY <2>2, <3>1
  <2>6. ((bits * 1000 + Window(r) - 1) % w) \div Window(r) \in Nat
    BY <1>4, <2>3, <2>5
  <2> QED BY <2>1, <2>4, <2>6 DEF rateFromBurst
<1>6. \A dl \in Nat : UplinkShare(dl) \in Nat
  <2>1. \A dl \in Nat : dl \div 8 \in Nat /\ dl \div 4 \in Nat
    OBVIOUS
  <2> QED BY <1>2, <2>1 DEF UplinkShare, Positive
<1>7. Positive(r.deadline, r.length) \in Nat
  BY <1>1 DEF Positive
<1>8. PICK req \in Nat : req = rateFromBurst(r.size, Window(r))
  BY <1>5
<1>9. PICK dl \in Nat : dl = Authorised(req, MaxBitrateDL) /\ Within(dl, MaxBitrateDL)
  BY <1>2, <1>3
<1>10. PICK ul \in Nat : ul = Authorised(UplinkShare(req), MaxBitrateUL) /\ Within(ul, MaxBitrateUL)
  BY <1>2, <1>3, <1>6
<1>11. derivePredictiveBurstDecision(r) =
         [rates |-> [mbrDL |-> dl, mbrUL |-> ul, gfbrDL |-> Guaranteed(dl), gfbrUL |-> Guaranteed(ul)],
          dur |-> Positive(r.deadline, r.length)]
  BY <1>8, <1>9, <1>10 DEF derivePredictiveBurstDecision, Profile
<1>12. PICK m : m = [mbrDL |-> dl, mbrUL |-> ul, gfbrDL |-> Guaranteed(dl), gfbrUL |-> Guaranteed(ul)]
  OBVIOUS
<1>13. m \in Rates /\ LawfulRates(m)
  BY <1>9, <1>10, <1>12, GuaranteedFacts DEF Rates, LawfulRates
<1> QED BY <1>7, <1>11, <1>12, <1>13

LEMMA ProfileFacts ==
    ASSUME NEW r \in Report, NEW profile \in selectAdaptiveProfile(r)
    PROVE  /\ profile.rates \in Rates /\ profile.dur \in Nat
           /\ r.burst => LawfulRates(profile.rates)
<1>0. r.burst \in BOOLEAN
  BY DEF Report
<1>1. CASE r.burst
  <2>1. profile = derivePredictiveBurstDecision(r)
    BY <1>1 DEF selectAdaptiveProfile
  <2> QED BY <2>1, BurstProfile
<1>2. CASE ~r.burst
  <2>1. \/ profile = [rates |-> [mbrDL |-> DefaultRate, mbrUL |-> DefaultRate,
                                gfbrDL |-> DefaultRate, gfbrUL |-> DefaultRate],
                      dur   |-> DefaultDuration]
        \/ \E i \in DOMAIN Rules : profile = [rates |-> Rules[i].rates, dur |-> Rules[i].dur]
    BY <1>2 DEF selectAdaptiveProfile
  <2>2. \A i \in DOMAIN Rules : Rules[i].rates \in Rates /\ Rules[i].dur \in Nat
    BY AdaptiveConstants
  <2>3. DefaultRate \in Nat /\ DefaultDuration \in Nat
    BY AdaptiveConstants
  <2>4. [mbrDL |-> DefaultRate, mbrUL |-> DefaultRate, gfbrDL |-> DefaultRate, gfbrUL |-> DefaultRate] \in Rates
    BY <2>3 DEF Rates
  <2> QED BY <1>2, <2>1, <2>2, <2>3, <2>4
<1> QED BY <1>0, <1>1, <1>2

LEMMA OverrideFacts ==
    ASSUME NEW r \in Report, NEW profile \in selectAdaptiveProfile(r), NEW now \in Times
    PROVE  /\ OverrideFor(r, profile, now) \in Override
           /\ OverrideFor(r, profile, now).flow = r.flow
           /\ Lawful(OverrideFor(r, profile, now))
<1>1. r.flow \in FlowIDs /\ r.burst \in BOOLEAN /\ now \in Nat
  BY AdaptiveConstants DEF Report, Times
<1>2. now + Positive(profile.dur, DefaultDuration) \in Nat
  BY <1>1, ProfileFacts, AdaptiveConstants DEF Positive
<1>3. PICK until \in Nat : until = now + Positive(profile.dur, DefaultDuration)
  BY <1>2
<1>4. PICK o : o = [flow |-> r.flow, burst |-> r.burst, rates |-> profile.rates, until |-> until]
  OBVIOUS
<1>5. o \in Override /\ o.flow = r.flow /\ o.burst = r.burst /\ o.rates = profile.rates
  BY <1>1, <1>3, <1>4, ProfileFacts DEF Override
<1>6. Lawful(o)
  BY <1>5, ProfileFacts DEF Lawful
<1> QED BY <1>3, <1>4, <1>5, <1>6 DEF OverrideFor

\* a flow is started: an override of this flow that is not set anew was
\* applied before, and counts as unbound
LEMMA FineStarted ==
    ASSUME NEW s, NEW x, NEW n \in Nat, NEW U, Fine(s, x, n, U),
           NEW f \in FlowIDs, NEW flow \in Flow, flow.start = n + 1, flow.applied \subseteq QerIDs,
           NEW o \in Override, o.flow = f, Lawful(o), NEW W,
           W = (U \cup ({s} \X OverriddenBy(x, f))) \ ({s} \X flow.applied)
    PROVE  Fine(s, [x EXCEPT !.flows = With(@, {f}, flow), !.over = With(@, flow.applied, o)], n + 1, W)
<1>1. PICK flows, over : flows = With(x.flows, {f}, flow) /\ over = With(x.over, flow.applied, o)
  OBVIOUS
<1>2. /\ DOMAIN flows = DOMAIN x.flows \cup {f} /\ flows[f] = flow
      /\ \A g \in DOMAIN flows : g # f => g \in DOMAIN x.flows /\ flows[g] = x.flows[g]
  BY <1>1 DEF With
<1>3. /\ DOMAIN over = DOMAIN x.over \cup flow.applied
      /\ \A q \in flow.applied : over[q] = o
      /\ \A q \in DOMAIN over : q \notin flow.applied => q \in DOMAIN x.over /\ over[q] = x.over[q]
  BY <1>1 DEF With
<1>4. IsMap(flows, FlowIDs, Flow) /\ IsMap(over, QerIDs, Override)
  <2>1. IsMap(x.flows, FlowIDs, Flow) /\ IsMap(x.over, QerIDs, Override) /\ {f} \subseteq FlowIDs
    BY DEF Fine, IsSession
  <2> QED BY <1>1, <2>1, MapTypes
<1>5. PICK y : y = [pdrs |-> x.pdrs, qers |-> x.qers, other |-> x.other, flows |-> flows, over |-> over]
  OBVIOUS
<1>6. /\ y.pdrs = x.pdrs /\ y.qers = x.qers /\ y.other = x.other /\ y.flows = flows /\ y.over = over
      /\ y = [pdrs |-> y.pdrs, qers |-> y.qers, other |-> y.other, flows |-> y.flows, over |-> y.over]
  BY <1>5
<1>7. IsSession(y)
  BY <1>4, <1>6 DEF Fine, IsSession
<1>8. ASSUME NEW g \in DOMAIN y.flows PROVE y.flows[g].start \in 1 .. n + 1
  <2>1. CASE g = f
    BY <1>2, <1>6, <2>1
  <2>2. CASE g # f
    <3>1. y.flows[g].start \in 1 .. n
      BY <1>2, <1>6, <2>2 DEF Fine
    <3> QED BY <3>1
  <2> QED BY <2>1, <2>2
<1>9. ASSUME NEW q \in DOMAIN y.over PROVE <<s, q>> \in W \/ Bound(y, q)
  <2>1. CASE q \in flow.applied
    BY <1>2, <1>3, <1>6, <2>1 DEF Bound
  <2>2. CASE q \notin flow.applied
    <3>1. q \in DOMAIN x.over /\ y.over[q] = x.over[q]
      BY <1>3, <1>6, <2>2
    <3>2. CASE <<s, q>> \in U
      BY <2>2, <3>2
    <3>3. CASE Bound(x, q) /\ x.over[q].flow = f
      <4>1. q \in OverriddenBy(x, f)
        BY <3>1, <3>3 DEF Bound, OverriddenBy
      <4> QED BY <2>2, <4>1
    <3>4. CASE Bound(x, q) /\ x.over[q].flow # f
      BY <1>2, <1>6, <3>1, <3>4 DEF Bound
    <3> QED BY <3>1, <3>2, <3>3, <3>4 DEF Fine
  <2> QED BY <2>1, <2>2
<1>10. \A q \in DOMAIN y.over : Lawful(y.over[q])
  BY <1>3, <1>6 DEF Fine
<1>11. y = [x EXCEPT !.flows = With(@, {f}, flow), !.over = With(@, flow.applied, o)]
  <2>1. [x EXCEPT !.flows = flows, !.over = over] = y
    <3>1. IsSession(x)
      BY DEF Fine
    <3>2. [x EXCEPT !.flows = flows, !.over = over] =
            [pdrs |-> x.pdrs, qers |-> x.qers, other |-> x.other, flows |-> flows, over |-> over]
      BY <3>1, FlowsExcept
    <3> QED BY <1>5, <3>2
  <2> QED BY <1>1, <2>1
<1> QED BY <1>7, <1>8, <1>9, <1>10, <1>11 DEF Fine

-----------------------------------------------------------------------------
(* Steps                                                                   *)

\* the types of all but the sessions
RestOK ==
    /\ clock \in 1 .. MaxClock
    /\ pending \in [Callers -> [report : Reports, now : Times] \cup {None}]
    /\ starts \in 0 .. MaxStarts
    /\ IsMap(timers, 1 .. MaxStarts, Timer)
    /\ \A n \in DOMAIN timers : n <= starts /\ timers[n].seen <= starts
    /\ unbound \subseteq Seids \X QerIDs
    /\ misended \subseteq 1 .. starts

LEMMA TypeParts == TypeOK /\ SessionsInv <=> RestOK /\ SessionsInv
BY DEF TypeOK, RestOK, SessionsInv, Fine

LEMMA TypePartsNext == (TypeOK /\ SessionsInv)' <=> RestOK' /\ SessionsInv'
BY DEF TypeOK, RestOK, SessionsInv, Fine

LEMMA Numbers ==
    ASSUME RestOK
    PROVE  /\ MaxStarts \in Nat /\ starts \in Nat /\ MaxClock \in Nat /\ clock \in Nat
           /\ LastReport \in Nat /\ Grace \in Nat /\ starts <= MaxStarts /\ clock <= MaxClock
BY AdaptiveConstants DEF RestOK

\* session s becomes x, and the others keep what was unbound
LEMMA SessionPut ==
    ASSUME SessionsInv, NEW s \in Seids, NEW x, sessions' = With(sessions, {s}, x),
           starts \in Nat, starts' \in Nat, starts <= starts', Fine(s, x, starts', unbound'),
           \A t \in DOMAIN sessions \ {s} : \A q : <<t, q>> \in unbound => <<t, q>> \in unbound'
    PROVE  SessionsInv'
<1>1. /\ DOMAIN sessions' = DOMAIN sessions \cup {s} /\ sessions'[s] = x
      /\ \A t \in DOMAIN sessions \ {s} : sessions'[t] = sessions[t]
      /\ sessions' = [t \in DOMAIN sessions' |-> sessions'[t]]
  BY DEF With
<1>2. \A t \in DOMAIN sessions \ {s} : Fine(t, sessions[t], starts', unbound')
  BY FineLater DEF SessionsInv
<1> QED BY <1>1, <1>2 DEF SessionsInv

\* session s is deleted
LEMMA SessionGone ==
    ASSUME SessionsInv, NEW s \in Seids, sessions' = Without(sessions, {s}),
           starts' = starts, starts \in Nat,
           \A t \in DOMAIN sessions \ {s} : \A q : <<t, q>> \in unbound => <<t, q>> \in unbound'
    PROVE  SessionsInv'
<1>1. /\ DOMAIN sessions' = DOMAIN sessions \ {s}
      /\ \A t \in DOMAIN sessions \ {s} : sessions'[t] = sessions[t]
      /\ sessions' = [t \in DOMAIN sessions' |-> sessions'[t]]
  BY DEF Without
<1>2. \A t \in DOMAIN sessions \ {s} : Fine(t, sessions[t], starts, unbound')
  BY FineLater DEF SessionsInv
<1> QED BY <1>1, <1>2 DEF SessionsInv

LEMMA ExceptIsWith ==
    ASSUME SessionsInv, NEW s \in DOMAIN sessions, NEW x
    PROVE  [sessions EXCEPT ![s] = x] = With(sessions, {s}, x)
<1>1. PICK D : D = DOMAIN sessions /\ sessions = [t \in D |-> sessions[t]]
  BY DEF SessionsInv
<1> QED BY <1>1 DEF With

LEMMA EnsuredFine ==
    ASSUME SessionsInv, NEW s \in Seids PROVE Fine(s, Ensured(s), starts, unbound)
<1>1. CASE s \in DOMAIN sessions
  BY <1>1 DEF Ensured, SessionsInv
<1>2. CASE s \notin DOMAIN sessions
  <2>1. Ensured(s) = [pdrs |-> << >>, qers |-> {}, other |-> FALSE, flows |-> << >>, over |-> << >>]
    BY <1>2 DEF Ensured, EmptySession
  <2>2. IsMap(<< >>, PdrIDs, PDRRule) /\ {} \in SUBSET QerIDs /\ FALSE \in BOOLEAN
    BY NoMap
  <2> QED BY <2>1, <2>2, FineNone
<1> QED BY <1>1, <1>2

\* deleteSessionIfEmptyLocked
LEMMA ShrunkStep ==
    ASSUME SessionsInv, NEW s \in Seids, NEW x, Fine(s, x, starts, unbound), starts \in Nat,
           sessions' = Shrunk(s, x), unbound' = unbound \ Forgotten(s), UNCHANGED starts
    PROVE  SessionsInv'
<1>1. \A t : t # s => \A q : <<t, q>> \in unbound => <<t, q>> \in unbound'
  BY DEF Forgotten
<1>2. CASE sessions' = Without(sessions, {s})
  BY <1>1, <1>2, SessionGone
<1>3. CASE sessions' = With(sessions, {s}, x)
  <2>1. s \in DOMAIN sessions'
    BY <1>3 DEF With
  <2>2. unbound' = unbound
    BY <2>1 DEF Forgotten
  <2> QED BY <1>1, <1>3, <2>2, SessionPut
<1> QED BY <1>2, <1>3 DEF Shrunk

LEMMA InitInvariant == Init => IInv
<1> SUFFICES ASSUME Init PROVE IInv
  OBVIOUS
<1> USE DEF Init
<1>1. IsMap(timers, 1 .. MaxStarts, Timer) /\ DOMAIN timers = {} /\ DOMAIN sessions = {}
  BY NoMap
<1>2. sessions = [s \in {} |-> sessions[s]]
  OBVIOUS
<1>3. 1 \in 1 .. MaxClock
  BY AdaptiveConstants
<1>4. RestOK
  BY <1>1, <1>3, AdaptiveConstants DEF RestOK
<1>5. SessionsInv
  BY <1>1, <1>2 DEF SessionsInv
<1>6. ReportsInTime
  BY DEF ReportsInTime
<1> QED BY <1>4, <1>5, <1>6, TypeParts DEF IInv

\* main changes a session's rules
LEMMA ControlStep ==
    ASSUME RestOK, SessionsInv, ControlPlane
    PROVE  SessionsInv' /\ UNCHANGED <<clock, pending, timers, starts, misended>> /\ unbound' \subseteq unbound
<1> USE Numbers
<1>1. ASSUME NEW s \in Seids, NEW p \in PdrIDs, NEW rule \in PDRRules[s], PutPDR(s, p, rule)
      PROVE  SessionsInv' /\ UNCHANGED <<clock, pending, timers, starts, misended>> /\ unbound' \subseteq unbound
  <2>1. PICK x : x = Ensured(s)
    OBVIOUS
  <2>2. Fine(s, x, starts, unbound)
    BY <2>1, EnsuredFine
  <2>3. PICK pdrs : pdrs = With(x.pdrs, {p}, rule)
    OBVIOUS
  <2>4. IsMap(pdrs, PdrIDs, PDRRule)
    <3>1. rule \in PDRRule
      BY AdaptiveConstants
    <3> QED BY <2>2, <2>3, <3>1, MapTypes DEF Fine, IsSession
  <2>5. PICK y : y = [x EXCEPT !.pdrs = pdrs]
    OBVIOUS
  <2>6. Fine(s, y, starts, unbound)
    <3>1. y = [pdrs |-> pdrs, qers |-> x.qers, other |-> x.other, flows |-> x.flows, over |-> x.over]
      BY <2>2, <2>5, RulesExcept DEF Fine
    <3>2. x.qers \in SUBSET QerIDs /\ x.other \in BOOLEAN
      BY <2>2 DEF Fine, IsSession
    <3> QED BY <2>2, <2>4, <3>1, <3>2, FineRules
  <2>7. sessions' = With(sessions, {s}, y) /\ UNCHANGED <<clock, pending, timers, starts, unbound, misended>>
    BY <1>1, <2>1, <2>3, <2>5 DEF PutPDR
  <2>8. SessionsInv'
    BY <2>6, <2>7, SessionPut
  <2> QED BY <2>7, <2>8
<1>2. ASSUME NEW s \in Seids, NEW q \in QERs[s], PutQER(s, q)
      PROVE  SessionsInv' /\ UNCHANGED <<clock, pending, timers, starts, misended>> /\ unbound' \subseteq unbound
  <2>1. PICK x : x = Ensured(s)
    OBVIOUS
  <2>2. Fine(s, x, starts, unbound)
    BY <2>1, EnsuredFine
  <2>3. PICK qers : qers = x.qers \cup {q}
    OBVIOUS
  <2>4. qers \in SUBSET QerIDs
    <3>1. q \in QerIDs
      BY DEF QerIDs
    <3> QED BY <2>2, <2>3, <3>1 DEF Fine, IsSession
  <2>5. PICK y : y = [x EXCEPT !.qers = qers]
    OBVIOUS
  <2>6. Fine(s, y, starts, unbound)
    <3>1. y = [pdrs |-> x.pdrs, qers |-> qers, other |-> x.other, flows |-> x.flows, over |-> x.over]
      BY <2>2, <2>5, RulesExcept DEF Fine
    <3>2. IsMap(x.pdrs, PdrIDs, PDRRule) /\ x.other \in BOOLEAN
      BY <2>2 DEF Fine, IsSession
    <3> QED BY <2>2, <2>4, <3>1, <3>2, FineRules
  <2>7. sessions' = With(sessions, {s}, y) /\ UNCHANGED <<clock, pending, timers, starts, unbound, misended>>
    BY <1>2, <2>1, <2>3, <2>5 DEF PutQER
  <2>8. SessionsInv'
    BY <2>6, <2>7, SessionPut
  <2> QED BY <2>7, <2>8
<1>3. ASSUME NEW s \in Seids, NEW p \in PdrIDs, RemovePDR(s, p)
      PROVE  SessionsInv' /\ UNCHANGED <<clock, pending, timers, starts, misended>> /\ unbound' \subseteq unbound
  <2>1. s \in DOMAIN sessions
    BY <1>3 DEF RemovePDR
  <2>2. PICK x : x = sessions[s]
    OBVIOUS
  <2>3. PICK pdrs : pdrs = Without(x.pdrs, {p})
    OBVIOUS
  <2>4. PICK y : y = [x EXCEPT !.pdrs = pdrs]
    OBVIOUS
  <2>5. Fine(s, x, starts, unbound)
    BY <2>1, <2>2 DEF SessionsInv
  <2>6. IsMap(pdrs, PdrIDs, PDRRule) /\ x.qers \in SUBSET QerIDs /\ x.other \in BOOLEAN
    BY <2>3, <2>5, MapTypes DEF Fine, IsSession
  <2>7. Fine(s, y, starts, unbound)
    <3>1. y = [pdrs |-> pdrs, qers |-> x.qers, other |-> x.other, flows |-> x.flows, over |-> x.over]
      BY <2>4, <2>5, RulesExcept DEF Fine
    <3> QED BY <2>5, <2>6, <3>1, FineRules
  <2>8. /\ sessions' = Shrunk(s, y) /\ unbound' = unbound \ Forgotten(s)
        /\ UNCHANGED <<clock, pending, timers, starts, misended>>
    BY <1>3, <2>2, <2>3, <2>4 DEF RemovePDR
  <2>9. SessionsInv'
    BY <2>7, <2>8, ShrunkStep
  <2> QED BY <2>8, <2>9
<1>4. ASSUME NEW s \in Seids, NEW q \in QERs[s], RemoveQER(s, q)
      PROVE  SessionsInv' /\ UNCHANGED <<clock, pending, timers, starts, misended>> /\ unbound' \subseteq unbound
  <2>1. s \in DOMAIN sessions
    BY <1>4 DEF RemoveQER
  <2>2. PICK x : x = sessions[s]
    OBVIOUS
  <2>3. PICK qers : qers = x.qers \ {q}
    OBVIOUS
  <2>4. PICK y : y = [x EXCEPT !.qers = qers]
    OBVIOUS
  <2>5. Fine(s, x, starts, unbound)
    BY <2>1, <2>2 DEF SessionsInv
  <2>6. qers \in SUBSET QerIDs /\ IsMap(x.pdrs, PdrIDs, PDRRule) /\ x.other \in BOOLEAN
    BY <2>3, <2>5 DEF Fine, IsSession
  <2>7. Fine(s, y, starts, unbound)
    <3>1. y = [pdrs |-> x.pdrs, qers |-> qers, other |-> x.other, flows |-> x.flows, over |-> x.over]
      BY <2>4, <2>5, RulesExcept DEF Fine
    <3> QED BY <2>5, <2>6, <3>1, FineRules
  <2>8. /\ sessions' = Shrunk(s, y) /\ unbound' = unbound \ Forgotten(s)
        /\ UNCHANGED <<clock, pending, timers, starts, misended>>
    BY <1>4, <2>2, <2>3, <2>4 DEF RemoveQER
  <2>9. SessionsInv'
    BY <2>7, <2>8, ShrunkStep
  <2> QED BY <2>8, <2>9
<1>5. ASSUME NEW s \in Seids, PutOther(s)
      PROVE  SessionsInv' /\ UNCHANGED <<clock, pending, timers, starts, misended>> /\ unbound' \subseteq unbound
  <2>1. PICK x : x = Ensured(s)
    OBVIOUS
  <2>2. Fine(s, x, starts, unbound)
    BY <2>1, EnsuredFine
  <2>3. PICK y : y = [x EXCEPT !.other = TRUE]
    OBVIOUS
  <2>4. Fine(s, y, starts, unbound)
    <3>1. y = [pdrs |-> x.pdrs, qers |-> x.qers, other |-> TRUE, flows |-> x.flows, over |-> x.over]
      BY <2>2, <2>3, RulesExcept DEF Fine
    <3>2. IsMap(x.pdrs, PdrIDs, PDRRule) /\ x.qers \in SUBSET QerIDs
      BY <2>2 DEF Fine, IsSession
    <3> QED BY <2>2, <3>1, <3>2, FineRules
  <2>5. sessions' = With(sessions, {s}, y) /\ UNCHANGED <<clock, pending, timers, starts, unbound, misended>>
    BY <1>5, <2>1, <2>3 DEF PutOther
  <2>6. SessionsInv'
    BY <2>4, <2>5, SessionPut
  <2> QED BY <2>5, <2>6
<1>6. ASSUME NEW s \in Seids, RemoveOther(s)
      PROVE  SessionsInv' /\ UNCHANGED <<clock, pending, timers, starts, misended>> /\ unbound' \subseteq unbound
  <2>1. s \in DOMAIN sessions
    BY <1>6 DEF RemoveOther
  <2>2. PICK x : x = sessions[s]
    OBVIOUS
  <2>3. PICK y : y = [x EXCEPT !.other = FALSE]
    OBVIOUS
  <2>4. Fine(s, x, starts, unbound)
    BY <2>1, <2>2 DEF SessionsInv
  <2>5. Fine(s, y, starts, unbound)
    <3>1. y = [pdrs |-> x.pdrs, qers |-> x.qers, other |-> FALSE, flows |-> x.flows, over |-> x.over]
      BY <2>3, <2>4, RulesExcept DEF Fine
    <3>2. IsMap(x.pdrs, PdrIDs, PDRRule) /\ x.qers \in SUBSET QerIDs
      BY <2>4 DEF Fine, IsSession
    <3> QED BY <2>4, <3>1, <3>2, FineRules
  <2>6. /\ sessions' = Shrunk(s, y) \/ sessions' = With(sessions, {s}, y)
        /\ unbound' = unbound \ Forgotten(s)
        /\ UNCHANGED <<clock, pending, timers, starts, misended>>
    BY <1>6, <2>2, <2>3 DEF RemoveOther
  <2>7. CASE sessions' = Shrunk(s, y)
    <3>1. SessionsInv'
      BY <2>5, <2>6, <2>7, ShrunkStep
    <3> QED BY <2>6, <3>1
  <2>8. CASE sessions' = With(sessions, {s}, y)
    <3>1. s \in DOMAIN sessions'
      BY <2>8 DEF With
    <3>2. unbound' = unbound
      BY <2>6, <3>1 DEF Forgotten
    <3>3. SessionsInv'
      BY <2>5, <2>6, <2>8, <3>2, SessionPut
    <3> QED BY <2>6, <3>2, <3>3
  <2> QED BY <2>6, <2>7, <2>8
<1> QED BY <1>1, <1>2, <1>3, <1>4, <1>5, <1>6 DEF ControlPlane

\* endAdaptiveFlow, for a report or for a timer
LEMMA EndStep ==
    ASSUME RestOK, SessionsInv, NEW f, NEW s \in Holders(f), EndIn(s, f), UNCHANGED starts
    PROVE  /\ SessionsInv' /\ unbound' \subseteq unbound
           /\ sessions[s].flows[f].start \in 1 .. starts
<1>1. s \in DOMAIN sessions /\ s \in Seids /\ f \in DOMAIN sessions[s].flows
  BY DEF Holders, SessionsInv
<1>2. PICK x : x = sessions[s]
  OBVIOUS
<1>3. Fine(s, x, starts, unbound) /\ f \in DOMAIN x.flows
  BY <1>1, <1>2 DEF SessionsInv
<1>4. PICK y : y = [x EXCEPT !.flows = Without(@, {f}), !.over = Without(@, x.flows[f].applied)]
  OBVIOUS
<1>5. unbound' = unbound \ ({s} \X x.flows[f].applied)
  BY <1>2 DEF EndIn
<1>6. Fine(s, y, starts, unbound')
  BY <1>3, <1>4, <1>5, FineEnded
<1>7. sessions' = With(sessions, {s}, y)
  <2>1. sessions' = [sessions EXCEPT ![s] = y]
    <3>1. sessions' = [sessions EXCEPT ![s] =
             [sessions[s] EXCEPT !.flows = Without(@, {f}), !.over = Without(@, sessions[s].flows[f].applied)]]
      BY DEF EndIn, Ended
    <3>2. y = [sessions[s] EXCEPT !.flows = Without(@, {f}), !.over = Without(@, sessions[s].flows[f].applied)]
      BY ONLY <1>2, <1>4
    <3> QED BY ONLY <3>1, <3>2, Zenon
  <2> QED BY <1>1, <2>1, ExceptIsWith
<1>8. \A t \in DOMAIN sessions \ {s} : \A q : <<t, q>> \in unbound => <<t, q>> \in unbound'
  BY <1>5
<1>9. SessionsInv'
  BY <1>1, <1>6, <1>7, <1>8, SessionPut, Numbers
<1> QED BY <1>2, <1>3, <1>5, <1>9 DEF Fine

\* the timer of start n expires within the model's time
LEMMA ScheduleFacts ==
    ASSUME RestOK, clock <= LastReport + 1, NEW r \in Reports, NEW stamp \in Times,
           NEW n, n = starts + 1, starts < MaxStarts, starts' = n,
           timers' = scheduleAdaptiveFlowAutoEnd(n, r, stamp)
    PROVE  /\ IsMap(timers', 1 .. MaxStarts, Timer)
           /\ \A m \in DOMAIN timers' : m <= starts' /\ timers'[m].seen <= starts'
<1> USE Numbers
<1>1. CASE timers' = timers
  <2>1. \A m \in DOMAIN timers : m <= starts /\ timers[m].seen <= starts /\ timers[m] \in Timer /\ m \in Nat
    BY DEF RestOK, IsMap
  <2>2. \A m \in DOMAIN timers : timers[m].seen \in Nat
    BY <2>1 DEF Timer
  <2> QED BY <1>1, <2>1, <2>2 DEF RestOK
<1>2. CASE r.arrival # 0
  <2>1. r.arrival \in Nat /\ r.arrival + Grace <= MaxClock /\ r.flow \in FlowIDs
    BY AdaptiveConstants DEF Report, Times
  <2>2. clock + Grace <= MaxClock
    BY AdaptiveConstants
  <2>3. PICK at : at = IF r.arrival > clock THEN r.arrival + Grace ELSE clock + Grace
    OBVIOUS
  <2>4. at \in Times
    BY <2>1, <2>2, <2>3 DEF Times
  <2>5. PICK t : t = [flow |-> r.flow, stamp |-> stamp, at |-> at, seen |-> 0]
    OBVIOUS
  <2>6. t \in Timer /\ t.seen = 0
    <3>1. 0 \in 0 .. MaxStarts
      OBVIOUS
    <3> QED BY <2>1, <2>4, <2>5, <3>1 DEF Timer
  <2>7. timers' = With(timers, {n}, t)
    BY <1>2, <2>3, <2>5 DEF scheduleAdaptiveFlowAutoEnd
  <2>8. n \in 1 .. MaxStarts /\ n \in Nat
    OBVIOUS
  <2>9. IsMap(timers', 1 .. MaxStarts, Timer)
    <3>1. IsMap(timers, 1 .. MaxStarts, Timer) /\ {n} \subseteq 1 .. MaxStarts
      BY <2>8 DEF RestOK
    <3> QED BY ONLY <2>6, <2>7, <3>1, MapTypes
  <2>10. /\ DOMAIN timers' = DOMAIN timers \cup {n} /\ timers'[n] = t
         /\ \A m \in DOMAIN timers : m # n => timers'[m] = timers[m]
    BY <2>7 DEF With
  <2>11. \A m \in DOMAIN timers : m \in Nat /\ m <= starts /\ timers[m].seen <= starts /\ timers[m].seen \in Nat
    <3>1. \A m \in DOMAIN timers : m <= starts /\ timers[m].seen <= starts /\ timers[m] \in Timer /\ m \in Nat
      BY DEF RestOK, IsMap
    <3>2. \A m \in DOMAIN timers : timers[m].seen \in Nat
      BY <3>1 DEF Timer
    <3> QED BY <3>1, <3>2
  <2> QED BY <2>6, <2>8, <2>9, <2>10, <2>11
<1> QED BY <1>1, <1>2 DEF scheduleAdaptiveFlowAutoEnd

LEMMA StartStep ==
    ASSUME RestOK, SessionsInv, ReportsInTime, NEW c \in Callers, pending[c] # None,
           NEW s \in resolveAdaptiveSession(pending[c].report), startAdaptiveFlow(c, s)
    PROVE  /\ SessionsInv' /\ starts' = starts + 1 /\ starts' <= MaxStarts
           /\ IsMap(timers', 1 .. MaxStarts, Timer)
           /\ \A m \in DOMAIN timers' : m <= starts' /\ timers'[m].seen <= starts'
           /\ unbound' \subseteq Seids \X QerIDs /\ UNCHANGED <<clock, misended>>
<1> USE Numbers
<1>1. PICK r \in Reports, now \in Times : r = pending[c].report /\ now = pending[c].now
  BY DEF RestOK
<1>2. r \in Report /\ r.flow \in FlowIDs /\ r.stamp \in Times /\ r.arrival \in Times
  BY AdaptiveConstants DEF Report
<1>3. s \in DOMAIN sessions /\ s \in Seids
  <2>1. resolveAdaptiveSession(r) \subseteq DOMAIN sessions
    BY <1>1, <1>2 DEF resolveAdaptiveSession
  <2> QED BY <1>1, <2>1 DEF SessionsInv
<1>4. PICK x : x = sessions[s]
  OBVIOUS
<1>5. Fine(s, x, starts, unbound)
  BY <1>3, <1>4 DEF SessionsInv
<1>6. PICK applied : applied = collectAdaptiveQERIDs(x)
  OBVIOUS
<1>7. applied \subseteq QerIDs
  <2>1. x.qers \subseteq QerIDs
    BY <1>5 DEF Fine, IsSession
  <2>2. PICK used : used = (UNION {x.pdrs[p].qers : p \in DOMAIN x.pdrs}) \cap x.qers
    OBVIOUS
  <2>3. applied = IF used # {} THEN used ELSE x.qers
    BY <1>6, <2>2 DEF collectAdaptiveQERIDs
  <2>4. used \subseteq x.qers
    BY <2>2
  <2> QED BY <2>1, <2>3, <2>4
<1>8. PICK stamp \in Times : stamp = Positive(r.stamp, now)
  BY <1>2 DEF Positive
<1>9. PICK n \in Nat : n = starts + 1
  OBVIOUS
<1>10. PICK flow : flow = [start |-> n, stamp |-> stamp, arrival |-> r.arrival, applied |-> applied]
  OBVIOUS
<1>11. flow \in Flow /\ flow.start = starts + 1 /\ flow.applied = applied
  BY <1>2, <1>7, <1>9, <1>10 DEF Flow
<1>12. PICK profile \in selectAdaptiveProfile(r) :
          sessions' = [sessions EXCEPT ![s] =
             [x EXCEPT !.flows = With(@, {r.flow}, flow), !.over = With(@, applied, OverrideFor(r, profile, now))]]
  BY <1>1, <1>4, <1>6, <1>8, <1>9, <1>10 DEF startAdaptiveFlow
<1>13. PICK o \in Override : o = OverrideFor(r, profile, now) /\ o.flow = r.flow /\ Lawful(o)
  BY <1>2, OverrideFacts
<1>14. /\ starts < MaxStarts /\ starts' = n /\ UNCHANGED <<clock, misended>>
       /\ timers' = scheduleAdaptiveFlowAutoEnd(n, r, stamp)
       /\ unbound' = (unbound \cup ({s} \X OverriddenBy(x, r.flow))) \ ({s} \X applied)
  BY <1>1, <1>4, <1>6, <1>8, <1>9 DEF startAdaptiveFlow
<1>15. PICK y : y = [x EXCEPT !.flows = With(@, {r.flow}, flow), !.over = With(@, flow.applied, o)]
  OBVIOUS
<1>16. Fine(s, y, starts', unbound')
  <2>1. Fine(s, y, starts + 1, unbound')
    BY <1>2, <1>5, <1>7, <1>11, <1>13, <1>14, <1>15, FineStarted
  <2> QED BY <1>9, <1>14, <2>1
<1>17. sessions' = With(sessions, {s}, y)
  <2>1. sessions' = [sessions EXCEPT ![s] = y]
    <3>1. flow.applied = applied
      BY <1>11
    <3>2. y = [x EXCEPT !.flows = With(@, {r.flow}, flow), !.over = With(@, applied, OverrideFor(r, profile, now))]
      BY ONLY <1>13, <1>15, <3>1
    <3> QED BY ONLY <1>12, <3>2, Zenon
  <2> QED BY <1>3, <2>1, ExceptIsWith
<1>18. \A t \in DOMAIN sessions \ {s} : \A q : <<t, q>> \in unbound => <<t, q>> \in unbound'
  BY <1>14
<1>19. SessionsInv'
  <2>1. starts' \in Nat /\ starts <= starts'
    BY <1>9, <1>14
  <2> QED BY <1>3, <1>16, <1>17, <1>18, <2>1, SessionPut
<1>20. unbound' \subseteq Seids \X QerIDs
  <2>1. OverriddenBy(x, r.flow) \subseteq QerIDs
    BY <1>5 DEF OverriddenBy, Fine, IsSession, IsMap
  <2> QED BY <1>3, <1>14, <2>1 DEF RestOK
<1>21. /\ IsMap(timers', 1 .. MaxStarts, Timer)
       /\ \A m \in DOMAIN timers' : m <= starts' /\ timers'[m].seen <= starts'
  BY <1>9, <1>14, ScheduleFacts DEF ReportsInTime
<1> QED BY <1>9, <1>14, <1>19, <1>20, <1>21

\* a report is received or applied
LEMMA ReportStep ==
    ASSUME IInv, NEW c \in Callers, Receive(c) \/ applyAdaptiveReport(c)
    PROVE  IInv'
<1>0. RestOK /\ SessionsInv /\ ReportsInTime
  BY TypeParts DEF IInv
<1> USE Numbers
<1>1. CASE Receive(c)
  <2>1. /\ clock <= LastReport /\ UNCHANGED <<sessions, clock, timers, starts, unbound, misended>>
        /\ \E r \in Reports : pending' = [pending EXCEPT ![c] = [report |-> r, now |-> clock]]
    BY <1>1 DEF Receive
  <2>2. pending' \in [Callers -> [report : Reports, now : Times] \cup {None}]
    <3>1. PICK r \in Reports : pending' = [pending EXCEPT ![c] = [report |-> r, now |-> clock]]
      BY <2>1
    <3>2. clock \in Times
      BY <1>0 DEF Times
    <3>3. [report |-> r, now |-> clock] \in [report : Reports, now : Times]
      BY <3>2
    <3> QED BY <1>0, <3>1, <3>3 DEF RestOK
  <2>3. RestOK'
    BY <1>0, <2>1, <2>2 DEF RestOK
  <2>4. SessionsInv'
    BY <1>0, <2>1 DEF SessionsInv
  <2>5. ReportsInTime'
    BY <1>0, <2>1 DEF ReportsInTime
  <2> QED BY <2>3, <2>4, <2>5, TypePartsNext DEF IInv
<1>2. CASE applyAdaptiveReport(c)
  <2>1. pending[c] # None /\ pending' = [pending EXCEPT ![c] = None]
    BY <1>2 DEF applyAdaptiveReport
  <2>2. /\ pending' \in [Callers -> [report : Reports, now : Times] \cup {None}]
        /\ \A d \in Callers : pending'[d] # None => pending[d] # None
    BY <1>0, <2>1 DEF RestOK
  <2>3. clock' = clock => ReportsInTime'
    BY <1>0, <2>2 DEF ReportsInTime
  <2>4. CASE UNCHANGED <<sessions, unbound, clock, timers, starts, misended>>
    <3>1. RestOK'
      BY <1>0, <2>2, <2>4 DEF RestOK
    <3>2. SessionsInv'
      BY <1>0, <2>4 DEF SessionsInv
    <3> QED BY <2>3, <2>4, <3>1, <3>2, TypePartsNext DEF IInv
  <2>5. ASSUME NEW f, NEW s \in Holders(f), EndIn(s, f), UNCHANGED <<clock, timers, starts, misended>>
        PROVE  IInv'
    <3>1. SessionsInv' /\ unbound' \subseteq unbound
      BY <1>0, <2>5, EndStep
    <3>2. RestOK'
      BY <1>0, <2>2, <2>5, <3>1 DEF RestOK
    <3> QED BY <2>3, <2>5, <3>1, <3>2, TypePartsNext DEF IInv
  <2>6. ASSUME NEW s \in resolveAdaptiveSession(pending[c].report), startAdaptiveFlow(c, s)
        PROVE  IInv'
    <3>1. /\ SessionsInv' /\ starts' = starts + 1 /\ starts' <= MaxStarts
          /\ IsMap(timers', 1 .. MaxStarts, Timer)
          /\ \A m \in DOMAIN timers' : m <= starts' /\ timers'[m].seen <= starts'
          /\ unbound' \subseteq Seids \X QerIDs /\ UNCHANGED <<clock, misended>>
      BY <1>0, <2>1, <2>6, StartStep
    <3>2. starts' \in 0 .. MaxStarts /\ misended' \subseteq 1 .. starts'
      BY <1>0, <3>1 DEF RestOK
    <3>3. RestOK'
      BY <1>0, <2>2, <3>1, <3>2 DEF RestOK
    <3> QED BY <2>3, <3>1, <3>3, TypePartsNext DEF IInv
  <2> QED BY <1>2, <2>4, <2>5, <2>6 DEF applyAdaptiveReport, EndMisses
<1> QED BY <1>1, <1>2

LEMMA ResetStep ==
    ASSUME IInv, resetAdaptiveState PROVE IInv'
<1>0. RestOK /\ SessionsInv /\ ReportsInTime
  BY TypeParts DEF IInv
<1>1. /\ sessions' = [s \in DOMAIN sessions |-> [sessions[s] EXCEPT !.flows = << >>, !.over = << >>]]
      /\ unbound' = {} /\ UNCHANGED <<clock, pending, timers, starts, misended>>
  BY DEF resetAdaptiveState
<1>2. RestOK'
  BY <1>0, <1>1 DEF RestOK
<1>3. ASSUME NEW s \in DOMAIN sessions PROVE Fine(s, sessions'[s], starts, unbound')
  <2>1. PICK x : x = sessions[s]
    OBVIOUS
  <2>2. IsSession(x)
    BY <1>0, <2>1 DEF SessionsInv, Fine
  <2>3. sessions'[s] = [x EXCEPT !.flows = << >>, !.over = << >>]
    BY <1>1, <2>1
  <2>4. sessions'[s] = [pdrs |-> x.pdrs, qers |-> x.qers, other |-> x.other, flows |-> << >>, over |-> << >>]
    BY <2>2, <2>3, FlowsExcept
  <2>5. IsMap(x.pdrs, PdrIDs, PDRRule) /\ x.qers \in SUBSET QerIDs /\ x.other \in BOOLEAN
    BY <2>2 DEF IsSession
  <2> QED BY <2>4, <2>5, FineNone
<1>4. DOMAIN sessions' = DOMAIN sessions /\ sessions' = [s \in DOMAIN sessions' |-> sessions'[s]]
  BY <1>1
<1>5. SessionsInv'
  BY <1>0, <1>1, <1>3, <1>4 DEF SessionsInv
<1>6. ReportsInTime'
  BY <1>0, <1>1 DEF ReportsInTime
<1> QED BY <1>2, <1>5, <1>6, TypePartsNext DEF IInv

\* a timer goes, or has seen its flow current
LEMMA TimersLess ==
    ASSUME RestOK, NEW n, NEW t, t = Without(timers, {n})
    PROVE  /\ IsMap(t, 1 .. MaxStarts, Timer)
           /\ \A m \in DOMAIN t : m <= starts /\ t[m].seen <= starts
<1>1. IsMap(timers, 1 .. MaxStarts, Timer)
  BY DEF RestOK
<1>2. IsMap(t, 1 .. MaxStarts, Timer)
  BY ONLY <1>1, t = Without(timers, {n}), MapTypes
<1>3. \A m \in DOMAIN t : m \in DOMAIN timers /\ t[m] = timers[m]
  BY DEF Without
<1> QED BY <1>2, <1>3 DEF RestOK

LEMMA TimersSeen ==
    ASSUME RestOK, NEW n \in DOMAIN timers, NEW t, t = [timers EXCEPT ![n].seen = starts]
    PROVE  /\ IsMap(t, 1 .. MaxStarts, Timer)
           /\ \A m \in DOMAIN t : m <= starts /\ t[m].seen <= starts
<1> USE Numbers
<1>1. PICK D : D = DOMAIN timers /\ timers \in [D -> Timer] /\ D \subseteq 1 .. MaxStarts
  BY DEF RestOK, IsMap
<1>2. PICK v \in Timer : v = timers[n]
  BY <1>1
<1>3. PICK w : w = [v EXCEPT !.seen = starts]
  OBVIOUS
<1>4. w \in Timer /\ w.seen = starts
  <2>1. starts \in 0 .. MaxStarts
    OBVIOUS
  <2> QED BY <1>2, <1>3, <2>1 DEF Timer
<1>5. t = [timers EXCEPT ![n] = w]
  BY <1>2, <1>3
<1>6. t \in [D -> Timer] /\ DOMAIN t = D /\ t[n] = w /\ \A m \in D : m # n => t[m] = timers[m]
  BY <1>1, <1>4, <1>5
<1>7. \A m \in D : m <= starts /\ (m # n => timers[m].seen <= starts)
  BY <1>1 DEF RestOK
<1> QED BY <1>1, <1>4, <1>6, <1>7 DEF IsMap

LEMMA TimerSteps ==
    ASSUME IInv, TimerStep PROVE IInv'
<1>0. RestOK /\ SessionsInv /\ ReportsInTime
  BY TypeParts DEF IInv
<1>1. PICK n \in DOMAIN timers : TimerChecks(n) \/ TimerEnds(n)
  BY DEF TimerStep
<1>2. CASE TimerChecks(n)
  <2>1. UNCHANGED <<sessions, clock, pending, starts, unbound, misended>>
    BY <1>2 DEF TimerChecks
  <2>2. timers' = [timers EXCEPT ![n].seen = starts] \/ timers' = Without(timers, {n})
    BY <1>2 DEF TimerChecks
  <2>3. /\ IsMap(timers', 1 .. MaxStarts, Timer)
        /\ \A m \in DOMAIN timers' : m <= starts /\ timers'[m].seen <= starts
    BY <1>0, <2>2, TimersLess, TimersSeen
  <2>4. RestOK'
    BY <1>0, <2>1, <2>3 DEF RestOK
  <2>5. SessionsInv' /\ ReportsInTime'
    BY <1>0, <2>1 DEF SessionsInv, ReportsInTime
  <2> QED BY <2>4, <2>5, TypePartsNext DEF IInv
<1>3. CASE TimerEnds(n)
  <2>1. PICK f : f = timers[n].flow
    OBVIOUS
  <2>2. timers' = Without(timers, {n}) /\ UNCHANGED <<clock, pending, starts>>
    BY <1>3 DEF TimerEnds
  <2>3. /\ IsMap(timers', 1 .. MaxStarts, Timer)
        /\ \A m \in DOMAIN timers' : m <= starts /\ timers'[m].seen <= starts
    BY <1>0, <2>2, TimersLess
  <2>4. SessionsInv' /\ unbound' \subseteq unbound /\ misended' \subseteq 1 .. starts
    <3>1. CASE UNCHANGED <<sessions, unbound, misended>>
      BY <1>0, <2>2, <3>1 DEF SessionsInv, RestOK
    <3>2. ASSUME NEW s \in Holders(f), EndIn(s, f),
                 misended' \in {misended, misended \cup {sessions[s].flows[f].start}}
          PROVE  SessionsInv' /\ unbound' \subseteq unbound /\ misended' \subseteq 1 .. starts
      <4>1. SessionsInv' /\ unbound' \subseteq unbound /\ sessions[s].flows[f].start \in 1 .. starts
        BY <1>0, <2>2, <3>2, EndStep
      <4> QED BY <1>0, <3>2, <4>1 DEF RestOK
    <3>3. \/ UNCHANGED <<sessions, unbound, misended>>
          \/ \E s \in Holders(f) : /\ EndIn(s, f)
                                   /\ misended' \in {misended, misended \cup {sessions[s].flows[f].start}}
      BY <1>3, <2>1 DEF TimerEnds, EndMisses
    <3> QED BY <3>1, <3>2, <3>3
  <2>5. RestOK'
    BY <1>0, <2>2, <2>3, <2>4 DEF RestOK
  <2>6. ReportsInTime'
    BY <1>0, <2>2 DEF ReportsInTime
  <2> QED BY <2>4, <2>5, <2>6, TypePartsNext DEF IInv
<1> QED BY <1>1, <1>2, <1>3

LEMMA InvariantStep ==
    ASSUME IInv, [Next]_vars PROVE IInv'
<1>0. RestOK /\ SessionsInv /\ ReportsInTime
  BY TypeParts DEF IInv
<1>1. CASE ControlPlane
  <2>1. SessionsInv' /\ UNCHANGED <<clock, pending, timers, starts, misended>> /\ unbound' \subseteq unbound
    BY <1>0, <1>1, ControlStep
  <2>2. RestOK'
    BY <1>0, <2>1 DEF RestOK
  <2>3. ReportsInTime'
    BY <1>0, <2>1 DEF ReportsInTime
  <2> QED BY <2>1, <2>2, <2>3, TypePartsNext DEF IInv
<1>2. CASE Tick
  <2>1. /\ clock < MaxClock /\ clock' = clock + 1 /\ UNCHANGED <<sessions, pending, timers, starts, unbound, misended>>
        /\ clock <= LastReport \/ \A c \in Callers : pending[c] = None
    BY <1>2 DEF Tick
  <2>2. clock' \in 1 .. MaxClock /\ (clock <= LastReport => clock' <= LastReport + 1)
    BY <1>0, <2>1, Numbers DEF RestOK
  <2>3. RestOK'
    BY <1>0, <2>1, <2>2 DEF RestOK
  <2>4. SessionsInv' /\ ReportsInTime'
    BY <1>0, <2>1, <2>2 DEF SessionsInv, ReportsInTime
  <2> QED BY <2>3, <2>4, TypePartsNext DEF IInv
<1>3. CASE UNCHANGED vars
  <2>1. UNCHANGED <<sessions, clock, pending, timers, starts, unbound, misended>>
    BY <1>3 DEF vars
  <2>2. RestOK' /\ SessionsInv' /\ ReportsInTime'
    BY <1>0, <2>1 DEF RestOK, SessionsInv, ReportsInTime
  <2> QED BY <2>2, TypePartsNext DEF IInv
<1> QED BY <1>1, <1>2, <1>3, ReportStep, ResetStep, TimerSteps DEF Next

-----------------------------------------------------------------------------
(* Timers and refreshes                                                    *)

\* A flow that a timer has found current, and may end, has the timer's stamp
\* or was started after the check.
ChecksHold ==
    \A n \in DOMAIN timers : timers[n].seen # 0 =>
        \A s \in Holders(timers[n].flow) :
            LET flow == sessions[s].flows[timers[n].flow]
            IN  flow.stamp = timers[n].stamp \/ flow.start > timers[n].seen

RefreshInv == misended = {} /\ ChecksHold

\* flow f of session s is there before and after the step, unchanged
Kept(s, f) ==
    /\ s \in DOMAIN sessions /\ f \in DOMAIN sessions[s].flows
    /\ sessions'[s].flows[f] = sessions[s].flows[f]

FlowsKept ==
    \A s \in DOMAIN sessions' : \A f \in DOMAIN sessions'[s].flows :
        Kept(s, f) \/ sessions'[s].flows[f].start > starts

LEMMA PutKeeps ==
    ASSUME NEW s, NEW x, sessions' = With(sessions, {s}, x),
           \A f \in DOMAIN x.flows :
              \/ /\ s \in DOMAIN sessions /\ f \in DOMAIN sessions[s].flows
                 /\ x.flows[f] = sessions[s].flows[f]
              \/ x.flows[f].start > starts
    PROVE  FlowsKept
<1>1. /\ DOMAIN sessions' = DOMAIN sessions \cup {s} /\ sessions'[s] = x
      /\ \A t \in DOMAIN sessions \ {s} : sessions'[t] = sessions[t]
  BY DEF With
<1> QED BY <1>1 DEF FlowsKept, Kept

LEMMA RemovalKeeps ==
    ASSUME NEW s, sessions' = Without(sessions, {s}) PROVE FlowsKept
<1>1. /\ DOMAIN sessions' = DOMAIN sessions \ {s}
      /\ \A t \in DOMAIN sessions \ {s} : sessions'[t] = sessions[t]
  BY DEF Without
<1> QED BY <1>1 DEF FlowsKept, Kept

LEMMA ShrunkKeeps ==
    ASSUME NEW s \in DOMAIN sessions, NEW x, x.flows = sessions[s].flows, sessions' = Shrunk(s, x)
    PROVE  FlowsKept
<1>1. CASE sessions' = Without(sessions, {s})
  BY <1>1, RemovalKeeps
<1>2. CASE sessions' = With(sessions, {s}, x)
  BY <1>2, PutKeeps
<1> QED BY <1>1, <1>2 DEF Shrunk

\* a session that is made anew has no flows
LEMMA EnsuredKeeps ==
    ASSUME SessionsInv, NEW s \in Seids, NEW x, x.flows = Ensured(s).flows,
           sessions' = With(sessions, {s}, x)
    PROVE  FlowsKept
<1>1. CASE s \in DOMAIN sessions
  BY <1>1, PutKeeps DEF Ensured
<1>2. CASE s \notin DOMAIN sessions
  <2>1. x.flows = << >>
    BY <1>2 DEF Ensured, EmptySession
  <2>2. DOMAIN x.flows = {}
    BY <2>1
  <2> QED BY <2>2, PutKeeps
<1> QED BY <1>1, <1>2

LEMMA ControlKeeps ==
    ASSUME SessionsInv, ControlPlane PROVE FlowsKept
<1>1. ASSUME NEW s \in Seids, NEW v, sessions' = With(sessions, {s}, [Ensured(s) EXCEPT !.pdrs = v])
      PROVE  FlowsKept
  <2>1. [Ensured(s) EXCEPT !.pdrs = v].flows = Ensured(s).flows
    BY EnsuredFine, RulesExcept DEF Fine
  <2> QED BY <1>1, <2>1, EnsuredKeeps
<1>2. ASSUME NEW s \in Seids, NEW v, sessions' = With(sessions, {s}, [Ensured(s) EXCEPT !.qers = v])
      PROVE  FlowsKept
  <2>1. [Ensured(s) EXCEPT !.qers = v].flows = Ensured(s).flows
    BY EnsuredFine, RulesExcept DEF Fine
  <2> QED BY <1>2, <2>1, EnsuredKeeps
<1>3. ASSUME NEW s \in DOMAIN sessions, NEW v, sessions' = Shrunk(s, [sessions[s] EXCEPT !.pdrs = v])
      PROVE  FlowsKept
  <2>1. [sessions[s] EXCEPT !.pdrs = v].flows = sessions[s].flows
    BY RulesExcept DEF Fine, SessionsInv
  <2> QED BY <1>3, <2>1, ShrunkKeeps
<1>4. ASSUME NEW s \in DOMAIN sessions, NEW v, sessions' = Shrunk(s, [sessions[s] EXCEPT !.qers = v])
      PROVE  FlowsKept
  <2>1. [sessions[s] EXCEPT !.qers = v].flows = sessions[s].flows
    BY RulesExcept DEF Fine, SessionsInv
  <2> QED BY <1>4, <2>1, ShrunkKeeps
<1>5. ASSUME NEW s \in Seids, NEW p \in PdrIDs, NEW rule \in PDRRules[s], PutPDR(s, p, rule)
      PROVE  FlowsKept
  <2>1. sessions' = With(sessions, {s}, [Ensured(s) EXCEPT !.pdrs = With(Ensured(s).pdrs, {p}, rule)])
    BY <1>5 DEF PutPDR
  <2> QED BY <1>1, <2>1
<1>6. ASSUME NEW s \in Seids, NEW q \in QERs[s], PutQER(s, q) PROVE FlowsKept
  <2>1. sessions' = With(sessions, {s}, [Ensured(s) EXCEPT !.qers = Ensured(s).qers \cup {q}])
    BY <1>6 DEF PutQER
  <2> QED BY <1>2, <2>1
<1>7. ASSUME NEW s \in Seids, NEW p \in PdrIDs, RemovePDR(s, p) PROVE FlowsKept
  <2>1. /\ s \in DOMAIN sessions
        /\ sessions' = Shrunk(s, [sessions[s] EXCEPT !.pdrs = Without(sessions[s].pdrs, {p})])
    BY <1>7 DEF RemovePDR
  <2> QED BY <1>3, <2>1
<1>8. ASSUME NEW s \in Seids, NEW q \in QERs[s], RemoveQER(s, q) PROVE FlowsKept
  <2>1. /\ s \in DOMAIN sessions
        /\ sessions' = Shrunk(s, [sessions[s] EXCEPT !.qers = sessions[s].qers \ {q}])
    BY <1>8 DEF RemoveQER
  <2> QED BY <1>4, <2>1
<1>9. ASSUME NEW s \in Seids, PutOther(s) PROVE FlowsKept
  <2>1. sessions' = With(sessions, {s}, [Ensured(s) EXCEPT !.other = TRUE])
    BY <1>9 DEF PutOther
  <2>2. [Ensured(s) EXCEPT !.other = TRUE].flows = Ensured(s).flows
    BY EnsuredFine, RulesExcept DEF Fine
  <2> QED BY <2>1, <2>2, EnsuredKeeps
<1>10. ASSUME NEW s \in Seids, RemoveOther(s) PROVE FlowsKept
  <2>1. s \in DOMAIN sessions
    BY <1>10 DEF RemoveOther
  <2>2. PICK x : x = [sessions[s] EXCEPT !.other = FALSE]
    OBVIOUS
  <2>3. x.flows = sessions[s].flows
    BY <2>1, <2>2, RulesExcept DEF Fine, SessionsInv
  <2>4. sessions' = Shrunk(s, x) \/ sessions' = With(sessions, {s}, x)
    BY <1>10, <2>2 DEF RemoveOther
  <2> QED BY <2>1, <2>3, <2>4, ShrunkKeeps, PutKeeps
<1> QED BY <1>5, <1>6, <1>7, <1>8, <1>9, <1>10 DEF ControlPlane

LEMMA EndKeeps ==
    ASSUME SessionsInv, NEW f, NEW s \in Holders(f), EndIn(s, f) PROVE FlowsKept
<1>1. s \in DOMAIN sessions /\ f \in DOMAIN sessions[s].flows
  BY DEF Holders
<1>2. PICK x, flows, over : /\ x = sessions[s] /\ flows = Without(x.flows, {f})
                            /\ over = Without(x.over, x.flows[f].applied)
  OBVIOUS
<1>3. sessions' = [sessions EXCEPT ![s] = [x EXCEPT !.flows = flows, !.over = over]]
  BY <1>2 DEF EndIn, Ended
<1>4. PICK y : y = [x EXCEPT !.flows = flows, !.over = over]
  OBVIOUS
<1>5. y.flows = flows
  <2>1. IsSession(x)
    BY <1>1, <1>2 DEF SessionsInv, Fine
  <2>2. y = [pdrs |-> x.pdrs, qers |-> x.qers, other |-> x.other, flows |-> flows, over |-> over]
    BY <1>4, <2>1, FlowsExcept
  <2> QED BY <2>2
<1>6. sessions' = With(sessions, {s}, y)
  BY <1>1, <1>3, <1>4, ExceptIsWith
<1>7. \A g \in DOMAIN y.flows : g \in DOMAIN x.flows /\ y.flows[g] = x.flows[g]
  BY <1>2, <1>5 DEF Without
<1> QED BY <1>1, <1>2, <1>6, <1>7, PutKeeps

\* a refreshed flow is a new one
LEMMA StartKeeps ==
    ASSUME RestOK, SessionsInv, NEW c \in Callers, pending[c] # None,
           NEW s \in resolveAdaptiveSession(pending[c].report), startAdaptiveFlow(c, s)
    PROVE  FlowsKept
<1>1. PICK r \in Reports : r = pending[c].report
  BY DEF RestOK
<1>2. s \in DOMAIN sessions
  BY <1>1 DEF resolveAdaptiveSession
<1>3. PICK x : x = sessions[s]
  OBVIOUS
<1>4. PICK flow, over : /\ flow.start = starts + 1
                        /\ sessions' = [sessions EXCEPT ![s] =
                              [x EXCEPT !.flows = With(x.flows, {r.flow}, flow), !.over = over]]
  BY <1>1, <1>3 DEF startAdaptiveFlow
<1>5. PICK flows, y : flows = With(x.flows, {r.flow}, flow) /\ y = [x EXCEPT !.flows = flows, !.over = over]
  OBVIOUS
<1>6. y.flows = flows
  <2>1. IsSession(x)
    BY <1>2, <1>3 DEF SessionsInv, Fine
  <2>2. y = [pdrs |-> x.pdrs, qers |-> x.qers, other |-> x.other, flows |-> flows, over |-> over]
    BY <1>5, <2>1, FlowsExcept
  <2> QED BY <2>2
<1>7. sessions' = With(sessions, {s}, y)
  BY <1>2, <1>4, <1>5, ExceptIsWith
<1>8. ASSUME NEW g \in DOMAIN y.flows
      PROVE  (g \in DOMAIN x.flows /\ y.flows[g] = x.flows[g]) \/ y.flows[g].start > starts
  <2>1. /\ DOMAIN flows = DOMAIN x.flows \cup {r.flow} /\ flows[r.flow] = flow
        /\ \A h \in DOMAIN flows : h # r.flow => h \in DOMAIN x.flows /\ flows[h] = x.flows[h]
    BY <1>5 DEF With
  <2> QED BY <1>4, <1>6, <2>1, Numbers
<1> QED BY <1>2, <1>3, <1>7, <1>8, PutKeeps

LEMMA StepKeepsFlows ==
    ASSUME IInv, [Next]_vars PROVE FlowsKept
<1>0. RestOK /\ SessionsInv
  BY TypeParts DEF IInv
<1>1. CASE UNCHANGED sessions
  BY <1>1 DEF FlowsKept, Kept
<1>2. ASSUME NEW c \in Callers, applyAdaptiveReport(c), ~UNCHANGED sessions PROVE FlowsKept
  <2>1. \/ \E s \in Holders(pending[c].report.flow) : EndIn(s, pending[c].report.flow)
        \/ \E s \in resolveAdaptiveSession(pending[c].report) : startAdaptiveFlow(c, s)
    BY <1>2 DEF applyAdaptiveReport, EndMisses
  <2>2. pending[c] # None
    BY <1>2 DEF applyAdaptiveReport
  <2> QED BY <1>0, <2>1, <2>2, EndKeeps, StartKeeps
<1>3. CASE resetAdaptiveState
  <2>1. ASSUME NEW s \in DOMAIN sessions' PROVE DOMAIN sessions'[s].flows = {}
    <3>1. s \in DOMAIN sessions /\ sessions'[s] = [sessions[s] EXCEPT !.flows = << >>, !.over = << >>]
      BY <1>3 DEF resetAdaptiveState
    <3>2. IsSession(sessions[s])
      BY <1>0, <3>1 DEF SessionsInv, Fine
    <3>3. sessions'[s] = [pdrs |-> sessions[s].pdrs, qers |-> sessions[s].qers,
                          other |-> sessions[s].other, flows |-> << >>, over |-> << >>]
      BY <3>1, <3>2, FlowsExcept
    <3>4. sessions'[s].flows = << >>
      BY <3>3
    <3> QED BY <3>4
  <2> QED BY <2>1 DEF FlowsKept
<1>4. ASSUME NEW n \in DOMAIN timers, TimerEnds(n), ~UNCHANGED sessions PROVE FlowsKept
  <2>1. \E s \in Holders(timers[n].flow) : EndIn(s, timers[n].flow)
    BY <1>4 DEF TimerEnds, EndMisses
  <2> QED BY <1>0, <2>1, EndKeeps
<1>5. CASE TimerStep
  <2>1. ASSUME NEW n \in DOMAIN timers, TimerChecks(n) PROVE UNCHANGED sessions
    BY <2>1 DEF TimerChecks
  <2> QED BY <1>1, <1>4, <1>5, <2>1 DEF TimerStep
<1>6. ASSUME NEW c \in Callers, Receive(c) PROVE UNCHANGED sessions
  BY <1>6 DEF Receive
<1>7. Tick \/ UNCHANGED vars => UNCHANGED sessions
  BY DEF Tick, vars
<1> QED BY <1>0, <1>1, <1>2, <1>3, <1>5, <1>6, <1>7, ControlKeeps DEF Next

\* A timer that has checked, and stays, keeps what its check found.
LEMMA ChecksKeep ==
    ASSUME IInv, IInv', ChecksHold, FlowsKept,
           \A n \in DOMAIN timers' : timers'[n].seen # 0 =>
              n \in DOMAIN timers /\ timers'[n] = timers[n]
    PROVE  ChecksHold'
<1> SUFFICES ASSUME NEW n \in DOMAIN timers', timers'[n].seen # 0,
                    NEW s \in DOMAIN sessions', timers'[n].flow \in DOMAIN sessions'[s].flows
             PROVE  \/ sessions'[s].flows[timers'[n].flow].stamp = timers'[n].stamp
                    \/ sessions'[s].flows[timers'[n].flow].start > timers'[n].seen
  BY DEF ChecksHold, Holders
<1>1. PICK t : t = timers[n] /\ timers'[n] = t /\ n \in DOMAIN timers
  OBVIOUS
<1>2. RestOK /\ SessionsInv'
  BY TypeParts, TypePartsNext DEF IInv
<1>3. CASE Kept(s, t.flow)
  BY <1>1, <1>3 DEF Kept, ChecksHold, Holders
<1>4. CASE sessions'[s].flows[t.flow].start > starts
  <2>1. t \in Timer /\ t.seen <= starts
    BY <1>1, <1>2 DEF RestOK, IsMap
  <2>2. t.seen \in Nat
    BY <2>1, AdaptiveConstants DEF Timer
  <2>3. sessions'[s].flows[t.flow].start \in 1 .. starts'
    BY <1>1, <1>2 DEF SessionsInv, Fine
  <2>4. starts \in Nat /\ starts' \in Nat
    <3>1. RestOK'
      BY TypePartsNext DEF IInv
    <3>2. starts' \in 0 .. MaxStarts
      BY <3>1 DEF RestOK
    <3> QED BY <1>2, <3>2, Numbers
  <2> QED BY <1>1, <1>4, <2>1, <2>2, <2>3, <2>4
<1> QED BY <1>1, <1>3, <1>4 DEF FlowsKept

\* The timer checks the only holder of its flow, so that what it finds is true
\* of all of them; a flow that is started later has a larger number than the
\* timer has seen.
LEMMA RefreshStep ==
    ASSUME IInv, IInv', IDsUnique, RefreshInv, [Next]_vars PROVE RefreshInv'
<1>0. RestOK /\ SessionsInv /\ FlowsKept
  BY TypeParts, StepKeepsFlows DEF IInv
<1>1. ASSUME UNCHANGED timers PROVE ChecksHold'
  BY <1>0, <1>1, ChecksKeep DEF RefreshInv
<1>2. ASSUME NEW n, timers' = Without(timers, {n}) PROVE ChecksHold'
  <2>1. \A m \in DOMAIN timers' : m \in DOMAIN timers /\ timers'[m] = timers[m]
    BY <1>2 DEF Without
  <2> QED BY <1>0, <2>1, ChecksKeep DEF RefreshInv
<1>3. ASSUME NEW c \in Callers, applyAdaptiveReport(c) PROVE RefreshInv'
  <2>1. UNCHANGED misended
    BY <1>3 DEF applyAdaptiveReport, startAdaptiveFlow
  <2>2. \/ UNCHANGED timers
        \/ \E r, stamp : timers' = scheduleAdaptiveFlowAutoEnd(starts + 1, r, stamp)
    BY <1>3 DEF applyAdaptiveReport, startAdaptiveFlow
  <2>3. \A m \in DOMAIN timers' : timers'[m].seen # 0 => m \in DOMAIN timers /\ timers'[m] = timers[m]
    <3>1. ASSUME NEW t, t.seen = 0, timers' = With(timers, {starts + 1}, t)
          PROVE  \A m \in DOMAIN timers' : timers'[m].seen # 0 => m \in DOMAIN timers /\ timers'[m] = timers[m]
      BY <3>1 DEF With
    <3>2. \/ UNCHANGED timers
          \/ \E t : t.seen = 0 /\ timers' = With(timers, {starts + 1}, t)
      BY <2>2 DEF scheduleAdaptiveFlowAutoEnd
    <3> QED BY <3>1, <3>2
  <2>4. ChecksHold'
    BY <1>0, <2>3, ChecksKeep DEF RefreshInv
  <2> QED BY <2>1, <2>4 DEF RefreshInv
<1>4. ASSUME NEW n \in DOMAIN timers, TimerChecks(n) PROVE RefreshInv'
  <2>1. UNCHANGED <<sessions, misended>>
    BY <1>4 DEF TimerChecks
  <2>2. CASE timers' = Without(timers, {n})
    BY <1>2, <2>1, <2>2 DEF RefreshInv
  <2>3. CASE timers' # Without(timers, {n})
    <3>1. PICK s \in Holders(timers[n].flow) :
             isFlowStillCurrent(timers[n], s) /\ timers' = [timers EXCEPT ![n].seen = starts]
      BY <1>4, <2>3 DEF TimerChecks
    <3>2. timers[n] \in Timer /\ timers[n].flow \in FlowIDs
      BY <1>0 DEF RestOK, IsMap, Timer
    <3>3. PICK t : t = [timers[n] EXCEPT !.seen = starts]
      OBVIOUS
    <3>4. t.flow = timers[n].flow /\ t.stamp = timers[n].stamp
      BY <3>2, <3>3 DEF Timer
    <3>5. timers' = [timers EXCEPT ![n] = t]
      BY <3>1, <3>3
    <3>6. PICK D : D = DOMAIN timers /\ timers \in [D -> Timer]
      BY <1>0 DEF RestOK, IsMap
    <3>7. DOMAIN timers' = D /\ timers'[n] = t /\ \A m \in D : m # n => timers'[m] = timers[m]
      BY <3>5, <3>6
    <3>8. \A x \in Holders(t.flow) : x = s
      BY <3>1, <3>2, <3>4 DEF IDsUnique
    <3>9. \A x \in Holders(t.flow) : sessions[x].flows[t.flow].stamp = t.stamp
      BY <3>1, <3>4, <3>8 DEF isFlowStillCurrent
    <3>10. ASSUME NEW m \in DOMAIN timers', timers'[m].seen # 0,
                  NEW x \in Holders(timers'[m].flow)
           PROVE  \/ sessions[x].flows[timers'[m].flow].stamp = timers'[m].stamp
                  \/ sessions[x].flows[timers'[m].flow].start > timers'[m].seen
      <4>1. CASE m = n
        BY <3>7, <3>9, <3>10, <4>1
      <4>2. CASE m # n
        BY <3>6, <3>7, <3>10, <4>2 DEF RefreshInv, ChecksHold
      <4> QED BY <4>1, <4>2
    <3>11. \A f : Holders(f)' = Holders(f)
      BY <2>1 DEF Holders
    <3>12. ChecksHold'
      BY <2>1, <3>10, <3>11 DEF ChecksHold
    <3> QED BY <2>1, <3>12 DEF RefreshInv
  <2> QED BY <2>2, <2>3
<1>5. ASSUME NEW n \in DOMAIN timers, TimerEnds(n) PROVE RefreshInv'
  <2>1. timers' = Without(timers, {n}) /\ timers[n].seen # 0
    BY <1>5 DEF TimerEnds
  <2>2. UNCHANGED misended
    <3>1. ASSUME NEW s \in Holders(timers[n].flow),
                 sessions[s].flows[timers[n].flow].stamp # timers[n].stamp,
                 sessions[s].flows[timers[n].flow].start <= timers[n].seen
          PROVE  FALSE
      <4>1. sessions[s].flows[timers[n].flow].start > timers[n].seen
        BY <2>1, <3>1 DEF RefreshInv, ChecksHold
      <4>2. sessions[s].flows[timers[n].flow].start \in Int
        BY <1>0, <3>1 DEF SessionsInv, Fine, Holders
      <4>3. timers[n].seen \in Int
        BY <1>0, AdaptiveConstants DEF RestOK, IsMap, Timer
      <4> QED BY <3>1, <4>1, <4>2, <4>3
    <3> QED BY <1>5, <3>1 DEF TimerEnds
  <2> QED BY <1>2, <2>1, <2>2 DEF RefreshInv
<1>6. ControlPlane \/ resetAdaptiveState \/ Tick \/ UNCHANGED vars => UNCHANGED <<timers, misended>>
  <2>1. ControlPlane => UNCHANGED <<timers, misended>>
    BY DEF ControlPlane, PutPDR, PutQER, PutOther, RemovePDR, RemoveQER, RemoveOther
  <2> QED BY <2>1 DEF resetAdaptiveState, Tick, vars
<1>7. ASSUME NEW c \in Callers, Receive(c) PROVE UNCHANGED <<timers, misended>>
  BY <1>7 DEF Receive
<1>8. ASSUME UNCHANGED <<timers, misended>> PROVE RefreshInv'
  BY <1>1, <1>8 DEF RefreshInv
<1> QED BY <1>3, <1>4, <1>5, <1>6, <1>7, <1>8 DEF Next, TimerStep

-----------------------------------------------------------------------------
(* Theorems                                                                *)

LEMMA InvariantHolds == Spec => []IInv
BY InitInvariant, InvariantStep, PTL DEF Spec

\* Types: sessions, flows, overrides and timers keep theirs, every timer names
\* a start that happened, and none expires after the clock stops.
THEOREM TypeCorrect == Spec => []TypeOK
<1>1. IInv => TypeOK
  BY DEF IInv
<1> QED BY <1>1, InvariantHolds, PTL

\* An override is there only as long as a flow that is applied to its QER,
\* however reports, timers, resets and changes of the rules interleave, but
\* for those that a refresh of their flow left behind (applyAdaptiveReport,
\* endAdaptiveFlow).
THEOREM OverridesEndWithFlows == Spec => []OverridesHaveFlows
<1>1. IInv => OverridesHaveFlows
  BY DEF IInv, SessionsInv, Fine, Bound, OverridesHaveFlows
<1> QED BY <1>1, InvariantHolds, PTL

\* For every size, deadline and window, also if the product wraps around, the
\* maximum rates of a predictive burst are within the limit of their direction
\* and its guaranteed rates no more than the maximum ones; nothing is said of
\* maxGfbrUl and maxGfbrDl, which the code compares with no rate
\* (derivePredictiveBurstDecision).
THEOREM BurstsWithinAuthorisation == Spec => []BurstsAuthorised
<1>1. IInv => BurstsAuthorised
  BY DEF IInv, SessionsInv, Fine, Lawful, LawfulRates, BurstsAuthorised
<1> QED BY <1>1, InvariantHolds, PTL

\* While no two sessions use a flow ID at a time, a timer never ends a flow
\* that was refreshed with another timestamp before the timer's check, although
\* check and end are two critical sections (isFlowStillCurrent,
\* scheduleAdaptiveFlowAutoEnd).
THEOREM RefreshStopsTimer == Spec => RefreshOutdatesTimer
<1>1. Init => RefreshInv
  <2>1. ASSUME Init PROVE DOMAIN timers = {} /\ misended = {}
    BY <2>1 DEF Init
  <2> QED BY <2>1 DEF RefreshInv, ChecksHold
<1>2. RefreshInv => misended = {}
  BY DEF RefreshInv
<1> QED BY <1>1, <1>2, InvariantHolds, RefreshStep, PTL DEF Spec, RefreshOutdatesTimer
=============================================================================
