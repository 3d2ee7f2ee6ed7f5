---------------------------- MODULE PfcpSession -----------------------------
(***************************************************************************)
(* The rule tables of a PFCP session (type Sess of internal/pfcp/node.go), *)
(* the session handlers of session.go that fill them, ServeReport of       *)
(* report.go, and the driver behind them.                                  *)
(*                                                                         *)
(* One SEID is followed through any number of sessions: LocalNode hands a  *)
(* freed SEID out again (module PfcpNode).  FARs, QERs and BARs are kept   *)
(* in three tables with the same life cycle and are one table of rules     *)
(* here.                                                                   *)
(*                                                                         *)
(* A handler walks over the IEs of its request kind by kind and calls the  *)
(* driver for each; meanwhile the driver goes on measuring and queues its  *)
(* reports.  So a handler is a sequence of steps: it starts, handles IEs   *)
(* in the order of HandlerOrder, and puts the usage reports it collected   *)
(* into the response; no other handler runs in between.  The driver may    *)
(* refuse an IE, which is logged and otherwise ignored; a call that may    *)
(* return a usage report may also succeed without one.                     *)
(***************************************************************************)
EXTENDS Naturals, Sequences, FiniteSets, SequencesExt

CONSTANTS
    Rules,      \* identifiers of FARs, QERs and BARs
    URRs,       \* URR IDs
    PDRs,       \* PDR IDs
    MaxRef,     \* bound: refPdrNum
    MaxUsars,   \* bound: usage reports in one response
    MaxReports  \* bound: usage reports waiting in srCh

ASSUME SessionConstants ==
    /\ IsFiniteSet(URRs)
    /\ {MaxRef, MaxUsars, MaxReports} \subseteq Nat

VARIABLES
    mode,     \* what main does with the SEID
    at,       \* the kind of IE the handler has come to, an index of HandlerOrder
    todo,     \* what Close has still to remove
    tab,      \* the session's tables
    drv,      \* what the driver has installed under the SEID
    refused,  \* history: what of it the driver once refused to remove
    left,     \* history: what of it an earlier session left behind
    usars,    \* the usage reports the handler has collected
    srCh,     \* usage reports (URR IDs) of this SEID queued for main
    out,      \* the usage reports of the message to the control plane
    final     \* history: URRs of which the removal was reported

vars == <<mode, at, todo, tab, drv, refused, left, usars, srCh, out, final>>

\* no session; a session at rest; the three handlers; and the responses of two
\* of them being put together
Modes == {"none", "idle", "establish", "modify", "close", "modified", "deleted"}

UrrInfo == [removed : BOOLEAN, refPdrNum : 0 .. MaxRef]
Why     == {"query", "removal", "dissociated", "measured"}
\* `last': no PDR related to the URR is left when the driver is asked;
\* `late': the removal of the URR was reported before this report is sent
Report  == [urr : URRs, why : Why, last : BOOLEAN, late : BOOLEAN]

\* the identifiers of a set of rules, URRs and PDRs
Ids     == [rules : SUBSET Rules, urrs : SUBSET URRs, pdrs : SUBSET PDRs]
NoIds   == [rules |-> {}, urrs |-> {}, pdrs |-> {}]
NoTab   == [rules |-> {}, urrs |-> <<>>, pdrs |-> <<>>]

\* the functions from subsets of S to T
Partial(S, T) == UNION {[D -> T] : D \in SUBSET S}

Put(f, k, v) == [x \in DOMAIN f \cup {k} |-> IF x = k THEN v ELSE f[x]]
Drop(f, k)   == [x \in DOMAIN f \ {k} |-> f[x]]

\* the order in which the modification handler takes the kinds of IEs
HandlerOrder == <<"CreateRule", "CreateURR", "CreatePDR", "RemoveRule", "RemoveURR",
                  "RemovePDR", "UpdateURR", "UpdatePDR", "QueryURR">>

TypeOK ==
    /\ mode \in Modes
    /\ at \in 1 .. Len(HandlerOrder)
    /\ todo \in Ids
    /\ tab \in [rules : SUBSET Rules, urrs : Partial(URRs, UrrInfo),
               pdrs : Partial(PDRs, SUBSET URRs)]
    /\ drv \in Ids /\ refused \in Ids /\ left \in Ids
    /\ usars \in Seq(Report) /\ Len(usars) <= MaxUsars
    /\ srCh \in Seq(URRs) /\ Len(srCh) <= MaxReports
    /\ out \in Seq(Report)
    /\ final \in SUBSET URRs

Init ==
    /\ mode = "none" /\ at = 1
    /\ todo = NoIds
    /\ tab = NoTab
    /\ drv = NoIds /\ refused = NoIds /\ left = NoIds
    /\ usars = <<>> /\ srCh = <<>> /\ out = <<>>
    /\ final = {}

-----------------------------------------------------------------------------
(* Steps of a handler                                                      *)

\* the handler is at, or goes on to, IEs of this kind
Step(kind) ==
    \E n \in at .. Len(HandlerOrder) : HandlerOrder[n] = kind /\ at' = n

\* an IE that creates or changes something
Handles(kind) ==
    /\ \/ mode = "modify"
       \/ mode = "establish" /\ kind \in {"CreateRule", "CreateURR", "CreatePDR"}
    /\ Step(kind)
    /\ UNCHANGED <<mode, todo, srCh, out>>

\* an IE that removes k from table t: Close makes one for each table entry
HandlesRemoval(kind, t, k) ==
    /\ \/ mode = "modify" /\ UNCHANGED todo
       \/ /\ mode = "close" /\ k \in todo[t]
          /\ todo' = [todo EXCEPT ![t] = @ \ {k}]
          /\ t = "urrs" => todo.rules = {}
          /\ t = "pdrs" => todo.rules = {} /\ todo.urrs = {}
    /\ Step(kind)
    /\ UNCHANGED <<mode, srCh, out, final>>

\* the driver removes k of table t; the call fails if it has no k
DriverRemoves(t, k) ==
    /\ k \in drv[t]
    /\ drv' = [drv EXCEPT ![t] = @ \ {k}]
    /\ refused' = [refused EXCEPT ![t] = @ \ {k}]
    /\ left' = [left EXCEPT ![t] = @ \ {k}]

DriverRefuses(t, k) ==
    /\ refused' = [refused EXCEPT ![t] = IF k \in drv[t] THEN @ \cup {k} ELSE @]
    /\ UNCHANGED <<drv, left>>

\* the driver may install k of table t, or refuse to
DriverCreates(t, k) ==
    /\ \/ drv' = [drv EXCEPT ![t] = @ \cup {k}]
       \/ UNCHANGED drv
    /\ UNCHANGED <<refused, left>>

\* the driver returns a report for each URR of S
Collect(S, why, pdrs) ==
    /\ Len(usars) + Cardinality(S) <= MaxUsars
    /\ \E order \in SetToSeqs(S) :
          usars' = usars \o [n \in DOMAIN order |->
              [urr |-> order[n], why |-> why, late |-> FALSE,
               last |-> \A p \in DOMAIN pdrs : order[n] \notin pdrs[p]]]

-----------------------------------------------------------------------------
(* The operations of Sess                                                  *)

\* CreateFAR, CreateQER, CreateBAR: entered in the table first
CreateRule(k) ==
    /\ Handles("CreateRule")
    /\ tab' = [tab EXCEPT !.rules = @ \cup {k}]
    /\ DriverCreates("rules", k)
    /\ UNCHANGED <<usars, final>>

\* mutant: taken from the table before the driver has agreed
RemoveRuleEarly(k) ==
    /\ HandlesRemoval("RemoveRule", "rules", k)
    /\ k \in tab.rules
    /\ tab' = [tab EXCEPT !.rules = @ \ {k}]
    /\ DriverRemoves("rules", k) \/ DriverRefuses("rules", k)
    /\ UNCHANGED usars

\* RemoveFAR, RemoveQER, RemoveBAR: kept in the table if the driver fails
RemoveRule(k) ==
    /\ HandlesRemoval("RemoveRule", "rules", k)
    /\ k \in tab.rules
    /\ \/ DriverRemoves("rules", k) /\ tab' = [tab EXCEPT !.rules = @ \ {k}]
       \/ DriverRefuses("rules", k) /\ UNCHANGED tab
    /\ UNCHANGED usars

\* CreateURR: the URRInfo is replaced whatever the driver says
CreateURR(u) ==
    /\ Handles("CreateURR")
    /\ tab' = [tab EXCEPT !.urrs = Put(@, u, [removed |-> FALSE, refPdrNum |-> 0])]
    /\ DriverCreates("urrs", u)
    /\ final' = final \ {u}
    /\ UNCHANGED usars

\* RemoveURR: only marked as removed; the entry goes with its report
RemoveURR(u) ==
    /\ HandlesRemoval("RemoveURR", "urrs", u)
    /\ u \in DOMAIN tab.urrs
    /\ tab' = [tab EXCEPT !.urrs[u].removed = TRUE]
    /\ \/ DriverRemoves("urrs", u) /\ Collect({u}, "removal", tab.pdrs)
       \/ DriverRemoves("urrs", u) /\ UNCHANGED usars
       \/ DriverRefuses("urrs", u) /\ UNCHANGED usars

\* UpdateURR and QueryURR: the driver may return a report
ReadURR(kind, u) ==
    /\ Handles(kind)
    /\ u \in DOMAIN tab.urrs /\ u \in drv.urrs
    /\ Collect({u}, "query", tab.pdrs)
    /\ UNCHANGED <<tab, drv, refused, left, final>>

\* the URRs of S the session knows, with their refPdrNum counted down
\* by diassociateURR
Lowered(S) ==
    [u \in DOMAIN tab.urrs |->
        IF u \in S /\ tab.urrs[u].refPdrNum > 0
        THEN [tab.urrs[u] EXCEPT !.refPdrNum = @ - 1]
        ELSE tab.urrs[u]]

\* diassociateURR for the URRs of S, which asks the driver, one by one, for
\* those whose count drops to zero; each query may fail
Diassociate(S, pdrs) ==
    LET zero == {u \in S \cap DOMAIN tab.urrs : tab.urrs[u].refPdrNum = 1} IN
    /\ tab' = [tab EXCEPT !.urrs = Lowered(S), !.pdrs = pdrs]
    /\ \E reported \in SUBSET (zero \cap drv.urrs) : Collect(reported, "dissociated", pdrs)

\* the URRs of S the session knows, with their refPdrNum counted up
Raised(S) ==
    [u \in DOMAIN tab.urrs |->
        IF u \in S THEN [tab.urrs[u] EXCEPT !.refPdrNum = @ + 1] ELSE tab.urrs[u]]

\* CreatePDR: counts up the URRs it knows of
CreatePDR(p, S) ==
    /\ Handles("CreatePDR")
    /\ \A u \in S \cap DOMAIN tab.urrs : tab.urrs[u].refPdrNum < MaxRef
    /\ tab' = [tab EXCEPT !.urrs = Raised(S), !.pdrs = Put(@, p, S)]
    /\ DriverCreates("pdrs", p)
    /\ UNCHANGED <<usars, final>>

\* UpdatePDR: counts down the URRs that are dropped, does not count up the
\* ones that are new
UpdatePDR(p, S) ==
    /\ Handles("UpdatePDR")
    /\ p \in DOMAIN tab.pdrs /\ p \in drv.pdrs
    /\ Diassociate(tab.pdrs[p] \ S, [tab.pdrs EXCEPT ![p] = S])
    /\ UNCHANGED <<drv, refused, left, final>>

\* RemovePDR
RemovePDR(p) ==
    /\ HandlesRemoval("RemovePDR", "pdrs", p)
    /\ p \in DOMAIN tab.pdrs
    /\ \/ DriverRemoves("pdrs", p) /\ Diassociate(tab.pdrs[p], Drop(tab.pdrs, p))
       \/ DriverRefuses("pdrs", p) /\ UNCHANGED <<tab, usars>>

-----------------------------------------------------------------------------
(* The handlers                                                            *)

\* mutant: the entry of a removed URR is kept after its report
EmitReportKeeps ==
    /\ mode \in {"modified", "deleted"} /\ usars # <<>>
    /\ LET r == Head(usars) IN
       IF r.urr \notin DOMAIN tab.urrs THEN UNCHANGED <<final, out>>
       ELSE /\ out' = Append(out, [r EXCEPT !.late = r.urr \in final])
            /\ final' = IF r.why = "removal" THEN final \cup {r.urr} ELSE final
    /\ usars' = Tail(usars)
    /\ UNCHANGED <<mode, at, todo, tab, drv, refused, left, srCh>>

\* one usage report of a modification or deletion response: skipped when the
\* URR is unknown; the entry of a removed URR is deleted
EmitReport ==
    /\ mode \in {"modified", "deleted"} /\ usars # <<>>
    /\ LET r == Head(usars) IN
       \/ /\ r.urr \notin DOMAIN tab.urrs
          /\ UNCHANGED <<tab, final, out>>
       \/ /\ r.urr \in DOMAIN tab.urrs
          /\ out' = Append(out, [r EXCEPT !.late = r.urr \in final])
          /\ tab' = [tab EXCEPT !.urrs = IF @[r.urr].removed THEN Drop(@, r.urr) ELSE @]
          /\ final' = IF r.why = "removal" THEN final \cup {r.urr} ELSE final
    /\ usars' = Tail(usars)
    /\ UNCHANGED <<mode, at, todo, drv, refused, left, srCh>>

\* handleSessionEstablishmentRequest, the association being known: NewSess
Establishment ==
    /\ mode = "none"
    /\ mode' = "establish" /\ at' = 1
    /\ tab' = NoTab
    /\ final' = {}
    /\ UNCHANGED <<todo, drv, refused, left, usars, srCh, out>>

EstablishmentDone ==
    /\ mode = "establish"
    /\ mode' = "idle" /\ at' = 1
    /\ out' = <<>>
    /\ UNCHANGED <<todo, tab, drv, refused, left, usars, srCh, final>>

\* handleSessionModificationRequest
Modification ==
    /\ mode = "idle"
    /\ mode' = "modify" /\ at' = 1
    /\ UNCHANGED <<todo, tab, drv, refused, left, usars, srCh, out, final>>

\* the IEs are handled
ModificationAnswers ==
    /\ mode = "modify"
    /\ mode' = "modified" /\ at' = 1
    /\ out' = <<>>
    /\ UNCHANGED <<todo, tab, drv, refused, left, usars, srCh, final>>

ModificationDone ==
    /\ mode = "modified" /\ usars = <<>>
    /\ mode' = "idle"
    /\ UNCHANGED <<at, todo, tab, drv, refused, left, usars, srCh, out, final>>

\* mutant: the PDRs are not removed
CloseKeepsPDRs ==
    /\ mode = "idle"
    /\ mode' = "close" /\ at' = 1
    /\ todo' = [rules |-> tab.rules, urrs |-> DOMAIN tab.urrs, pdrs |-> {}]
    /\ UNCHANGED <<tab, drv, refused, left, usars, srCh, out, final>>

\* Sess.Close: removes every FAR, QER, URR, BAR and PDR of the tables
Close ==
    /\ mode = "idle"
    /\ mode' = "close" /\ at' = 1
    /\ todo' = [rules |-> tab.rules, urrs |-> DOMAIN tab.urrs, pdrs |-> DOMAIN tab.pdrs]
    /\ UNCHANGED <<tab, drv, refused, left, usars, srCh, out, final>>

\* handleSessionDeletionRequest has a response to put together
DeletionAnswers ==
    /\ mode = "close" /\ todo = NoIds
    /\ mode' = "deleted" /\ at' = 1
    /\ out' = <<>>
    /\ UNCHANGED <<todo, tab, drv, refused, left, usars, srCh, final>>

\* the session is gone: after that response, or after RemoteNode.Reset or a
\* report response with SEID 0, which drop the usage reports
CloseDone ==
    /\ \/ mode = "deleted" /\ usars = <<>> /\ UNCHANGED out
       \/ mode = "close" /\ todo = NoIds /\ out' = <<>>
    /\ mode' = "none" /\ at' = 1
    /\ tab' = NoTab
    /\ left' = drv
    /\ final' = {}
    /\ usars' = <<>>
    /\ UNCHANGED <<todo, drv, refused, srCh>>

\* mutant: the queue is not bounded
MeasureUnbounded(u) ==
    /\ u \in drv.urrs
    /\ Len(srCh) <= MaxReports
    /\ srCh' = Append(srCh, u)
    /\ UNCHANGED <<mode, at, todo, tab, drv, refused, left, usars, out, final>>

\* the driver measured an installed URR and queues a report for main
\* (PfcpServer.NotifySessReport)
Measure(u) ==
    /\ u \in drv.urrs
    /\ Len(srCh) < MaxReports
    /\ srCh' = Append(srCh, u)
    /\ UNCHANGED <<mode, at, todo, tab, drv, refused, left, usars, out, final>>

\* ServeReport, serveUSAReport: the session and the URR must still be known
ServeReport ==
    /\ mode \in {"none", "idle"}
    /\ srCh # <<>>
    /\ srCh' = Tail(srCh)
    /\ LET u == Head(srCh) IN
       out' = IF mode = "idle" /\ u \in DOMAIN tab.urrs
              THEN <<[urr |-> u, why |-> "measured", last |-> FALSE, late |-> u \in final]>>
              ELSE <<>>
    /\ UNCHANGED <<mode, at, todo, tab, drv, refused, left, usars, final>>

Next ==
    \/ Establishment \/ EstablishmentDone
    \/ Modification \/ ModificationAnswers \/ ModificationDone
    \/ Close \/ DeletionAnswers \/ CloseDone
    \/ EmitReport
    \/ \E k \in Rules : CreateRule(k) \/ RemoveRule(k)
    \/ \E u \in URRs : CreateURR(u) \/ RemoveURR(u)
    \/ \E u \in URRs : ReadURR("UpdateURR", u) \/ ReadURR("QueryURR", u)
    \/ \E p \in PDRs, S \in SUBSET URRs : CreatePDR(p, S) \/ UpdatePDR(p, S)
    \/ \E p \in PDRs : RemovePDR(p)
    \/ \E u \in URRs : Measure(u)
    \/ ServeReport

Spec == Init /\ [][Next]_vars

-----------------------------------------------------------------------------
(* Properties                                                              *)

\* What the driver has installed for a session is in the session's tables,
\* whatever the driver refused on the way: otherwise neither the control plane
\* nor Close could ever remove it.  Excepted are what an earlier session with
\* the SEID left behind, and URRs the driver refused to remove: RemoveURR marks
\* them as removed, and their next report deletes the entry.
InstalledIsTracked ==
    mode # "none" =>
        /\ drv.rules \subseteq tab.rules \cup left.rules
        /\ drv.pdrs \subseteq DOMAIN tab.pdrs \cup left.pdrs
        /\ drv.urrs \subseteq DOMAIN tab.urrs \cup left.urrs \cup refused.urrs

\* A closed session leaves nothing behind in the driver - rules that the next
\* session with this SEID would inherit - but what the driver refused to remove.
CloseLeavesNothing ==
    mode = "none" =>
        /\ drv.rules \subseteq refused.rules
        /\ drv.urrs \subseteq refused.urrs
        /\ drv.pdrs \subseteq refused.pdrs

\* The report sent for the removal of a URR is its last one: measurements that
\* were queued in srCh before, and later IEs of the same request, do not
\* produce another until the URR is created again.
RemovalReportIsLast == \A n \in DOMAIN out : ~out[n].late

\* "indicates usage report being reported for a URR due to dissociated from the
\* last PDR" (diassociateURR): such a report is sent only if no PDR relates to
\* the URR any more.
DissociatedFromLastPDR ==
    \A n \in DOMAIN out : out[n].why = "dissociated" => out[n].last
=============================================================================
