------------------------- MODULE PfcpSession_proofs -------------------------
(***************************************************************************)
(* Proofs about the rule tables of a session, for any rules, URRs and      *)
(* PDRs: types, that what the driver has installed is tracked, that Close  *)
(* leaves nothing behind, and that the report of a removal is the last one *)
(* of its URR.                                                             *)
(*                                                                         *)
(* The first two need each other: what an earlier session left is what the *)
(* driver refused to remove (LeftIsRefused), and while Close works all     *)
(* that is installed is still to be removed or was refused (CloseCovers).  *)
(* An entry deleted with its report is not installed any more              *)
(* (RemovedIsGone).  The last one rests on the order of the handler: no    *)
(* URR is created after a removal in the same request (RemovalsMarked).    *)
(***************************************************************************)
EXTENDS PfcpSession, FiniteSetTheorems, TLAPS

\* the URR is marked as removed
Marked(u) == u \in DOMAIN tab.urrs /\ tab.urrs[u].removed

RemovedIsGone == \A u \in drv.urrs : Marked(u) => u \in refused.urrs

LeftIsRefused ==
    /\ left.rules \subseteq refused.rules
    /\ left.urrs \subseteq refused.urrs
    /\ left.pdrs \subseteq refused.pdrs

\* before a session starts, all that is installed was left behind
FreeCovers ==
    mode = "none" =>
        /\ drv.rules \subseteq left.rules
        /\ drv.urrs \subseteq left.urrs
        /\ drv.pdrs \subseteq left.pdrs

CloseCovers ==
    /\ mode = "close" =>
        /\ drv.rules \subseteq refused.rules \cup todo.rules
        /\ drv.urrs \subseteq refused.urrs \cup todo.urrs
        /\ drv.pdrs \subseteq refused.pdrs \cup todo.pdrs
    /\ mode = "deleted" =>
        /\ drv.rules \subseteq refused.rules
        /\ drv.urrs \subseteq refused.urrs
        /\ drv.pdrs \subseteq refused.pdrs

\* position of RemoveURR in HandlerOrder
AtRemoveURR == 5

RemovalsMarked ==
    /\ mode \in {"none", "idle", "establish"} => usars = <<>>
    /\ \A n \in 1 .. Len(usars) : usars[n].why = "removal" =>
          /\ mode = "modify" => at >= AtRemoveURR
          /\ usars[n].urr \in DOMAIN tab.urrs => tab.urrs[usars[n].urr].removed

FinalIsGone == final \cap DOMAIN tab.urrs = {}

\* the conjuncts about tables and driver, and about usage reports
TablesInv == InstalledIsTracked /\ RemovedIsGone /\ LeftIsRefused /\ FreeCovers /\ CloseCovers

ReportsInv == RemovalsMarked /\ FinalIsGone /\ RemovalReportIsLast

IInv == TypeOK /\ TablesInv /\ ReportsInv

-----------------------------------------------------------------------------
(* Records, tables and sequences                                           *)

\* one field of a record of identifiers is replaced
LEMMA IdsExcept ==
    ASSUME NEW r \in Ids, NEW S
    PROVE  /\ r["rules"] = r.rules /\ r["urrs"] = r.urrs /\ r["pdrs"] = r.pdrs
           /\ [r EXCEPT !["rules"] = S] = [rules |-> S, urrs |-> r.urrs, pdrs |-> r.pdrs]
           /\ [r EXCEPT !["urrs"] = S] = [rules |-> r.rules, urrs |-> S, pdrs |-> r.pdrs]
           /\ [r EXCEPT !["pdrs"] = S] = [rules |-> r.rules, urrs |-> r.urrs, pdrs |-> S]
<1>1. r = [rules |-> r.rules, urrs |-> r.urrs, pdrs |-> r.pdrs]
  BY DEF Ids
<1>2. PICK a, b, c : r = [rules |-> a, urrs |-> b, pdrs |-> c] /\ a = r.rules /\ b = r.urrs /\ c = r.pdrs
  BY <1>1
<1>3. r["rules"] = r.rules /\ r["urrs"] = r.urrs /\ r["pdrs"] = r.pdrs
  BY ONLY <1>2
<1>4. [r EXCEPT !["rules"] = S] = [rules |-> S, urrs |-> r.urrs, pdrs |-> r.pdrs]
  BY ONLY <1>2
<1>5. [r EXCEPT !["urrs"] = S] = [rules |-> r.rules, urrs |-> S, pdrs |-> r.pdrs]
  BY ONLY <1>2
<1>6. [r EXCEPT !["pdrs"] = S] = [rules |-> r.rules, urrs |-> r.urrs, pdrs |-> S]
  BY ONLY <1>2
<1> QED BY <1>3, <1>4, <1>5, <1>6

TabType == [rules : SUBSET Rules, urrs : Partial(URRs, UrrInfo), pdrs : Partial(PDRs, SUBSET URRs)]

LEMMA TabExcept ==
    ASSUME NEW r \in TabType, NEW S, NEW T
    PROVE  /\ [r EXCEPT !.rules = S] = [rules |-> S, urrs |-> r.urrs, pdrs |-> r.pdrs]
           /\ [r EXCEPT !.urrs = S] = [rules |-> r.rules, urrs |-> S, pdrs |-> r.pdrs]
           /\ [r EXCEPT !.urrs = S, !.pdrs = T] = [rules |-> r.rules, urrs |-> S, pdrs |-> T]
<1>1. r = [rules |-> r.rules, urrs |-> r.urrs, pdrs |-> r.pdrs]
  BY DEF TabType
<1>2. PICK a, b, c : r = [rules |-> a, urrs |-> b, pdrs |-> c] /\ a = r.rules /\ b = r.urrs /\ c = r.pdrs
  BY <1>1
<1>3. [r EXCEPT !.rules = S] = [rules |-> S, urrs |-> r.urrs, pdrs |-> r.pdrs]
  BY ONLY <1>2
<1>4. [r EXCEPT !.urrs = S] = [rules |-> r.rules, urrs |-> S, pdrs |-> r.pdrs]
  BY ONLY <1>2
<1>5. [r EXCEPT !.urrs = S, !.pdrs = T] = [[r EXCEPT !.urrs = S] EXCEPT !.pdrs = T]
  OBVIOUS
<1>6. [[r EXCEPT !.urrs = S] EXCEPT !.pdrs = T] = [rules |-> r.rules, urrs |-> S, pdrs |-> T]
  <2>1. PICK q : q = [r EXCEPT !.urrs = S] /\ q = [rules |-> a, urrs |-> S, pdrs |-> c]
    BY <1>2, <1>4
  <2>2. q = [rules |-> a, urrs |-> S, pdrs |-> c]
    BY <2>1
  <2>3. [q EXCEPT !.pdrs = T] = [rules |-> a, urrs |-> S, pdrs |-> T]
    BY ONLY <2>2
  <2> QED BY <1>2, <2>1, <2>3
<1> QED BY <1>3, <1>4, <1>5, <1>6

LEMMA PartialFacts ==
    ASSUME NEW S, NEW T, NEW f
    PROVE  f \in Partial(S, T) <=> DOMAIN f \in SUBSET S /\ f \in [DOMAIN f -> T]
<1>1. ASSUME f \in Partial(S, T) PROVE DOMAIN f \in SUBSET S /\ f \in [DOMAIN f -> T]
  <2>1. PICK D \in SUBSET S : f \in [D -> T]
    BY <1>1 DEF Partial
  <2> QED BY <2>1
<1>2. ASSUME DOMAIN f \in SUBSET S, f \in [DOMAIN f -> T] PROVE f \in Partial(S, T)
  BY <1>2 DEF Partial
<1> QED BY <1>1, <1>2

LEMMA PutDropType ==
    ASSUME NEW S, NEW T, NEW f \in Partial(S, T), NEW k \in S
    PROVE  /\ \A v \in T : Put(f, k, v) \in Partial(S, T)
           /\ Drop(f, k) \in Partial(S, T)
<1>1. DOMAIN f \in SUBSET S /\ f \in [DOMAIN f -> T]
  BY PartialFacts
<1>2. ASSUME NEW v \in T PROVE Put(f, k, v) \in Partial(S, T)
  <2>1. DOMAIN Put(f, k, v) = DOMAIN f \cup {k} /\ Put(f, k, v) \in [DOMAIN f \cup {k} -> T]
    BY <1>1 DEF Put
  <2> QED BY <1>1, <2>1, PartialFacts
<1>3. Drop(f, k) \in Partial(S, T)
  <2>1. DOMAIN Drop(f, k) = DOMAIN f \ {k} /\ Drop(f, k) \in [DOMAIN f \ {k} -> T]
    BY <1>1 DEF Drop
  <2> QED BY <1>1, <2>1, PartialFacts
<1> QED BY <1>2, <1>3

\* HandlerOrder, position by position
LEMMA Order ==
    /\ Len(HandlerOrder) = 9
    /\ HandlerOrder[1] = "CreateRule" /\ HandlerOrder[2] = "CreateURR" /\ HandlerOrder[3] = "CreatePDR"
    /\ HandlerOrder[4] = "RemoveRule" /\ HandlerOrder[5] = "RemoveURR" /\ HandlerOrder[6] = "RemovePDR"
    /\ HandlerOrder[7] = "UpdateURR" /\ HandlerOrder[8] = "UpdatePDR" /\ HandlerOrder[9] = "QueryURR"
BY DEF HandlerOrder

LEMMA StepFacts ==
    ASSUME TypeOK, NEW kind, Step(kind)
    PROVE  /\ at' \in 1 .. Len(HandlerOrder) /\ at' >= at
           /\ kind = "CreateURR" => at < AtRemoveURR
           /\ kind = "RemoveURR" => at' = AtRemoveURR
<1>1. at \in 1 .. 9
  BY Order DEF TypeOK
<1>2. PICK n \in at .. 9 : HandlerOrder[n] = kind /\ at' = n
  BY Order DEF Step
<1>3. n \in 1 .. 9
  BY <1>1, <1>2
<1>4. n \in {1, 2, 3, 4, 5, 6, 7, 8, 9}
  BY <1>3
<1>5. /\ kind = "CreateURR" => n = 2
      /\ kind = "RemoveURR" => n = 5
  BY <1>2, <1>4, Order
<1> QED BY <1>1, <1>2, <1>3, <1>5, Order DEF AtRemoveURR

\* the driver's answer to a query: nothing of it concerns a removal unless
\* that was asked for
LEMMA CollectFacts ==
    ASSUME TypeOK, NEW S \in SUBSET URRs, NEW why \in Why, NEW pdrs, Collect(S, why, pdrs)
    PROVE  /\ usars' \in Seq(Report) /\ Len(usars') <= MaxUsars
           /\ \A n \in 1 .. Len(usars') :
                 \/ n \in 1 .. Len(usars) /\ usars'[n] = usars[n]
                 \/ usars'[n].why = why /\ usars'[n].urr \in S
<1>1. IsFiniteSet(S) /\ Cardinality(S) \in Nat
  BY SessionConstants, FS_Subset, FS_CardinalityType
<1>2. PICK order \in SetToSeqs(S) :
          usars' = usars \o [n \in DOMAIN order |->
              [urr |-> order[n], why |-> why, late |-> FALSE,
               last |-> \A p \in DOMAIN pdrs : order[n] \notin pdrs[p]]]
  BY DEF Collect
<1>3. order \in [1 .. Cardinality(S) -> S]
  BY DEF SetToSeqs
<1> DEFINE r(n) == [urr |-> order[n], why |-> why, late |-> FALSE,
                    last |-> \A p \in DOMAIN pdrs : order[n] \notin pdrs[p]]
           new == [n \in 1 .. Cardinality(S) |-> r(n)]
<1>4. ASSUME NEW n \in 1 .. Cardinality(S) PROVE r(n) \in Report /\ r(n).why = why /\ r(n).urr \in S
  <2>1. order[n] \in S
    BY <1>3
  <2>2. (\A p \in DOMAIN pdrs : order[n] \notin pdrs[p]) \in BOOLEAN
    OBVIOUS
  <2> QED BY <2>1, <2>2 DEF Report
<1> HIDE DEF r
<1>5. new \in Seq(Report) /\ Len(new) = Cardinality(S)
  BY <1>1, <1>4
<1>6. \A n \in 1 .. Cardinality(S) : new[n].why = why /\ new[n].urr \in S
  BY <1>4
<1>7. usars' = usars \o new
  BY <1>2, <1>3 DEF r
<1> HIDE DEF new
<1>8. usars \in Seq(Report) /\ Len(usars) \in Nat /\ MaxUsars \in Nat /\ Len(usars) + Cardinality(S) <= MaxUsars
  BY SessionConstants DEF TypeOK, Collect
<1>9. usars' \in Seq(Report) /\ Len(usars') = Len(usars) + Cardinality(S)
  <2>1. PICK a \in Seq(Report), b \in Seq(Report) : a = usars /\ b = new
    BY <1>5, <1>8
  <2>2. a \o b \in Seq(Report) /\ Len(a \o b) = Len(a) + Len(b)
    OBVIOUS
  <2> QED BY <1>5, <1>7, <2>1, <2>2
<1>10. \A n \in 1 .. Len(usars') : usars'[n] = IF n <= Len(usars) THEN usars[n] ELSE new[n - Len(usars)]
  BY <1>5, <1>7, <1>8
<1>11. ASSUME NEW n \in 1 .. Len(usars')
       PROVE  \/ n \in 1 .. Len(usars) /\ usars'[n] = usars[n]
              \/ usars'[n].why = why /\ usars'[n].urr \in S
  <2>1. CASE n <= Len(usars)
    BY <1>8, <1>9, <1>10, <2>1
  <2>2. CASE ~(n <= Len(usars))
    <3>1. n - Len(usars) \in 1 .. Cardinality(S) /\ usars'[n] = new[n - Len(usars)]
      BY <1>1, <1>8, <1>9, <1>10, <2>2
    <3> QED BY <1>6, <3>1
  <2> QED BY <2>1, <2>2
<1> QED BY <1>8, <1>9, <1>11

LEMMA UrrInfoExcept ==
    ASSUME NEW r \in UrrInfo, NEW n \in 0 .. MaxRef
    PROVE  /\ [r EXCEPT !.refPdrNum = n] \in UrrInfo
           /\ [r EXCEPT !.refPdrNum = n].removed = r.removed
           /\ [r EXCEPT !.removed = TRUE] \in UrrInfo
           /\ [r EXCEPT !.removed = TRUE].removed
BY DEF UrrInfo

\* counting keeps the URRs and their marks
LEMMA Counting ==
    ASSUME TypeOK, NEW S
    PROVE  /\ Lowered(S) \in Partial(URRs, UrrInfo)
           /\ DOMAIN Lowered(S) = DOMAIN tab.urrs /\ DOMAIN Raised(S) = DOMAIN tab.urrs
           /\ \A u \in DOMAIN tab.urrs : Lowered(S)[u].removed = tab.urrs[u].removed
           /\ (\A u \in S \cap DOMAIN tab.urrs : tab.urrs[u].refPdrNum < MaxRef) =>
                 /\ Raised(S) \in Partial(URRs, UrrInfo)
                 /\ \A u \in DOMAIN tab.urrs : Raised(S)[u].removed = tab.urrs[u].removed
<1>1. DOMAIN tab.urrs \in SUBSET URRs /\ tab.urrs \in [DOMAIN tab.urrs -> UrrInfo] /\ MaxRef \in Nat
  BY PartialFacts, SessionConstants DEF TypeOK
<1>2. DOMAIN Lowered(S) = DOMAIN tab.urrs /\ DOMAIN Raised(S) = DOMAIN tab.urrs
  BY DEF Lowered, Raised
<1>3. ASSUME NEW u \in DOMAIN tab.urrs
      PROVE  Lowered(S)[u] \in UrrInfo /\ Lowered(S)[u].removed = tab.urrs[u].removed
  <2>1. PICK r \in UrrInfo : r = tab.urrs[u]
    BY <1>1
  <2>2. CASE u \in S /\ r.refPdrNum > 0
    <3>1. r.refPdrNum \in 0 .. MaxRef
      BY DEF UrrInfo
    <3>2. r.refPdrNum - 1 \in 0 .. MaxRef
      BY <1>1, <2>2, <3>1
    <3>3. PICK m \in 0 .. MaxRef : m = r.refPdrNum - 1
      BY <3>2
    <3>4. Lowered(S)[u] = [r EXCEPT !.refPdrNum = m]
      BY <2>1, <2>2, <3>3 DEF Lowered
    <3>5. [r EXCEPT !.refPdrNum = m] \in UrrInfo /\ [r EXCEPT !.refPdrNum = m].removed = r.removed
      BY UrrInfoExcept
    <3> QED BY <2>1, <3>4, <3>5
  <2>3. CASE ~(u \in S /\ r.refPdrNum > 0)
    BY <2>1, <2>3 DEF Lowered
  <2> QED BY <2>2, <2>3
<1>4. Lowered(S) \in Partial(URRs, UrrInfo)
  <2>1. Lowered(S) \in [DOMAIN tab.urrs -> UrrInfo]
    BY <1>3 DEF Lowered
  <2> QED BY <1>1, <1>2, <2>1, PartialFacts
<1>5. ASSUME \A u \in S \cap DOMAIN tab.urrs : tab.urrs[u].refPdrNum < MaxRef, NEW u \in DOMAIN tab.urrs
      PROVE  Raised(S)[u] \in UrrInfo /\ Raised(S)[u].removed = tab.urrs[u].removed
  <2>1. PICK r \in UrrInfo : r = tab.urrs[u]
    BY <1>1
  <2>2. CASE u \in S
    <3>1. r.refPdrNum \in 0 .. MaxRef
      BY DEF UrrInfo
    <3>2. r.refPdrNum + 1 \in 0 .. MaxRef
      BY <1>1, <1>5, <2>1, <2>2, <3>1
    <3>3. PICK m \in 0 .. MaxRef : m = r.refPdrNum + 1
      BY <3>2
    <3>4. Raised(S)[u] = [r EXCEPT !.refPdrNum = m]
      BY <2>1, <2>2, <3>3 DEF Raised
    <3>5. [r EXCEPT !.refPdrNum = m] \in UrrInfo /\ [r EXCEPT !.refPdrNum = m].removed = r.removed
      BY UrrInfoExcept
    <3> QED BY <2>1, <3>4, <3>5
  <2>3. CASE u \notin S
    BY <2>1, <2>3 DEF Raised
  <2> QED BY <2>2, <2>3
<1>6. ASSUME \A u \in S \cap DOMAIN tab.urrs : tab.urrs[u].refPdrNum < MaxRef
      PROVE  Raised(S) \in Partial(URRs, UrrInfo)
  <2>1. Raised(S) \in [DOMAIN tab.urrs -> UrrInfo]
    BY <1>5, <1>6 DEF Raised
  <2> QED BY <1>1, <1>2, <2>1, PartialFacts
<1> QED BY <1>2, <1>3, <1>4, <1>5, <1>6

-----------------------------------------------------------------------------
(* What the driver's answers do to drv, refused and left                   *)

LEMMA CreatesFacts ==
    ASSUME TypeOK
    PROVE  /\ \A k \in Rules : DriverCreates("rules", k) =>
                 /\ drv' \in Ids /\ drv'.rules \subseteq drv.rules \cup {k}
                 /\ drv'.urrs = drv.urrs /\ drv'.pdrs = drv.pdrs
                 /\ UNCHANGED <<refused, left>>
           /\ \A k \in URRs : DriverCreates("urrs", k) =>
                 /\ drv' \in Ids /\ drv'.urrs \subseteq drv.urrs \cup {k}
                 /\ drv'.rules = drv.rules /\ drv'.pdrs = drv.pdrs
                 /\ UNCHANGED <<refused, left>>
           /\ \A k \in PDRs : DriverCreates("pdrs", k) =>
                 /\ drv' \in Ids /\ drv'.pdrs \subseteq drv.pdrs \cup {k}
                 /\ drv'.urrs = drv.urrs /\ drv'.rules = drv.rules
                 /\ UNCHANGED <<refused, left>>
<1>1. drv \in Ids
  BY DEF TypeOK
<1>2. ASSUME NEW k \in Rules, DriverCreates("rules", k)
      PROVE  /\ drv' \in Ids /\ drv'.rules \subseteq drv.rules \cup {k}
             /\ drv'.urrs = drv.urrs /\ drv'.pdrs = drv.pdrs
  <2>1. drv' = drv \/ drv' = [rules |-> drv.rules \cup {k}, urrs |-> drv.urrs, pdrs |-> drv.pdrs]
    BY <1>1, <1>2, IdsExcept DEF DriverCreates
  <2> QED BY <1>1, <2>1 DEF Ids
<1>3. ASSUME NEW k \in URRs, DriverCreates("urrs", k)
      PROVE  /\ drv' \in Ids /\ drv'.urrs \subseteq drv.urrs \cup {k}
             /\ drv'.rules = drv.rules /\ drv'.pdrs = drv.pdrs
  <2>1. drv' = drv \/ drv' = [rules |-> drv.rules, urrs |-> drv.urrs \cup {k}, pdrs |-> drv.pdrs]
    BY <1>1, <1>3, IdsExcept DEF DriverCreates
  <2> QED BY <1>1, <2>1 DEF Ids
<1>4. ASSUME NEW k \in PDRs, DriverCreates("pdrs", k)
      PROVE  /\ drv' \in Ids /\ drv'.pdrs \subseteq drv.pdrs \cup {k}
             /\ drv'.urrs = drv.urrs /\ drv'.rules = drv.rules
  <2>1. drv' = drv \/ drv' = [rules |-> drv.rules, urrs |-> drv.urrs, pdrs |-> drv.pdrs \cup {k}]
    BY <1>1, <1>4, IdsExcept DEF DriverCreates
  <2> QED BY <1>1, <2>1 DEF Ids
<1> QED BY <1>2, <1>3, <1>4 DEF DriverCreates

LEMMA RemovesFacts ==
    ASSUME TypeOK
    PROVE  /\ \A k \in Rules : DriverRemoves("rules", k) =>
                 /\ drv' = [rules |-> drv.rules \ {k}, urrs |-> drv.urrs, pdrs |-> drv.pdrs]
                 /\ refused' = [rules |-> refused.rules \ {k}, urrs |-> refused.urrs, pdrs |-> refused.pdrs]
                 /\ left' = [rules |-> left.rules \ {k}, urrs |-> left.urrs, pdrs |-> left.pdrs]
           /\ \A k \in URRs : DriverRemoves("urrs", k) =>
                 /\ drv' = [rules |-> drv.rules, urrs |-> drv.urrs \ {k}, pdrs |-> drv.pdrs]
                 /\ refused' = [rules |-> refused.rules, urrs |-> refused.urrs \ {k}, pdrs |-> refused.pdrs]
                 /\ left' = [rules |-> left.rules, urrs |-> left.urrs \ {k}, pdrs |-> left.pdrs]
           /\ \A k \in PDRs : DriverRemoves("pdrs", k) =>
                 /\ drv' = [rules |-> drv.rules, urrs |-> drv.urrs, pdrs |-> drv.pdrs \ {k}]
                 /\ refused' = [rules |-> refused.rules, urrs |-> refused.urrs, pdrs |-> refused.pdrs \ {k}]
                 /\ left' = [rules |-> left.rules, urrs |-> left.urrs, pdrs |-> left.pdrs \ {k}]
<1>1. drv \in Ids /\ refused \in Ids /\ left \in Ids
  BY DEF TypeOK
<1> QED BY <1>1, IdsExcept DEF DriverRemoves

LEMMA RefusesFacts ==
    ASSUME TypeOK
    PROVE  /\ \A k \in Rules : DriverRefuses("rules", k) =>
                 /\ UNCHANGED <<drv, left>> /\ refused' \in Ids
                 /\ refused'.urrs = refused.urrs /\ refused'.pdrs = refused.pdrs
                 /\ refused.rules \subseteq refused'.rules /\ (k \in drv.rules => k \in refused'.rules)
           /\ \A k \in URRs : DriverRefuses("urrs", k) =>
                 /\ UNCHANGED <<drv, left>> /\ refused' \in Ids
                 /\ refused'.rules = refused.rules /\ refused'.pdrs = refused.pdrs
                 /\ refused.urrs \subseteq refused'.urrs /\ (k \in drv.urrs => k \in refused'.urrs)
           /\ \A k \in PDRs : DriverRefuses("pdrs", k) =>
                 /\ UNCHANGED <<drv, left>> /\ refused' \in Ids
                 /\ refused'.rules = refused.rules /\ refused'.urrs = refused.urrs
                 /\ refused.pdrs \subseteq refused'.pdrs /\ (k \in drv.pdrs => k \in refused'.pdrs)
<1>1. drv \in Ids /\ refused \in Ids /\ drv["rules"] = drv.rules /\ drv["urrs"] = drv.urrs /\ drv["pdrs"] = drv.pdrs
      /\ refused["rules"] = refused.rules /\ refused["urrs"] = refused.urrs /\ refused["pdrs"] = refused.pdrs
  BY IdsExcept DEF TypeOK
<1>2. ASSUME NEW k \in Rules, DriverRefuses("rules", k)
      PROVE  /\ UNCHANGED <<drv, left>> /\ refused' \in Ids
             /\ refused'.urrs = refused.urrs /\ refused'.pdrs = refused.pdrs
             /\ refused.rules \subseteq refused'.rules /\ (k \in drv.rules => k \in refused'.rules)
  <2>1. PICK S : S = (IF k \in drv.rules THEN refused.rules \cup {k} ELSE refused.rules)
    OBVIOUS
  <2>2. refused' = [rules |-> S, urrs |-> refused.urrs, pdrs |-> refused.pdrs]
    BY <1>1, <1>2, <2>1, IdsExcept DEF DriverRefuses
  <2> QED BY <1>1, <1>2, <2>1, <2>2 DEF Ids, DriverRefuses
<1>3. ASSUME NEW k \in URRs, DriverRefuses("urrs", k)
      PROVE  /\ UNCHANGED <<drv, left>> /\ refused' \in Ids
             /\ refused'.rules = refused.rules /\ refused'.pdrs = refused.pdrs
             /\ refused.urrs \subseteq refused'.urrs /\ (k \in drv.urrs => k \in refused'.urrs)
  <2>1. PICK S : S = (IF k \in drv.urrs THEN refused.urrs \cup {k} ELSE refused.urrs)
    OBVIOUS
  <2>2. refused' = [rules |-> refused.rules, urrs |-> S, pdrs |-> refused.pdrs]
    BY <1>1, <1>3, <2>1, IdsExcept DEF DriverRefuses
  <2> QED BY <1>1, <1>3, <2>1, <2>2 DEF Ids, DriverRefuses
<1>4. ASSUME NEW k \in PDRs, DriverRefuses("pdrs", k)
      PROVE  /\ UNCHANGED <<drv, left>> /\ refused' \in Ids
             /\ refused'.rules = refused.rules /\ refused'.urrs = refused.urrs
             /\ refused.pdrs \subseteq refused'.pdrs /\ (k \in drv.pdrs => k \in refused'.pdrs)
  <2>1. PICK S : S = (IF k \in drv.pdrs THEN refused.pdrs \cup {k} ELSE refused.pdrs)
    OBVIOUS
  <2>2. refused' = [rules |-> refused.rules, urrs |-> refused.urrs, pdrs |-> S]
    BY <1>1, <1>4, <2>1, IdsExcept DEF DriverRefuses
  <2> QED BY <1>1, <1>4, <2>1, <2>2 DEF Ids, DriverRefuses
<1> QED BY <1>2, <1>3, <1>4

\* Close takes what it removes from its list
LEMMA RemovalFacts ==
    ASSUME TypeOK, NEW kind, NEW t \in {"rules", "urrs", "pdrs"}, NEW k, HandlesRemoval(kind, t, k)
    PROVE  /\ mode \in {"modify", "close"} /\ Step(kind) /\ UNCHANGED <<mode, srCh, out, final>>
           /\ todo' \in Ids
           /\ \A x \in todo.rules : x \in todo'.rules \/ (t = "rules" /\ x = k)
           /\ \A x \in todo.urrs : x \in todo'.urrs \/ (t = "urrs" /\ x = k)
           /\ \A x \in todo.pdrs : x \in todo'.pdrs \/ (t = "pdrs" /\ x = k)
<1>1. todo \in Ids /\ todo["rules"] = todo.rules /\ todo["urrs"] = todo.urrs /\ todo["pdrs"] = todo.pdrs
  BY IdsExcept DEF TypeOK
<1>2. mode \in {"modify", "close"} /\ Step(kind) /\ UNCHANGED <<mode, srCh, out, final>>
  BY DEF HandlesRemoval
<1>3. CASE UNCHANGED todo
  BY <1>1, <1>2, <1>3
<1>4. CASE todo' = [todo EXCEPT ![t] = @ \ {k}]
  <2>1. CASE t = "rules"
    <3>1. todo' = [rules |-> todo.rules \ {k}, urrs |-> todo.urrs, pdrs |-> todo.pdrs]
      BY <1>1, <1>4, <2>1, IdsExcept
    <3> QED BY <1>1, <1>2, <2>1, <3>1 DEF Ids
  <2>2. CASE t = "urrs"
    <3>1. todo' = [rules |-> todo.rules, urrs |-> todo.urrs \ {k}, pdrs |-> todo.pdrs]
      BY <1>1, <1>4, <2>2, IdsExcept
    <3> QED BY <1>1, <1>2, <2>2, <3>1 DEF Ids
  <2>3. CASE t = "pdrs"
    <3>1. todo' = [rules |-> todo.rules, urrs |-> todo.urrs, pdrs |-> todo.pdrs \ {k}]
      BY <1>1, <1>4, <2>3, IdsExcept
    <3> QED BY <1>1, <1>2, <2>3, <3>1 DEF Ids
  <2> QED BY <2>1, <2>2, <2>3
<1> QED BY <1>3, <1>4 DEF HandlesRemoval

-----------------------------------------------------------------------------
(* Steps of a handler, abstractly                                          *)

\* what is installed is entered, too; nothing is taken from the tables, and
\* no mark is set
LEMMA CreateKeepsTables ==
    ASSUME TablesInv, mode \in {"modify", "establish"}, UNCHANGED <<mode, refused, left>>,
           tab.rules \subseteq tab'.rules /\ drv'.rules \subseteq drv.rules \cup tab'.rules,
           DOMAIN tab.urrs \subseteq DOMAIN tab'.urrs /\ drv'.urrs \subseteq drv.urrs \cup DOMAIN tab'.urrs,
           DOMAIN tab.pdrs \subseteq DOMAIN tab'.pdrs /\ drv'.pdrs \subseteq drv.pdrs \cup DOMAIN tab'.pdrs,
           \A u \in drv'.urrs : Marked(u)' => Marked(u) /\ u \in drv.urrs
    PROVE  TablesInv'
<1> USE DEF TablesInv
<1>1. InstalledIsTracked'
  BY DEF InstalledIsTracked
<1>2. RemovedIsGone'
  <2>1. \A u \in drv'.urrs : Marked(u)' => u \in refused.urrs
    BY DEF RemovedIsGone
  <2> QED BY <2>1 DEF RemovedIsGone, Marked
<1>3. LeftIsRefused' /\ FreeCovers' /\ CloseCovers'
  BY DEF LeftIsRefused, FreeCovers, CloseCovers
<1> QED BY <1>1, <1>2, <1>3

\* what is not in the driver any more, or was refused, may leave the list of
\* Close; only the former leaves the tables
LEMMA RemoveKeepsTables ==
    ASSUME TablesInv, mode \in {"modify", "close"}, UNCHANGED mode,
           \A x \in drv'.rules :
              /\ x \in drv.rules /\ (x \in tab.rules => x \in tab'.rules)
              /\ (x \in left.rules => x \in left'.rules) /\ (x \in refused.rules => x \in refused'.rules)
              /\ x \in todo.rules => x \in todo'.rules \/ x \in refused'.rules,
           \A x \in drv'.urrs :
              /\ x \in drv.urrs /\ (x \in DOMAIN tab.urrs => x \in DOMAIN tab'.urrs)
              /\ (x \in left.urrs => x \in left'.urrs) /\ (x \in refused.urrs => x \in refused'.urrs)
              /\ x \in todo.urrs => x \in todo'.urrs \/ x \in refused'.urrs
              /\ Marked(x)' => Marked(x) \/ x \in refused'.urrs,
           \A x \in drv'.pdrs :
              /\ x \in drv.pdrs /\ (x \in DOMAIN tab.pdrs => x \in DOMAIN tab'.pdrs)
              /\ (x \in left.pdrs => x \in left'.pdrs) /\ (x \in refused.pdrs => x \in refused'.pdrs)
              /\ x \in todo.pdrs => x \in todo'.pdrs \/ x \in refused'.pdrs,
           LeftIsRefused'
    PROVE  TablesInv'
<1> USE DEF TablesInv
<1>1. InstalledIsTracked'
  BY DEF InstalledIsTracked
<1>2. RemovedIsGone'
  <2>1. \A u \in drv'.urrs : Marked(u)' => u \in refused'.urrs
    BY DEF RemovedIsGone
  <2> QED BY <2>1 DEF RemovedIsGone, Marked
<1>3. FreeCovers' /\ CloseCovers'
  BY DEF FreeCovers, CloseCovers
<1> QED BY <1>1, <1>2, <1>3

\* no URR is created, no mark is lost, and the new reports of a removal are
\* about marked URRs
LEMMA ReportsKept ==
    ASSUME TypeOK, ReportsInv, UNCHANGED <<mode, out, final>>, mode \in {"establish", "modify", "close"},
           at' \in 1 .. Len(HandlerOrder), at' >= at,
           \A u \in DOMAIN tab'.urrs : u \in DOMAIN tab.urrs /\ (tab.urrs[u].removed => tab'.urrs[u].removed),
           mode = "establish" => usars' = usars,
           \A n \in 1 .. Len(usars') :
              \/ n \in 1 .. Len(usars) /\ usars'[n] = usars[n]
              \/ usars'[n].why = "removal" =>
                    /\ mode = "modify" => at' >= AtRemoveURR
                    /\ usars'[n].urr \in DOMAIN tab'.urrs => tab'.urrs[usars'[n].urr].removed
    PROVE  ReportsInv'
<1> USE DEF ReportsInv
<1>1. at \in 1 .. 9 /\ at' \in 1 .. 9
  BY Order DEF TypeOK
<1>2. ASSUME NEW n \in 1 .. Len(usars'), usars'[n].why = "removal"
      PROVE  /\ mode = "modify" => at' >= AtRemoveURR
             /\ usars'[n].urr \in DOMAIN tab'.urrs => tab'.urrs[usars'[n].urr].removed
  <2>1. CASE n \in 1 .. Len(usars) /\ usars'[n] = usars[n]
    <3>1. /\ mode = "modify" => at >= AtRemoveURR
          /\ usars[n].urr \in DOMAIN tab.urrs => tab.urrs[usars[n].urr].removed
      BY <1>2, <2>1 DEF RemovalsMarked
    <3> QED BY <1>1, <2>1, <3>1 DEF AtRemoveURR
  <2> QED BY <1>2, <2>1
<1>3. RemovalsMarked'
  <2>1. mode' \in {"none", "idle", "establish"} => usars' = <<>>
    BY DEF RemovalsMarked
  <2> QED BY <1>2, <2>1 DEF RemovalsMarked, AtRemoveURR
<1>4. FinalIsGone' /\ RemovalReportIsLast'
  BY DEF FinalIsGone, RemovalReportIsLast
<1> QED BY <1>3, <1>4

\* the same when no report is added
LEMMA ReportsKeptQuietly ==
    ASSUME TypeOK, ReportsInv, UNCHANGED <<mode, out, final, usars>>, mode \in {"establish", "modify", "close"},
           at' \in 1 .. Len(HandlerOrder), at' >= at,
           \A u \in DOMAIN tab'.urrs : u \in DOMAIN tab.urrs /\ (tab.urrs[u].removed => tab'.urrs[u].removed)
    PROVE  ReportsInv'
<1>1. \A n \in 1 .. Len(usars') : n \in 1 .. Len(usars) /\ usars'[n] = usars[n]
  OBVIOUS
<1> QED BY <1>1, ReportsKept

-----------------------------------------------------------------------------
(* The operations of Sess                                                  *)

LEMMA HandlesFacts ==
    ASSUME TypeOK, NEW kind, Handles(kind)
    PROVE  /\ mode \in {"modify", "establish"} /\ UNCHANGED <<mode, todo, srCh, out>>
           /\ kind \in {"UpdateURR", "UpdatePDR", "QueryURR"} => mode = "modify"
           /\ at' \in 1 .. Len(HandlerOrder) /\ at' >= at
           /\ kind = "CreateURR" => at < AtRemoveURR
<1>1. Step(kind)
  BY DEF Handles
<1>2. /\ mode \in {"modify", "establish"} /\ UNCHANGED <<mode, todo, srCh, out>>
      /\ kind \in {"UpdateURR", "UpdatePDR", "QueryURR"} => mode = "modify"
  BY DEF Handles
<1> QED BY <1>1, <1>2, StepFacts

LEMMA TabFacts ==
    ASSUME TypeOK
    PROVE  /\ tab \in TabType /\ tab.rules \in SUBSET Rules
           /\ tab.urrs \in Partial(URRs, UrrInfo) /\ tab.pdrs \in Partial(PDRs, SUBSET URRs)
           /\ DOMAIN tab.urrs \in SUBSET URRs /\ tab.urrs \in [DOMAIN tab.urrs -> UrrInfo]
           /\ DOMAIN tab.pdrs \in SUBSET PDRs /\ tab.pdrs \in [DOMAIN tab.pdrs -> SUBSET URRs]
<1>1. /\ tab \in TabType /\ tab.rules \in SUBSET Rules
      /\ tab.urrs \in Partial(URRs, UrrInfo) /\ tab.pdrs \in Partial(PDRs, SUBSET URRs)
  BY DEF TypeOK, TabType
<1> QED BY <1>1, PartialFacts

LEMMA CreateRuleStep ==
    ASSUME IInv, NEW k \in Rules, CreateRule(k) PROVE IInv'
<1> USE DEF IInv
<1>1. /\ mode \in {"modify", "establish"} /\ UNCHANGED <<mode, todo, srCh, out>>
      /\ at' \in 1 .. Len(HandlerOrder) /\ at' >= at
  BY HandlesFacts DEF CreateRule
<1>2. /\ drv' \in Ids /\ drv'.rules \subseteq drv.rules \cup {k}
      /\ drv'.urrs = drv.urrs /\ drv'.pdrs = drv.pdrs
      /\ UNCHANGED <<refused, left, usars, final>>
  BY CreatesFacts DEF CreateRule
<1>3. tab' = [rules |-> tab.rules \cup {k}, urrs |-> tab.urrs, pdrs |-> tab.pdrs]
  BY TabFacts, TabExcept DEF CreateRule
<1>4. tab'.rules = tab.rules \cup {k} /\ tab'.urrs = tab.urrs /\ tab'.pdrs = tab.pdrs
  BY <1>3
<1>5. TypeOK'
  <2>1. tab' \in [rules : SUBSET Rules, urrs : Partial(URRs, UrrInfo), pdrs : Partial(PDRs, SUBSET URRs)]
    BY <1>3, TabFacts
  <2> QED BY <1>1, <1>2, <2>1 DEF TypeOK
<1>6. TablesInv'
  <2>1. \A u : Marked(u)' <=> Marked(u)
    BY <1>4 DEF Marked
  <2> QED BY <1>1, <1>2, <1>4, <2>1, CreateKeepsTables
<1>7. ReportsInv'
  BY <1>1, <1>2, <1>4, ReportsKeptQuietly
<1> QED BY <1>5, <1>6, <1>7

LEMMA RemoveRuleStep ==
    ASSUME IInv, NEW k \in Rules, RemoveRule(k) PROVE IInv'
<1> USE DEF IInv
<1>1. /\ mode \in {"modify", "close"} /\ Step("RemoveRule") /\ UNCHANGED <<mode, srCh, out, final>>
      /\ todo' \in Ids
      /\ \A x \in todo.rules : x \in todo'.rules \/ x = k
      /\ todo.urrs \subseteq todo'.urrs /\ todo.pdrs \subseteq todo'.pdrs
  BY RemovalFacts DEF RemoveRule
<1>2. at' \in 1 .. Len(HandlerOrder) /\ at' >= at
  BY <1>1, StepFacts
<1>3. UNCHANGED usars
  BY DEF RemoveRule
<1>4. CASE DriverRemoves("rules", k) /\ tab' = [tab EXCEPT !.rules = @ \ {k}]
  <2>1. tab' = [rules |-> tab.rules \ {k}, urrs |-> tab.urrs, pdrs |-> tab.pdrs]
    BY <1>4, TabFacts, TabExcept
  <2>2. tab'.rules = tab.rules \ {k} /\ tab'.urrs = tab.urrs /\ tab'.pdrs = tab.pdrs
    BY <2>1
  <2>3. /\ drv' = [rules |-> drv.rules \ {k}, urrs |-> drv.urrs, pdrs |-> drv.pdrs]
        /\ refused' = [rules |-> refused.rules \ {k}, urrs |-> refused.urrs, pdrs |-> refused.pdrs]
        /\ left' = [rules |-> left.rules \ {k}, urrs |-> left.urrs, pdrs |-> left.pdrs]
    BY <1>4, RemovesFacts
  <2>4. TypeOK'
    <3>1. tab' \in [rules : SUBSET Rules, urrs : Partial(URRs, UrrInfo), pdrs : Partial(PDRs, SUBSET URRs)]
      BY <2>1, TabFacts
    <3>2. drv' \in Ids /\ refused' \in Ids /\ left' \in Ids
      BY <2>3 DEF TypeOK, Ids
    <3> QED BY <1>1, <1>2, <1>3, <3>1, <3>2 DEF TypeOK
  <2>5. TablesInv'
    <3>1. \A u : Marked(u)' <=> Marked(u)
      BY <2>2 DEF Marked
    <3>2. LeftIsRefused'
      BY <2>3 DEF TablesInv, LeftIsRefused
    <3> QED BY <1>1, <2>2, <2>3, <3>1, <3>2, RemoveKeepsTables
  <2>6. ReportsInv'
    BY <1>1, <1>2, <1>3, <2>2, ReportsKeptQuietly
  <2> QED BY <2>4, <2>5, <2>6
<1>5. CASE DriverRefuses("rules", k) /\ UNCHANGED tab
  <2>1. /\ UNCHANGED <<drv, left>> /\ refused' \in Ids
        /\ refused'.urrs = refused.urrs /\ refused'.pdrs = refused.pdrs
        /\ refused.rules \subseteq refused'.rules /\ (k \in drv.rules => k \in refused'.rules)
    BY <1>5, RefusesFacts
  <2>2. TypeOK'
    BY <1>1, <1>2, <1>3, <1>5, <2>1 DEF TypeOK
  <2>3. TablesInv'
    <3>1. \A u : Marked(u)' <=> Marked(u)
      BY <1>5 DEF Marked
    <3>2. LeftIsRefused'
      BY <2>1 DEF TablesInv, LeftIsRefused
    <3> QED BY <1>1, <1>5, <2>1, <3>1, <3>2, RemoveKeepsTables
  <2>4. ReportsInv'
    BY <1>1, <1>2, <1>3, <1>5, ReportsKeptQuietly
  <2> QED BY <2>2, <2>3, <2>4
<1> QED BY <1>4, <1>5 DEF RemoveRule

\* no report of a removal is waiting when a URR is created
LEMMA CreateURRStep ==
    ASSUME IInv, NEW u \in URRs, CreateURR(u) PROVE IInv'
<1> USE DEF IInv
<1>1. /\ mode \in {"modify", "establish"} /\ UNCHANGED <<mode, todo, srCh, out>>
      /\ at' \in 1 .. Len(HandlerOrder) /\ at' >= at /\ at < AtRemoveURR
  BY HandlesFacts DEF CreateURR
<1>2. /\ drv' \in Ids /\ drv'.urrs \subseteq drv.urrs \cup {u}
      /\ drv'.rules = drv.rules /\ drv'.pdrs = drv.pdrs
      /\ UNCHANGED <<refused, left, usars>> /\ final' = final \ {u}
  BY CreatesFacts DEF CreateURR
<1>3. PICK info \in UrrInfo : info = [removed |-> FALSE, refPdrNum |-> 0]
  <2>1. 0 \in 0 .. MaxRef
    BY SessionConstants
  <2>2. [removed |-> FALSE, refPdrNum |-> 0] \in UrrInfo
    BY <2>1 DEF UrrInfo
  <2> QED BY <2>2
<1>4. tab' = [rules |-> tab.rules, urrs |-> Put(tab.urrs, u, info), pdrs |-> tab.pdrs]
  BY <1>3, TabFacts, TabExcept DEF CreateURR
<1>5. tab'.rules = tab.rules /\ tab'.urrs = Put(tab.urrs, u, info) /\ tab'.pdrs = tab.pdrs
  BY <1>4
<1>6. /\ tab'.urrs \in Partial(URRs, UrrInfo) /\ DOMAIN tab'.urrs = DOMAIN tab.urrs \cup {u}
      /\ tab'.urrs[u] = info /\ \A x \in DOMAIN tab.urrs : x # u => tab'.urrs[x] = tab.urrs[x]
  <2>1. tab'.urrs \in Partial(URRs, UrrInfo)
    BY <1>5, TabFacts, PutDropType
  <2>2. PICK f : f = tab.urrs
    OBVIOUS
  <2>3. DOMAIN Put(f, u, info) = DOMAIN f \cup {u}
    BY DEF Put
  <2>4. Put(f, u, info)[u] = info /\ \A x \in DOMAIN f : x # u => Put(f, u, info)[x] = f[x]
    BY DEF Put
  <2> QED BY <1>5, <2>1, <2>2, <2>3, <2>4
<1>7. TypeOK'
  <2>1. tab' \in [rules : SUBSET Rules, urrs : Partial(URRs, UrrInfo), pdrs : Partial(PDRs, SUBSET URRs)]
    BY <1>4, <1>5, <1>6, TabFacts
  <2>2. final' \in SUBSET URRs
    BY <1>2 DEF TypeOK
  <2> QED BY <1>1, <1>2, <2>1, <2>2 DEF TypeOK
<1>8. TablesInv'
  <2>1. ASSUME NEW x \in drv'.urrs, Marked(x)' PROVE Marked(x) /\ x \in drv.urrs
    <3>1. x # u
      BY <1>3, <1>6, <2>1 DEF Marked
    <3> QED BY <1>2, <1>6, <2>1, <3>1 DEF Marked
  <2> QED BY <1>1, <1>2, <1>5, <1>6, <2>1, CreateKeepsTables
<1>9. ReportsInv'
  <2>1. \A n \in 1 .. Len(usars) : usars[n].why # "removal"
    <3>1. CASE mode = "modify"
      <4>1. at \in 1 .. 9
        BY Order DEF TypeOK
      <4> QED BY <1>1, <3>1, <4>1 DEF ReportsInv, RemovalsMarked, AtRemoveURR
    <3>2. CASE mode = "establish"
      BY <3>2 DEF ReportsInv, RemovalsMarked
    <3> QED BY <1>1, <3>1, <3>2
  <2>2. RemovalsMarked'
    BY <1>1, <1>2, <2>1 DEF ReportsInv, RemovalsMarked
  <2>3. FinalIsGone' /\ RemovalReportIsLast'
    BY <1>1, <1>2, <1>6 DEF ReportsInv, FinalIsGone, RemovalReportIsLast
  <2> QED BY <2>2, <2>3 DEF ReportsInv
<1> QED BY <1>7, <1>8, <1>9

\* RemoveURR marks the URR whatever the driver answers
LEMMA RemoveURRStep ==
    ASSUME IInv, NEW u \in URRs, RemoveURR(u) PROVE IInv'
<1> USE DEF IInv
<1>1. /\ mode \in {"modify", "close"} /\ Step("RemoveURR") /\ UNCHANGED <<mode, srCh, out, final>>
      /\ todo' \in Ids
      /\ \A x \in todo.urrs : x \in todo'.urrs \/ x = u
      /\ todo.rules \subseteq todo'.rules /\ todo.pdrs \subseteq todo'.pdrs
  BY RemovalFacts DEF RemoveURR
<1>2. at' \in 1 .. Len(HandlerOrder) /\ at' >= at /\ at' = AtRemoveURR
  BY <1>1, StepFacts
<1>3. PICK info \in UrrInfo : info = [tab.urrs[u] EXCEPT !.removed = TRUE] /\ info.removed
  <2>1. tab.urrs[u] \in UrrInfo /\ 0 \in 0 .. MaxRef
    BY TabFacts, SessionConstants DEF RemoveURR
  <2> QED BY <2>1, UrrInfoExcept
<1>4. tab' = [rules |-> tab.rules, urrs |-> [tab.urrs EXCEPT ![u] = info], pdrs |-> tab.pdrs]
  <2>1. tab' = [tab EXCEPT !.urrs = [tab.urrs EXCEPT ![u] = info]]
    BY <1>3 DEF RemoveURR
  <2> QED BY <2>1, TabFacts, TabExcept
<1>5. tab'.rules = tab.rules /\ tab'.urrs = [tab.urrs EXCEPT ![u] = info] /\ tab'.pdrs = tab.pdrs
  BY <1>4
<1>6. /\ DOMAIN tab'.urrs = DOMAIN tab.urrs /\ tab'.urrs \in [DOMAIN tab.urrs -> UrrInfo]
      /\ u \in DOMAIN tab.urrs /\ tab'.urrs[u] = info
      /\ \A x \in DOMAIN tab.urrs : x # u => tab'.urrs[x] = tab.urrs[x]
  <2>1. PICK D, t : D = DOMAIN tab.urrs /\ t = tab.urrs /\ t \in [D -> UrrInfo] /\ u \in D
    BY TabFacts DEF RemoveURR
  <2>2. info \in UrrInfo /\ tab'.urrs = [t EXCEPT ![u] = info]
    BY <1>3, <1>5, <2>1
  <2>3. /\ DOMAIN tab'.urrs = D /\ tab'.urrs \in [D -> UrrInfo] /\ tab'.urrs[u] = info
        /\ \A x \in D : x # u => tab'.urrs[x] = t[x]
    BY ONLY <2>1, <2>2
  <2> QED BY <2>1, <2>3
<1>7. tab' \in [rules : SUBSET Rules, urrs : Partial(URRs, UrrInfo), pdrs : Partial(PDRs, SUBSET URRs)]
  <2>1. tab'.urrs \in Partial(URRs, UrrInfo)
    BY <1>6, TabFacts, PartialFacts
  <2> QED BY <1>4, <1>5, <2>1, TabFacts
<1>8. \A x \in DOMAIN tab'.urrs : x \in DOMAIN tab.urrs /\ (tab.urrs[x].removed => tab'.urrs[x].removed)
  BY <1>3, <1>6
<1>9. \A x : Marked(x)' => Marked(x) \/ x = u
  BY <1>6 DEF Marked
\* the reports
<1>10. usars' \in Seq(Report) /\ Len(usars') <= MaxUsars /\ ReportsInv'
  <2>1. CASE UNCHANGED usars
    <3>1. ReportsInv'
      BY <1>1, <1>2, <1>8, <2>1, ReportsKeptQuietly
    <3> QED BY <2>1, <3>1 DEF TypeOK
  <2>2. CASE Collect({u}, "removal", tab.pdrs)
    <3>1. {u} \in SUBSET URRs /\ "removal" \in Why
      BY DEF Why
    <3>2. /\ usars' \in Seq(Report) /\ Len(usars') <= MaxUsars
          /\ \A n \in 1 .. Len(usars') :
                 \/ n \in 1 .. Len(usars) /\ usars'[n] = usars[n]
                 \/ usars'[n].why = "removal" /\ usars'[n].urr \in {u}
      BY <2>2, <3>1, CollectFacts
    <3>3. at' >= AtRemoveURR /\ tab'.urrs[u].removed
      BY <1>2, <1>3, <1>6 DEF AtRemoveURR
    <3>4. \A n \in 1 .. Len(usars') :
              \/ n \in 1 .. Len(usars) /\ usars'[n] = usars[n]
              \/ usars'[n].why = "removal" =>
                    /\ mode = "modify" => at' >= AtRemoveURR
                    /\ usars'[n].urr \in DOMAIN tab'.urrs => tab'.urrs[usars'[n].urr].removed
      BY <3>2, <3>3
    <3>5. ReportsInv'
      BY <1>1, <1>2, <1>8, <3>4, ReportsKept
    <3> QED BY <3>2, <3>5
  <2> QED BY <2>1, <2>2 DEF RemoveURR
\* the driver
<1>11. drv' \in Ids /\ refused' \in Ids /\ left' \in Ids /\ TablesInv'
  <2>1. CASE DriverRemoves("urrs", u)
    <3>1. /\ drv' = [rules |-> drv.rules, urrs |-> drv.urrs \ {u}, pdrs |-> drv.pdrs]
          /\ refused' = [rules |-> refused.rules, urrs |-> refused.urrs \ {u}, pdrs |-> refused.pdrs]
          /\ left' = [rules |-> left.rules, urrs |-> left.urrs \ {u}, pdrs |-> left.pdrs]
      BY <2>1, RemovesFacts
    <3>2. drv' \in Ids /\ refused' \in Ids /\ left' \in Ids
      BY <3>1 DEF TypeOK, Ids
    <3>3. LeftIsRefused'
      BY <3>1 DEF TablesInv, LeftIsRefused
    <3>4. TablesInv'
      BY <1>1, <1>5, <1>6, <1>9, <3>1, <3>3, RemoveKeepsTables
    <3> QED BY <3>2, <3>4
  <2>2. CASE DriverRefuses("urrs", u)
    <3>1. /\ UNCHANGED <<drv, left>> /\ refused' \in Ids
          /\ refused'.rules = refused.rules /\ refused'.pdrs = refused.pdrs
          /\ refused.urrs \subseteq refused'.urrs /\ (u \in drv.urrs => u \in refused'.urrs)
      BY <2>2, RefusesFacts
    <3>2. LeftIsRefused'
      BY <3>1 DEF TablesInv, LeftIsRefused
    <3>3. TablesInv'
      BY <1>1, <1>5, <1>6, <1>9, <3>1, <3>2, RemoveKeepsTables
    <3> QED BY <3>1, <3>3 DEF TypeOK
  <2> QED BY <2>1, <2>2 DEF RemoveURR
<1>12. TypeOK'
  BY <1>1, <1>2, <1>7, <1>10, <1>11 DEF TypeOK
<1> QED BY <1>10, <1>11, <1>12

LEMMA ReadURRStep ==
    ASSUME IInv, NEW u \in URRs, NEW kind \in {"UpdateURR", "QueryURR"}, ReadURR(kind, u) PROVE IInv'
<1> USE DEF IInv
<1>1. /\ mode = "modify" /\ UNCHANGED <<mode, todo, srCh, out>>
      /\ at' \in 1 .. Len(HandlerOrder) /\ at' >= at
  BY HandlesFacts DEF ReadURR
<1>2. UNCHANGED <<tab, drv, refused, left, final>> /\ Collect({u}, "query", tab.pdrs)
  BY DEF ReadURR
<1>3. {u} \in SUBSET URRs /\ "query" \in Why
  BY DEF Why
<1>4. /\ usars' \in Seq(Report) /\ Len(usars') <= MaxUsars
      /\ \A n \in 1 .. Len(usars') :
            (n \in 1 .. Len(usars) /\ usars'[n] = usars[n]) \/ usars'[n].why = "query"
  BY <1>2, <1>3, CollectFacts
<1>5. TypeOK'
  BY <1>1, <1>2, <1>4 DEF TypeOK
<1>6. TablesInv'
  <2>1. \A x : Marked(x)' <=> Marked(x)
    BY <1>2 DEF Marked
  <2> QED BY <1>1, <1>2, <2>1, CreateKeepsTables
<1>7. ReportsInv'
  BY <1>1, <1>2, <1>4, ReportsKept
<1> QED BY <1>5, <1>6, <1>7

LEMMA CreatePDRStep ==
    ASSUME IInv, NEW p \in PDRs, NEW S \in SUBSET URRs, CreatePDR(p, S) PROVE IInv'
<1> USE DEF IInv
<1>1. /\ mode \in {"modify", "establish"} /\ UNCHANGED <<mode, todo, srCh, out>>
      /\ at' \in 1 .. Len(HandlerOrder) /\ at' >= at
  BY HandlesFacts DEF CreatePDR
<1>2. /\ drv' \in Ids /\ drv'.pdrs \subseteq drv.pdrs \cup {p}
      /\ drv'.urrs = drv.urrs /\ drv'.rules = drv.rules
      /\ UNCHANGED <<refused, left, usars, final>>
  BY CreatesFacts DEF CreatePDR
<1>3. tab' = [rules |-> tab.rules, urrs |-> Raised(S), pdrs |-> Put(tab.pdrs, p, S)]
  BY TabFacts, TabExcept DEF CreatePDR
<1>4. tab'.rules = tab.rules /\ tab'.urrs = Raised(S) /\ tab'.pdrs = Put(tab.pdrs, p, S)
  BY <1>3
<1>5. /\ Raised(S) \in Partial(URRs, UrrInfo) /\ DOMAIN Raised(S) = DOMAIN tab.urrs
      /\ \A u \in DOMAIN tab.urrs : Raised(S)[u].removed = tab.urrs[u].removed
  <2>1. \A u \in S \cap DOMAIN tab.urrs : tab.urrs[u].refPdrNum < MaxRef
    BY DEF CreatePDR
  <2> QED BY <2>1, Counting
<1>6. Put(tab.pdrs, p, S) \in Partial(PDRs, SUBSET URRs)
  BY TabFacts, PutDropType
<1>7. DOMAIN tab'.pdrs = DOMAIN tab.pdrs \cup {p}
  <2>1. PICK f : f = tab.pdrs
    OBVIOUS
  <2>2. DOMAIN Put(f, p, S) = DOMAIN f \cup {p}
    BY DEF Put
  <2> QED BY <1>4, <2>1, <2>2
<1>8. TypeOK'
  <2>1. tab' \in [rules : SUBSET Rules, urrs : Partial(URRs, UrrInfo), pdrs : Partial(PDRs, SUBSET URRs)]
    BY <1>3, <1>5, <1>6, TabFacts
  <2> QED BY <1>1, <1>2, <2>1 DEF TypeOK
<1>9. TablesInv'
  <2>1. \A u : Marked(u)' <=> Marked(u)
    BY <1>4, <1>5 DEF Marked
  <2> QED BY <1>1, <1>2, <1>4, <1>5, <1>7, <2>1, CreateKeepsTables
<1>10. ReportsInv'
  BY <1>1, <1>2, <1>4, <1>5, ReportsKeptQuietly
<1> QED BY <1>8, <1>9, <1>10

\* counting down keeps the URRs and adds only reports of a dissociation
LEMMA DiassociateFacts ==
    ASSUME TypeOK, NEW S \in SUBSET URRs, NEW pdrs \in Partial(PDRs, SUBSET URRs), Diassociate(S, pdrs)
    PROVE  /\ tab' \in TabType /\ tab'.rules = tab.rules /\ tab'.pdrs = pdrs
           /\ DOMAIN tab'.urrs = DOMAIN tab.urrs
           /\ \A u \in DOMAIN tab.urrs : tab'.urrs[u].removed = tab.urrs[u].removed
           /\ usars' \in Seq(Report) /\ Len(usars') <= MaxUsars
           /\ \A n \in 1 .. Len(usars') :
                 (n \in 1 .. Len(usars) /\ usars'[n] = usars[n]) \/ usars'[n].why = "dissociated"
<1>1. tab' = [rules |-> tab.rules, urrs |-> Lowered(S), pdrs |-> pdrs]
  <2>1. tab' = [tab EXCEPT !.urrs = Lowered(S), !.pdrs = pdrs] /\ tab \in TabType
    BY TabFacts DEF Diassociate
  <2> QED BY ONLY <2>1, TabExcept
<1>2. tab'.rules = tab.rules /\ tab'.urrs = Lowered(S) /\ tab'.pdrs = pdrs
  BY <1>1
<1>3. /\ Lowered(S) \in Partial(URRs, UrrInfo) /\ DOMAIN Lowered(S) = DOMAIN tab.urrs
      /\ \A u \in DOMAIN tab.urrs : Lowered(S)[u].removed = tab.urrs[u].removed
  BY Counting
<1>4. tab' \in TabType
  BY <1>1, <1>3, TabFacts DEF TabType
<1>5. /\ usars' \in Seq(Report) /\ Len(usars') <= MaxUsars
      /\ \A n \in 1 .. Len(usars') :
            (n \in 1 .. Len(usars) /\ usars'[n] = usars[n]) \/ usars'[n].why = "dissociated"
  <2>1. CASE UNCHANGED usars
    BY <2>1 DEF TypeOK
  <2>2. CASE \E Z \in SUBSET URRs : Collect(Z, "dissociated", pdrs)
    <3>1. "dissociated" \in Why
      BY DEF Why
    <3> QED BY <2>2, <3>1, CollectFacts
  <2>3. {u \in S \cap DOMAIN tab.urrs : tab.urrs[u].refPdrNum = 1} \cap drv.urrs \in SUBSET URRs
    OBVIOUS
  <2> QED BY <2>1, <2>2, <2>3 DEF Diassociate
<1> QED BY <1>2, <1>3, <1>4, <1>5

LEMMA UpdatePDRStep ==
    ASSUME IInv, NEW p \in PDRs, NEW S \in SUBSET URRs, UpdatePDR(p, S) PROVE IInv'
<1> USE DEF IInv
<1>1. /\ mode = "modify" /\ UNCHANGED <<mode, todo, srCh, out>>
      /\ at' \in 1 .. Len(HandlerOrder) /\ at' >= at
  BY HandlesFacts DEF UpdatePDR
<1>2. UNCHANGED <<drv, refused, left, final>> /\ p \in DOMAIN tab.pdrs
  BY DEF UpdatePDR
<1>3. PICK pdrs : pdrs = [tab.pdrs EXCEPT ![p] = S]
  OBVIOUS
<1>4. pdrs \in Partial(PDRs, SUBSET URRs) /\ DOMAIN pdrs = DOMAIN tab.pdrs
  <2>1. pdrs \in [DOMAIN tab.pdrs -> SUBSET URRs] /\ DOMAIN pdrs = DOMAIN tab.pdrs
    BY <1>2, <1>3, TabFacts
  <2> QED BY <2>1, TabFacts, PartialFacts
<1>5. tab.pdrs[p] \ S \in SUBSET URRs
  BY <1>2, TabFacts
<1>6. /\ tab' \in TabType /\ tab'.rules = tab.rules /\ tab'.pdrs = pdrs
      /\ DOMAIN tab'.urrs = DOMAIN tab.urrs
      /\ \A u \in DOMAIN tab.urrs : tab'.urrs[u].removed = tab.urrs[u].removed
      /\ usars' \in Seq(Report) /\ Len(usars') <= MaxUsars
      /\ \A n \in 1 .. Len(usars') :
            (n \in 1 .. Len(usars) /\ usars'[n] = usars[n]) \/ usars'[n].why = "dissociated"
  BY <1>3, <1>4, <1>5, DiassociateFacts DEF UpdatePDR
<1>7. TypeOK'
  BY <1>1, <1>2, <1>6 DEF TypeOK, TabType
<1>8. TablesInv'
  <2>1. \A u : Marked(u)' <=> Marked(u)
    BY <1>6 DEF Marked
  <2> QED BY <1>1, <1>2, <1>4, <1>6, <2>1, CreateKeepsTables
<1>9. ReportsInv'
  BY <1>1, <1>2, <1>6, ReportsKept
<1> QED BY <1>7, <1>8, <1>9

LEMMA RemovePDRStep ==
    ASSUME IInv, NEW p \in PDRs, RemovePDR(p) PROVE IInv'
<1> USE DEF IInv
<1>1. /\ mode \in {"modify", "close"} /\ Step("RemovePDR") /\ UNCHANGED <<mode, srCh, out, final>>
      /\ todo' \in Ids
      /\ \A x \in todo.pdrs : x \in todo'.pdrs \/ x = p
      /\ todo.rules \subseteq todo'.rules /\ todo.urrs \subseteq todo'.urrs
  BY RemovalFacts DEF RemovePDR
<1>2. at' \in 1 .. Len(HandlerOrder) /\ at' >= at
  BY <1>1, StepFacts
<1>3. CASE DriverRemoves("pdrs", p) /\ Diassociate(tab.pdrs[p], Drop(tab.pdrs, p))
  <2>1. Drop(tab.pdrs, p) \in Partial(PDRs, SUBSET URRs)
    BY TabFacts, PutDropType
  <2>2. DOMAIN Drop(tab.pdrs, p) = DOMAIN tab.pdrs \ {p}
    BY DEF Drop
  <2>3. tab.pdrs[p] \in SUBSET URRs
    BY TabFacts DEF RemovePDR
  <2>4. /\ tab' \in TabType /\ tab'.rules = tab.rules /\ tab'.pdrs = Drop(tab.pdrs, p)
        /\ DOMAIN tab'.urrs = DOMAIN tab.urrs
        /\ \A u \in DOMAIN tab.urrs : tab'.urrs[u].removed = tab.urrs[u].removed
        /\ usars' \in Seq(Report) /\ Len(usars') <= MaxUsars
        /\ \A n \in 1 .. Len(usars') :
              (n \in 1 .. Len(usars) /\ usars'[n] = usars[n]) \/ usars'[n].why = "dissociated"
    BY <1>3, <2>1, <2>3, DiassociateFacts
  <2>5. /\ drv' = [rules |-> drv.rules, urrs |-> drv.urrs, pdrs |-> drv.pdrs \ {p}]
        /\ refused' = [rules |-> refused.rules, urrs |-> refused.urrs, pdrs |-> refused.pdrs \ {p}]
        /\ left' = [rules |-> left.rules, urrs |-> left.urrs, pdrs |-> left.pdrs \ {p}]
    BY <1>3, RemovesFacts
  <2>6. TypeOK'
    <3>1. drv' \in Ids /\ refused' \in Ids /\ left' \in Ids
      BY <2>5 DEF TypeOK, Ids
    <3> QED BY <1>1, <1>2, <2>4, <3>1 DEF TypeOK, TabType
  <2>7. TablesInv'
    <3>1. \A u : Marked(u)' <=> Marked(u)
      BY <2>4 DEF Marked
    <3>2. LeftIsRefused'
      BY <2>5 DEF TablesInv, LeftIsRefused
    <3>3. DOMAIN tab'.pdrs = DOMAIN tab.pdrs \ {p}
      BY <2>2, <2>4
    <3> QED BY <1>1, <2>4, <2>5, <3>1, <3>2, <3>3, RemoveKeepsTables
  <2>8. ReportsInv'
    BY <1>1, <1>2, <2>4, ReportsKept
  <2> QED BY <2>6, <2>7, <2>8
<1>4. CASE DriverRefuses("pdrs", p) /\ UNCHANGED <<tab, usars>>
  <2>1. /\ UNCHANGED <<drv, left>> /\ refused' \in Ids
        /\ refused'.rules = refused.rules /\ refused'.urrs = refused.urrs
        /\ refused.pdrs \subseteq refused'.pdrs /\ (p \in drv.pdrs => p \in refused'.pdrs)
    BY <1>4, RefusesFacts
  <2>2. TypeOK'
    BY <1>1, <1>2, <1>4, <2>1 DEF TypeOK
  <2>3. TablesInv'
    <3>1. \A u : Marked(u)' <=> Marked(u)
      BY <1>4 DEF Marked
    <3>2. LeftIsRefused'
      BY <2>1 DEF TablesInv, LeftIsRefused
    <3> QED BY <1>1, <1>4, <2>1, <3>1, <3>2, RemoveKeepsTables
  <2>4. ReportsInv'
    BY <1>1, <1>2, <1>4, ReportsKeptQuietly
  <2> QED BY <2>2, <2>3, <2>4
<1> QED BY <1>3, <1>4 DEF RemovePDR

-----------------------------------------------------------------------------
(* The handlers                                                            *)

LEMMA EmptyTab ==
    /\ NoTab.rules = {} /\ DOMAIN NoTab.urrs = {} /\ DOMAIN NoTab.pdrs = {}
    /\ NoTab \in TabType
<1>1. DOMAIN <<>> = {} /\ <<>> \in [{} -> UrrInfo] /\ <<>> \in [{} -> SUBSET URRs]
  OBVIOUS
<1>2. <<>> \in Partial(URRs, UrrInfo) /\ <<>> \in Partial(PDRs, SUBSET URRs)
  <2>1. {} \in SUBSET URRs /\ {} \in SUBSET PDRs
    OBVIOUS
  <2> QED BY <1>1, <2>1 DEF Partial
<1> QED BY <1>1, <1>2 DEF NoTab, TabType

LEMMA InitInvariant == Init => IInv
<1> SUFFICES ASSUME Init PROVE IInv
  OBVIOUS
<1> USE DEF Init
<1>1. NoIds \in Ids /\ NoIds.rules = {} /\ NoIds.urrs = {} /\ NoIds.pdrs = {}
  BY DEF NoIds, Ids
<1>2. NoTab.rules = {} /\ DOMAIN NoTab.urrs = {} /\ DOMAIN NoTab.pdrs = {} /\ NoTab \in TabType
  BY EmptyTab
<1>3. TypeOK
  BY <1>1, <1>2, SessionConstants, Order DEF TypeOK, TabType, Modes
<1>4. TablesInv
  BY <1>1, <1>2 DEF TablesInv, InstalledIsTracked, RemovedIsGone, LeftIsRefused, FreeCovers, CloseCovers
<1>5. ReportsInv
  BY <1>2 DEF ReportsInv, RemovalsMarked, FinalIsGone, RemovalReportIsLast
<1> QED BY <1>3, <1>4, <1>5 DEF IInv

\* a session starts with what an earlier one left in the driver
LEMMA EstablishmentStep ==
    ASSUME IInv, Establishment PROVE IInv'
<1> USE DEF IInv
<1>1. /\ mode = "none" /\ mode' = "establish" /\ at' = 1 /\ tab' = NoTab /\ final' = {}
      /\ UNCHANGED <<todo, drv, refused, left, usars, srCh, out>>
  BY DEF Establishment
<1>2. TypeOK'
  <2>1. tab' \in [rules : SUBSET Rules, urrs : Partial(URRs, UrrInfo), pdrs : Partial(PDRs, SUBSET URRs)]
    BY <1>1, EmptyTab DEF TabType
  <2>2. at' \in 1 .. Len(HandlerOrder) /\ mode' \in Modes /\ final' \in SUBSET URRs
    BY <1>1, Order DEF Modes
  <2> QED BY <1>1, <2>1, <2>2 DEF TypeOK
<1>3. TablesInv'
  BY <1>1, EmptyTab DEF TablesInv, InstalledIsTracked, RemovedIsGone, LeftIsRefused, FreeCovers, CloseCovers, Marked
<1>4. ReportsInv'
  BY <1>1, EmptyTab DEF ReportsInv, RemovalsMarked, FinalIsGone, RemovalReportIsLast
<1> QED BY <1>2, <1>3, <1>4

\* a step that only passes from one handler to the next
LEMMA ModeStep ==
    ASSUME IInv, UNCHANGED <<todo, tab, drv, refused, left, usars, srCh, final>>,
           at' \in {at, 1}, out' \in {out, <<>>}, mode # "none", mode' \in Modes \ {"none", "close"},
           mode' = "modify" => usars = <<>>,
           mode' \in {"idle", "establish"} => usars = <<>>,
           mode' = "deleted" => mode = "close" /\ todo = NoIds
    PROVE  IInv'
<1> USE DEF IInv
<1>1. at' \in 1 .. Len(HandlerOrder)
  BY Order DEF TypeOK
<1>2. TypeOK'
  <2>1. out \in Seq(Report) /\ (out' = out \/ out' = <<>>)
    BY DEF TypeOK
  <2>2. out' \in Seq(Report)
    <3>1. <<>> \in Seq(Report)
      OBVIOUS
    <3> QED BY ONLY <2>1, <3>1, Zenon
  <2> QED BY <1>1, <2>2 DEF TypeOK
<1>3. InstalledIsTracked' /\ RemovedIsGone' /\ LeftIsRefused' /\ FreeCovers'
  BY DEF TablesInv, InstalledIsTracked, RemovedIsGone, LeftIsRefused, FreeCovers, Marked
<1>4. CloseCovers'
  BY DEF TablesInv, CloseCovers, NoIds
<1>5. RemovalsMarked'
  <2>1. CASE mode' = "modify"
    BY <2>1 DEF RemovalsMarked
  <2>2. CASE mode' # "modify"
    BY <2>2 DEF ReportsInv, RemovalsMarked
  <2> QED BY <2>1, <2>2
<1>6. FinalIsGone' /\ RemovalReportIsLast'
  BY DEF ReportsInv, FinalIsGone, RemovalReportIsLast
<1> QED BY <1>2, <1>3, <1>4, <1>5, <1>6 DEF TablesInv, ReportsInv

LEMMA HandlerSteps ==
    ASSUME IInv,
           \/ EstablishmentDone \/ Modification \/ ModificationAnswers \/ ModificationDone
           \/ DeletionAnswers
    PROVE  IInv'
<1>1. mode \in {"none", "idle", "establish"} => usars = <<>>
  BY DEF IInv, ReportsInv, RemovalsMarked
<1>2. CASE EstablishmentDone
  BY <1>1, <1>2, ModeStep DEF EstablishmentDone, Modes
<1>3. CASE Modification
  BY <1>1, <1>3, ModeStep DEF Modification, Modes
<1>4. CASE ModificationAnswers
  BY <1>4, ModeStep DEF ModificationAnswers, Modes
<1>5. CASE ModificationDone
  BY <1>5, ModeStep DEF ModificationDone, Modes
<1>6. CASE DeletionAnswers
  BY <1>6, ModeStep DEF DeletionAnswers, Modes
<1> QED BY <1>2, <1>3, <1>4, <1>5, <1>6

\* Close has everything on its list that was not left or refused
LEMMA CloseStep ==
    ASSUME IInv, Close PROVE IInv'
<1> USE DEF IInv
<1>1. /\ mode = "idle" /\ mode' = "close" /\ at' = 1
      /\ todo' = [rules |-> tab.rules, urrs |-> DOMAIN tab.urrs, pdrs |-> DOMAIN tab.pdrs]
      /\ UNCHANGED <<tab, drv, refused, left, usars, srCh, out, final>>
  BY DEF Close
<1>2. /\ todo' \in Ids
      /\ todo'.rules = tab.rules /\ todo'.urrs = DOMAIN tab.urrs /\ todo'.pdrs = DOMAIN tab.pdrs
  BY <1>1, TabFacts DEF Ids
<1>3. TypeOK'
  BY <1>1, <1>2, Order DEF TypeOK, Modes
<1>4. InstalledIsTracked' /\ RemovedIsGone' /\ LeftIsRefused' /\ FreeCovers'
  BY <1>1 DEF TablesInv, InstalledIsTracked, RemovedIsGone, LeftIsRefused, FreeCovers, Marked
<1>5. CloseCovers'
  BY <1>1, <1>2 DEF TablesInv, InstalledIsTracked, LeftIsRefused, CloseCovers
<1>6. ReportsInv'
  BY <1>1 DEF ReportsInv, RemovalsMarked, FinalIsGone, RemovalReportIsLast
<1> QED BY <1>3, <1>4, <1>5, <1>6 DEF TablesInv

\* with nothing left on the list, all that is installed was refused
LEMMA CloseDoneStep ==
    ASSUME IInv, CloseDone PROVE IInv'
<1> USE DEF IInv
<1>1. /\ mode = "deleted" \/ (mode = "close" /\ todo = NoIds)
      /\ out' \in {out, <<>>} /\ mode' = "none" /\ at' = 1 /\ tab' = NoTab /\ left' = drv
      /\ final' = {} /\ usars' = <<>> /\ UNCHANGED <<todo, drv, refused, srCh>>
  BY DEF CloseDone
<1>2. drv.rules \subseteq refused.rules /\ drv.urrs \subseteq refused.urrs /\ drv.pdrs \subseteq refused.pdrs
  BY <1>1 DEF TablesInv, CloseCovers, NoIds
<1>3. TypeOK'
  <2>1. tab' \in [rules : SUBSET Rules, urrs : Partial(URRs, UrrInfo), pdrs : Partial(PDRs, SUBSET URRs)]
    BY <1>1, EmptyTab DEF TabType
  <2>2. at' \in 1 .. Len(HandlerOrder) /\ mode' \in Modes /\ final' \in SUBSET URRs
    BY <1>1, Order DEF Modes
  <2>3. usars' \in Seq(Report) /\ Len(usars') <= MaxUsars
    BY <1>1, SessionConstants
  <2>4. out' \in Seq(Report)
    <3>1. out \in Seq(Report) /\ (out' = out \/ out' = <<>>)
      BY <1>1 DEF TypeOK
    <3>2. <<>> \in Seq(Report)
      OBVIOUS
    <3> QED BY ONLY <3>1, <3>2, Zenon
  <2> QED BY <1>1, <2>1, <2>2, <2>3, <2>4 DEF TypeOK
<1>4. TablesInv'
  BY <1>1, <1>2, EmptyTab DEF TablesInv, InstalledIsTracked, RemovedIsGone, LeftIsRefused, FreeCovers, CloseCovers, Marked
<1>5. ReportsInv'
  BY <1>1 DEF ReportsInv, RemovalsMarked, FinalIsGone, RemovalReportIsLast
<1> QED BY <1>3, <1>4, <1>5

\* the entry of a marked URR goes with its report: it was removed from the
\* driver, or refused; and no later report finds it
LEMMA EmitReportStep ==
    ASSUME IInv, EmitReport PROVE IInv'
<1> USE DEF IInv
<1>1. /\ mode \in {"modified", "deleted"} /\ usars # <<>> /\ usars' = Tail(usars)
      /\ UNCHANGED <<mode, at, todo, drv, refused, left, srCh>>
  BY DEF EmitReport
<1>2. usars \in Seq(Report) /\ Len(usars) <= MaxUsars /\ MaxUsars \in Nat /\ out \in Seq(Report)
  BY SessionConstants DEF TypeOK
<1>3. /\ usars' \in Seq(Report) /\ Len(usars') = Len(usars) - 1 /\ Len(usars) \in Nat /\ Len(usars) > 0
      /\ Head(usars) \in Report /\ Head(usars) = usars[1]
      /\ \A n \in 1 .. Len(usars) - 1 : usars'[n] = usars[n + 1]
  BY <1>1, <1>2
<1>4. Len(usars') <= MaxUsars
  BY <1>2, <1>3
<1>5. PICK r \in Report : r = Head(usars)
  BY <1>3
<1>6. r.urr \in URRs /\ (r.why = "removal" /\ r.urr \in DOMAIN tab.urrs => tab.urrs[r.urr].removed)
  <2>1. 1 \in 1 .. Len(usars) /\ usars[1] = r
    BY <1>3, <1>5
  <2> QED BY <2>1 DEF Report, ReportsInv, RemovalsMarked
\* the reports that are still to come
<1>7. ASSUME NEW n \in 1 .. Len(usars'), usars'[n].why = "removal", usars'[n].urr \in DOMAIN tab.urrs
      PROVE  tab.urrs[usars'[n].urr].removed
  <2>1. n + 1 \in 1 .. Len(usars) /\ usars'[n] = usars[n + 1]
    BY <1>3
  <2> QED BY <1>7, <2>1 DEF ReportsInv, RemovalsMarked
<1>8. CASE UNCHANGED <<tab, final, out>>
  <2>1. TypeOK'
    BY <1>1, <1>3, <1>4, <1>8 DEF TypeOK
  <2>2. TablesInv'
    BY <1>1, <1>8 DEF TablesInv, InstalledIsTracked, RemovedIsGone, LeftIsRefused, FreeCovers, CloseCovers, Marked
  <2>3. RemovalsMarked'
    BY <1>1, <1>7, <1>8 DEF RemovalsMarked
  <2>4. FinalIsGone' /\ RemovalReportIsLast'
    BY <1>8 DEF ReportsInv, FinalIsGone, RemovalReportIsLast
  <2> QED BY <2>1, <2>2, <2>3, <2>4 DEF ReportsInv
<1>9. CASE /\ r.urr \in DOMAIN tab.urrs
           /\ out' = Append(out, [r EXCEPT !.late = r.urr \in final])
           /\ tab' = [tab EXCEPT !.urrs = IF @[r.urr].removed THEN Drop(@, r.urr) ELSE @]
           /\ final' = IF r.why = "removal" THEN final \cup {r.urr} ELSE final
  <2>1. PICK urrs : urrs = IF tab.urrs[r.urr].removed THEN Drop(tab.urrs, r.urr) ELSE tab.urrs
    OBVIOUS
  <2>2. tab' = [rules |-> tab.rules, urrs |-> urrs, pdrs |-> tab.pdrs]
    <3>1. tab' = [tab EXCEPT !.urrs = urrs]
      BY <1>9, <2>1
    <3> QED BY <3>1, TabFacts, TabExcept
  <2>3. tab'.rules = tab.rules /\ tab'.urrs = urrs /\ tab'.pdrs = tab.pdrs
    BY <2>2
  <2>4. urrs \in Partial(URRs, UrrInfo)
    BY <1>6, <2>1, TabFacts, PutDropType
  <2>5. \A u : u \in DOMAIN urrs <=> u \in DOMAIN tab.urrs /\ ~(u = r.urr /\ tab.urrs[r.urr].removed)
    BY <2>1 DEF Drop
  <2>6. \A u \in DOMAIN urrs : urrs[u] = tab.urrs[u]
    BY <2>1 DEF Drop
  <2>7. PICK e \in Report : e = [r EXCEPT !.late = r.urr \in final] /\ ~e.late
    <3>1. r.urr \notin final
      BY <1>9 DEF ReportsInv, FinalIsGone
    <3>2. [r EXCEPT !.late = FALSE] \in Report /\ ~[r EXCEPT !.late = FALSE].late
      BY DEF Report
    <3>3. [r EXCEPT !.late = r.urr \in final] = [r EXCEPT !.late = FALSE]
      <4>1. (r.urr \in final) = FALSE
        BY <3>1
      <4> QED BY ONLY <4>1, Zenon
    <3> QED BY <3>2, <3>3
  <2>8. /\ out' \in Seq(Report) /\ Len(out) \in Nat /\ Len(out') = Len(out) + 1
        /\ \A n \in 1 .. Len(out) : out'[n] = out[n]
        /\ out'[Len(out) + 1] = e
    BY <1>2, <1>9, <2>7
  <2>9. TypeOK'
    <3>1. tab' \in [rules : SUBSET Rules, urrs : Partial(URRs, UrrInfo), pdrs : Partial(PDRs, SUBSET URRs)]
      BY <2>2, <2>4, TabFacts
    <3>2. final' \in SUBSET URRs
      BY <1>6, <1>9 DEF TypeOK
    <3> QED BY <1>1, <1>3, <1>4, <2>8, <3>1, <3>2 DEF TypeOK
  <2>10. TablesInv'
    <3>1. \A u \in drv.urrs : u \in DOMAIN tab.urrs => u \in DOMAIN urrs \/ u \in refused.urrs
      BY <2>5 DEF TablesInv, RemovedIsGone, Marked
    <3>2. \A u : Marked(u)' => Marked(u)
      BY <2>3, <2>5, <2>6 DEF Marked
    <3>3. InstalledIsTracked'
      BY <1>1, <2>3, <3>1 DEF TablesInv, InstalledIsTracked
    <3>4. RemovedIsGone'
      BY <1>1, <3>2 DEF TablesInv, RemovedIsGone, Marked
    <3>5. LeftIsRefused' /\ FreeCovers' /\ CloseCovers'
      BY <1>1 DEF TablesInv, LeftIsRefused, FreeCovers, CloseCovers
    <3> QED BY <3>3, <3>4, <3>5 DEF TablesInv
  <2>11. RemovalsMarked'
    BY <1>1, <1>7, <2>3, <2>5, <2>6 DEF RemovalsMarked
  <2>12. FinalIsGone'
    BY <1>6, <1>9, <2>3, <2>5 DEF ReportsInv, FinalIsGone
  <2>13. RemovalReportIsLast'
    <3>1. \A n \in 1 .. Len(out) : ~out[n].late
      BY <1>2 DEF ReportsInv, RemovalReportIsLast
    <3>2. \A n \in 1 .. Len(out') : n \in 1 .. Len(out) \/ n = Len(out) + 1
      BY <2>8
    <3>3. DOMAIN out' = 1 .. Len(out')
      BY <2>8
    <3> QED BY <2>7, <2>8, <3>1, <3>2, <3>3 DEF RemovalReportIsLast
  <2> QED BY <2>9, <2>10, <2>11, <2>12, <2>13 DEF ReportsInv
<1> QED BY <1>5, <1>8, <1>9 DEF EmitReport

LEMMA MeasureStep ==
    ASSUME IInv, NEW u \in URRs, Measure(u) PROVE IInv'
<1> USE DEF IInv
<1>1. /\ Len(srCh) < MaxReports /\ srCh' = Append(srCh, u)
      /\ UNCHANGED <<mode, at, todo, tab, drv, refused, left, usars, out, final>>
  BY DEF Measure
<1>2. TypeOK'
  <2>1. srCh \in Seq(URRs) /\ MaxReports \in Nat
    BY SessionConstants DEF TypeOK
  <2>2. srCh' \in Seq(URRs) /\ Len(srCh') <= MaxReports
    BY <1>1, <2>1
  <2> QED BY <1>1, <2>2 DEF TypeOK
<1>3. TablesInv'
  BY <1>1 DEF TablesInv, InstalledIsTracked, RemovedIsGone, LeftIsRefused, FreeCovers, CloseCovers, Marked
<1>4. ReportsInv'
  BY <1>1 DEF ReportsInv, RemovalsMarked, FinalIsGone, RemovalReportIsLast
<1> QED BY <1>2, <1>3, <1>4

\* a measurement is reported only of a URR that is known
LEMMA ServeReportStep ==
    ASSUME IInv, ServeReport PROVE IInv'
<1> USE DEF IInv
<1>1. /\ srCh # <<>> /\ srCh' = Tail(srCh)
      /\ UNCHANGED <<mode, at, todo, tab, drv, refused, left, usars, final>>
  BY DEF ServeReport
<1>2. srCh \in Seq(URRs) /\ Len(srCh) <= MaxReports /\ MaxReports \in Nat
  BY SessionConstants DEF TypeOK
<1>3. Head(srCh) \in URRs /\ srCh' \in Seq(URRs) /\ Len(srCh') <= MaxReports
  BY <1>1, <1>2
<1>4. PICK u \in URRs : u = Head(srCh)
  BY <1>3
<1>5. out' = <<>> \/ (u \notin final /\ out' = <<[urr |-> u, why |-> "measured", last |-> FALSE, late |-> FALSE]>>)
  <2>1. CASE mode = "idle" /\ u \in DOMAIN tab.urrs
    <3>1. u \notin final
      BY <2>1 DEF ReportsInv, FinalIsGone
    <3>2. (u \in final) = FALSE
      BY <3>1
    <3>3. out' = <<[urr |-> u, why |-> "measured", last |-> FALSE, late |-> u \in final]>>
      BY <1>4, <2>1 DEF ServeReport
    <3>4. out' = <<[urr |-> u, why |-> "measured", last |-> FALSE, late |-> FALSE]>>
      BY ONLY <3>2, <3>3, Zenon
    <3> QED BY <3>1, <3>4
  <2>2. CASE ~(mode = "idle" /\ u \in DOMAIN tab.urrs)
    BY <1>4, <2>2 DEF ServeReport
  <2> QED BY <2>1, <2>2
<1>6. out' \in Seq(Report) /\ \A n \in DOMAIN out' : ~out'[n].late
  <2>1. PICK e \in Report : e = [urr |-> u, why |-> "measured", last |-> FALSE, late |-> FALSE] /\ ~e.late
    <3>1. "measured" \in Why
      BY DEF Why
    <3>2. [urr |-> u, why |-> "measured", last |-> FALSE, late |-> FALSE] \in Report
      BY <3>1 DEF Report
    <3> QED BY <3>2
  <2>2. CASE out' = <<>>
    BY <2>2
  <2>3. CASE out' = <<e>>
    BY <2>1, <2>3
  <2> QED BY <1>5, <2>1, <2>2, <2>3
<1>7. TypeOK'
  BY <1>1, <1>3, <1>6 DEF TypeOK
<1>8. TablesInv'
  BY <1>1 DEF TablesInv, InstalledIsTracked, RemovedIsGone, LeftIsRefused, FreeCovers, CloseCovers, Marked
<1>9. ReportsInv'
  BY <1>1, <1>6 DEF ReportsInv, RemovalsMarked, FinalIsGone, RemovalReportIsLast
<1> QED BY <1>7, <1>8, <1>9

-----------------------------------------------------------------------------
(* Theorems                                                                *)

LEMMA InvariantStep == IInv /\ [Next]_vars => IInv'
<1> SUFFICES ASSUME IInv, [Next]_vars PROVE IInv'
  OBVIOUS
<1>1. CASE UNCHANGED vars
  <2>1. UNCHANGED <<mode, at, todo, tab, drv, refused, left, usars, srCh, out, final>>
    BY <1>1 DEF vars
  <2>2. TypeOK'
    BY <2>1 DEF IInv, TypeOK
  <2>3. TablesInv'
    BY <2>1 DEF IInv, TablesInv, InstalledIsTracked, RemovedIsGone, LeftIsRefused, FreeCovers, CloseCovers, Marked
  <2>4. ReportsInv'
    BY <2>1 DEF IInv, ReportsInv, RemovalsMarked, FinalIsGone, RemovalReportIsLast
  <2> QED BY <2>2, <2>3, <2>4 DEF IInv
<1>2. CASE Establishment \/ Close \/ CloseDone \/ EmitReport \/ ServeReport
  BY <1>2, EstablishmentStep, CloseStep, CloseDoneStep, EmitReportStep, ServeReportStep
<1>3. CASE \/ EstablishmentDone \/ Modification \/ ModificationAnswers \/ ModificationDone
           \/ DeletionAnswers
  BY <1>3, HandlerSteps
<1>4. ASSUME NEW k \in Rules, CreateRule(k) \/ RemoveRule(k) PROVE IInv'
  BY <1>4, CreateRuleStep, RemoveRuleStep
<1>5. ASSUME NEW u \in URRs, CreateURR(u) \/ RemoveURR(u) \/ Measure(u) PROVE IInv'
  BY <1>5, CreateURRStep, RemoveURRStep, MeasureStep
<1>6. ASSUME NEW u \in URRs, ReadURR("UpdateURR", u) \/ ReadURR("QueryURR", u) PROVE IInv'
  BY <1>6, ReadURRStep
<1>7. ASSUME NEW p \in PDRs, NEW S \in SUBSET URRs, CreatePDR(p, S) \/ UpdatePDR(p, S) PROVE IInv'
  BY <1>7, CreatePDRStep, UpdatePDRStep
<1>8. ASSUME NEW p \in PDRs, RemovePDR(p) PROVE IInv'
  BY <1>8, RemovePDRStep
<1> QED BY <1>1, <1>2, <1>3, <1>4, <1>5, <1>6, <1>7, <1>8 DEF Next

LEMMA Invariant == Spec => []IInv
BY InitInvariant, InvariantStep, PTL DEF Spec

\* The tables of Sess, the handlers' lists and the queue of reports keep their
\* types; a reference count stays within its bounds although UpdatePDR counts
\* down what it never counted up.
THEOREM TypeCorrect == Spec => []TypeOK
<1>1. IInv => TypeOK
  BY DEF IInv
<1> QED BY <1>1, Invariant, PTL

\* For every order of creations and removals and every refusal of the driver,
\* what the driver has for the SEID is in the tables of Sess, unless an earlier
\* session left it or RemoveURR was refused for it.
THEOREM RulesAreTracked == Spec => []InstalledIsTracked
<1>1. IInv => InstalledIsTracked
  BY DEF IInv, TablesInv
<1> QED BY <1>1, Invariant, PTL

\* After Sess.Close the driver has nothing under the SEID but what it refused
\* to remove.
THEOREM NothingLeft == Spec => []CloseLeavesNothing
<1>1. IInv => CloseLeavesNothing
  BY DEF IInv, TablesInv, FreeCovers, LeftIsRefused, CloseLeavesNothing
<1> QED BY <1>1, Invariant, PTL

\* The response that reports the removal of a URR holds its last report: the
\* entry is deleted with it, so neither a later report of the same response
\* nor one queued in srCh finds the URR.
THEOREM LastReport == Spec => []RemovalReportIsLast
<1>1. IInv => RemovalReportIsLast
  BY DEF IInv, ReportsInv
<1> QED BY <1>1, Invariant, PTL
=============================================================================
