--------------------------- MODULE PfcpNode_proofs ---------------------------
(***************************************************************************)
(* The session and association tables are consistent for any number of     *)
(* nodes, addresses, sessions and RemoteNode objects.                      *)
(*                                                                         *)
(* The free list, the slots and the per-node SEID sets are three views of  *)
(* the same fact, which sessions are live, and no one of the properties    *)
(* is inductive alone: handing out the last free SEID is safe because the  *)
(* free list is exact, and allocating an unreachable RemoteNode is safe    *)
(* because its set is empty.  Their conjunction is inductive.              *)
(***************************************************************************)
EXTENDS PfcpNode, FiniteSetTheorems, SequenceTheorems, TLAPS

IInv == TypeOK /\ FreeListExact /\ OwnedByOneNode /\ RegisteredUnderOwnID

\* handles and node IDs are never the nil pointer
LEMMA NilIsNoHandle ==
    /\ Nil \notin Handles /\ Nil \notin NodeIDs /\ Nil \notin Session
  BY NodeConstants DEF Session

LEMMA InitInvariant == Init => IInv
  <1> SUFFICES ASSUME Init PROVE IInv
    OBVIOUS
  <1>1. TypeOK
    <2>1. crashed \in BOOLEAN
      BY DEF Init
    <2>2. nodes \in [Handles -> Node]
      BY DEF Init, Node, NewRemoteNode
    <2>3. QED  BY <2>1, <2>2 DEF Init, TypeOK
  <1>2. FreeListExact
    BY DEF Init, FreeListExact, Slots
  <1>3. OwnedByOneNode
    BY DEF Init, OwnedByOneNode, LiveSeids, Slots, NewRemoteNode
  <1>4. RegisteredUnderOwnID
    BY DEF Init, RegisteredUnderOwnID
  <1>5. QED  BY <1>1, <1>2, <1>3, <1>4 DEF IInv

-----------------------------------------------------------------------------
(* Facts about the look-ups                                                *)

\* the RemoteNode of a live session is an object
LEMMA LiveOwner ==
    ASSUME TypeOK, NEW k \in LiveSeids
    PROVE  /\ k \in Slots /\ sess[k] \in Session
           /\ sess[k].rnode \in Handles
  BY DEF TypeOK, LiveSeids, Slots, Session

\* a RemoteNode nothing points to owns no session
LEMMA UnreachableOwnsNothing ==
    ASSUME IInv, NEW h \in Handles, ~Reachable(h)
    PROVE  nodes[h].sess = {}
  <1>1. \A k \in nodes[h].sess : k \in LiveSeids /\ sess[k].rnode = h
    BY DEF IInv, OwnedByOneNode
  <1>2. QED  BY <1>1 DEF Reachable

\* LocalNode.NewSess hands out an empty slot or the one after the last
LEMMA NextSeidIsUnused ==
    ASSUME IInv
    PROVE  /\ NextSeid \in Nat /\ NextSeid \notin LiveSeids
           /\ free # <<>> => NextSeid \in Slots /\ sess[NextSeid] = Nil
           /\ free = <<>> => NextSeid = Len(sess) + 1
  <1> USE DEF IInv, TypeOK, Slots
  <1>1. CASE free # <<>>
    <2>1. Len(free) \in 1 .. Len(free)
      BY <1>1
    <2>2. free[Len(free)] \in Slots /\ sess[free[Len(free)]] = Nil
      BY <2>1 DEF FreeListExact
    <2>3. QED  BY <1>1, <2>2 DEF NextSeid, LiveSeids
  <1>2. CASE free = <<>>
    BY <1>2 DEF NextSeid, LiveSeids
  <1>3. QED  BY <1>1, <1>2

-----------------------------------------------------------------------------
(* What the operations of LocalNode do to the slots and the free list      *)

\* sess and free are well-formed and the free list is exact
SlotsOK ==
    /\ sess \in Seq(Session \cup {Nil})
    /\ free \in Seq(Nat)
    /\ FreeListExact

\* FreeListExact, spelled out
LEMMA FreeListFacts ==
    ASSUME IInv
    PROVE  /\ sess \in Seq(Session \cup {Nil}) /\ Len(sess) \in Nat
           /\ free \in Seq(Nat) /\ Len(free) \in Nat
           /\ \A i \in 1 .. Len(free) : free[i] \in 1 .. Len(sess) /\ sess[free[i]] = Nil
           /\ \A i, j \in 1 .. Len(free) : free[i] = free[j] => i = j
           /\ \A k \in 1 .. Len(sess) : sess[k] = Nil => \E i \in 1 .. Len(free) : free[i] = k
  BY DEF IInv, TypeOK, FreeListExact, Slots

LEMMA NewSessEffect ==
    ASSUME IInv, NEW s \in Session, NewSess(s)
    PROVE  /\ SlotsOK'
           /\ LiveSeids' = LiveSeids \cup {NextSeid}
           /\ sess'[NextSeid] = s
           /\ \A k \in LiveSeids : sess'[k] = sess[k]
  <1>0. s # Nil
    BY NilIsNoHandle
  <1>1. CASE free # <<>>
    <2> DEFINE n == free[Len(free)]
               m == Len(free)
    <2>1. m \in Nat /\ m \in 1 .. m /\ m - 1 \in Nat
      BY <1>1, FreeListFacts
    <2>2. n = NextSeid /\ n \in 1 .. Len(sess) /\ sess[n] = Nil
      BY <1>1, <2>1, FreeListFacts DEF NextSeid
    <2>3. sess' = [sess EXCEPT ![n] = s] /\ free' = SubSeq(free, 1, m - 1)
      BY <1>1 DEF NewSess
    <2>4. \A i \in 1 .. m : free[i] = n => i = m
      BY <2>1, FreeListFacts
    <2>5. \A i \in 1 .. (m - 1) : free[i] \in Nat
      BY <2>1, FreeListFacts
    <2> HIDE DEF n
    <2>6. /\ sess' \in Seq(Session \cup {Nil}) /\ Len(sess') = Len(sess)
          /\ sess'[n] = s
          /\ \A k \in 1 .. Len(sess) : k # n => sess'[k] = sess[k]
      BY <2>2, <2>3, FreeListFacts
    <2>7. /\ free' \in Seq(Nat) /\ Len(free') = m - 1
          /\ \A i \in 1 .. (m - 1) : free'[i] = free[i]
      <3> HIDE DEF m
      <3>1. /\ SubSeq(free, 1, m - 1) \in Seq(Nat)
            /\ Len(SubSeq(free, 1, m - 1)) = IF 1 <= m - 1 THEN (m - 1) - 1 + 1 ELSE 0
            /\ \A i \in 1 .. (m - 1) - 1 + 1 : SubSeq(free, 1, m - 1)[i] = free[1 + i - 1]
        <4>1. 1 \in Int /\ m - 1 \in Int
          BY <2>1
        <4>2. QED  BY <2>5, <4>1, SubSeqProperties, Z3
      <3>2. (IF 1 <= m - 1 THEN (m - 1) - 1 + 1 ELSE 0) = m - 1
        BY <2>1
      <3>3. ASSUME NEW i \in 1 .. (m - 1)
            PROVE  i \in 1 .. (m - 1) - 1 + 1 /\ 1 + i - 1 = i
        BY <2>1
      <3>4. QED  BY <2>3, <3>1, <3>2, <3>3
    <2>8. FreeListExact'
      <3> HIDE DEF m
      <3>1. ASSUME NEW i \in 1 .. (m - 1)
            PROVE  free'[i] \in 1 .. Len(sess) /\ sess'[free'[i]] = Nil
        <4>1. i \in 1 .. m /\ i # m
          BY <2>1
        <4>2. free[i] # n
          BY <2>4, <4>1
        <4>3. free[i] \in 1 .. Len(sess) /\ sess[free[i]] = Nil
          BY <4>1, FreeListFacts DEF m
        <4>4. free'[i] = free[i]
          BY <2>7
        <4>5. QED  BY <2>6, <4>2, <4>3, <4>4
      <3>2. ASSUME NEW i \in 1 .. (m - 1), NEW j \in 1 .. (m - 1), free'[i] = free'[j]
            PROVE  i = j
        <4>1. i \in 1 .. m /\ j \in 1 .. m
          BY <2>1
        <4>2. QED  BY <2>7, <3>2, <4>1, FreeListFacts DEF m
      <3>3. ASSUME NEW k \in 1 .. Len(sess), sess'[k] = Nil
            PROVE  \E i \in 1 .. (m - 1) : free'[i] = k
        <4>1. k # n /\ sess[k] = Nil
          BY <2>6, <3>3, <1>0
        <4>2. PICK i \in 1 .. m : free[i] = k
          BY <4>1, FreeListFacts DEF m
        <4>3. i # m
          BY <4>1, <4>2 DEF n, m
        <4>4. i \in 1 .. (m - 1)
          BY <2>1, <4>3
        <4>5. QED  BY <2>7, <4>2, <4>4
      <3>4. QED  BY <2>6, <2>7, <3>1, <3>2, <3>3 DEF FreeListExact, Slots
    <2>9. LiveSeids' = LiveSeids \cup {n}
      BY <1>0, <2>2, <2>6 DEF LiveSeids, Slots
    <2>10. \A k \in LiveSeids : sess'[k] = sess[k]
      BY <2>2, <2>6 DEF LiveSeids, Slots
    <2>11. QED  BY <2>2, <2>6, <2>7, <2>8, <2>9, <2>10 DEF SlotsOK
  <1>2. CASE free = <<>>
    <2>1. sess' = Append(sess, s) /\ free' = free /\ NextSeid = Len(sess) + 1
      BY <1>2 DEF NewSess, NextSeid
    <2>2. /\ sess' \in Seq(Session \cup {Nil}) /\ Len(sess') = Len(sess) + 1
          /\ sess'[Len(sess) + 1] = s
          /\ \A k \in 1 .. Len(sess) : sess'[k] = sess[k]
      BY <2>1, FreeListFacts
    <2>3. \A k \in 1 .. Len(sess) : sess[k] # Nil
      BY <1>2, FreeListFacts
    <2>4. FreeListExact'
      BY <1>0, <1>2, <2>1, <2>2, <2>3, FreeListFacts DEF FreeListExact, Slots
    <2>5. LiveSeids' = LiveSeids \cup {NextSeid}
      BY <1>0, <2>1, <2>2, FreeListFacts DEF LiveSeids, Slots
    <2>6. \A k \in LiveSeids : sess'[k] = sess[k]
      BY <2>2 DEF LiveSeids, Slots
    <2>7. QED  BY <2>1, <2>2, <2>4, <2>5, <2>6, FreeListFacts DEF SlotsOK
  <1>3. QED  BY <1>1, <1>2

LEMMA DeleteSessEffect ==
    ASSUME IInv, NEW h \in Handles, NEW k \in LiveSeids, DeleteSess(h, k)
    PROVE  /\ SlotsOK'
           /\ LiveSeids' = LiveSeids \ {k}
           /\ \A j \in LiveSeids' : sess'[j] = sess[j]
  <1> DEFINE m == Len(free)
  <1>1. k \in 1 .. Len(sess) /\ sess[k] # Nil
    BY DEF LiveSeids, Slots
  <1>2. sess' = [sess EXCEPT ![k] = Nil] /\ free' = Append(free, k)
    BY DEF DeleteSess, LocalDeleteSess
  <1>3. /\ sess' \in Seq(Session \cup {Nil}) /\ Len(sess') = Len(sess)
        /\ sess'[k] = Nil
        /\ \A j \in 1 .. Len(sess) : j # k => sess'[j] = sess[j]
    BY <1>1, <1>2, FreeListFacts
  <1>4. /\ free' \in Seq(Nat) /\ Len(free') = m + 1
        /\ free'[m + 1] = k
        /\ \A i \in 1 .. m : free'[i] = free[i]
        /\ \A i \in 1 .. (m + 1) : i \in 1 .. m \/ i = m + 1
    BY <1>1, <1>2, FreeListFacts
  <1>5. \A i \in 1 .. m : free[i] \in 1 .. Len(sess) /\ free[i] # k /\ sess[free[i]] = Nil
    BY <1>1, FreeListFacts
  <1>6. /\ m \in Nat
        /\ \A i, j \in 1 .. m : free[i] = free[j] => i = j
        /\ \A j \in 1 .. Len(sess) : sess[j] = Nil => \E i \in 1 .. m : free[i] = j
    BY FreeListFacts
  <1> HIDE DEF m
  <1>7. FreeListExact'
    <2>1. ASSUME NEW i \in 1 .. (m + 1)
          PROVE  free'[i] \in 1 .. Len(sess) /\ sess'[free'[i]] = Nil
      <3>1. CASE i \in 1 .. m
        <4>1. free'[i] = free[i] /\ free[i] \in 1 .. Len(sess) /\ free[i] # k /\ sess[free[i]] = Nil
          BY <1>4, <1>5, <3>1
        <4>2. QED  BY <1>3, <4>1
      <3>2. CASE i = m + 1
        BY <1>1, <1>3, <1>4, <3>2
      <3>3. QED  BY <1>4, <3>1, <3>2
    <2>2. ASSUME NEW i \in 1 .. (m + 1), NEW j \in 1 .. (m + 1), free'[i] = free'[j]
          PROVE  i = j
      BY <1>4, <1>5, <1>6, <2>2
    <2>3. ASSUME NEW j \in 1 .. Len(sess), sess'[j] = Nil
          PROVE  \E i \in 1 .. (m + 1) : free'[i] = j
      <3>1. CASE j = k
        <4>1. m + 1 \in 1 .. (m + 1)
          BY <1>6
        <4>2. QED  BY <1>4, <3>1, <4>1
      <3>2. CASE j # k
        <4>1. PICK i \in 1 .. m : free[i] = j
          BY <1>3, <1>6, <2>3, <3>2
        <4>2. i \in 1 .. (m + 1)
          BY <1>6
        <4>3. QED  BY <1>4, <4>1, <4>2
      <3>3. QED  BY <3>1, <3>2
    <2>4. QED  BY <1>3, <1>4, <2>1, <2>2, <2>3 DEF FreeListExact, Slots
  <1>8. LiveSeids' = LiveSeids \ {k}
    BY <1>1, <1>3 DEF LiveSeids, Slots
  <1>9. \A j \in LiveSeids' : sess'[j] = sess[j]
    BY <1>3, <1>8 DEF LiveSeids, Slots
  <1>10. QED  BY <1>3, <1>4, <1>7, <1>8, <1>9 DEF SlotsOK

\* an enumeration of a finite set of numbers is a sequence without repetition
LEMMA OrdersFacts ==
    ASSUME NEW S \in SUBSET Nat, IsFiniteSet(S), NEW order \in Orders(S)
    PROVE  /\ order \in Seq(S) /\ order \in Seq(Nat)
           /\ \A i \in 1 .. Len(order) : order[i] \in S
           /\ \A i, j \in 1 .. Len(order) : order[i] = order[j] => i = j
           /\ \A x \in S : \E i \in 1 .. Len(order) : order[i] = x
  <1>1. Cardinality(S) \in Nat
    BY FS_CardinalityType
  <1>2. order \in [1 .. Cardinality(S) -> S]
    BY DEF Orders
  <1>3. order \in Seq(S) /\ Len(order) = Cardinality(S)
    BY <1>1, <1>2
  <1>4. order \in Seq(Nat)
    <2>1. order \in [1 .. Cardinality(S) -> Nat]
      BY <1>2
    <2>2. QED  BY <1>1, <2>1
  <1>5. QED  BY <1>2, <1>3, <1>4 DEF Orders

LEMMA ResetSessEffect ==
    ASSUME IInv, NEW h \in Handles, ResetSess(h)
    PROVE  /\ SlotsOK'
           /\ LiveSeids' = LiveSeids \ nodes[h].sess
           /\ \A j \in LiveSeids' : sess'[j] = sess[j]
  <1> DEFINE closed == nodes[h].sess \cap LiveSeids
             m == Len(free)
  <1>1. closed \in SUBSET (1 .. Len(sess)) /\ \A k \in closed : sess[k] # Nil
    BY DEF LiveSeids, Slots
  <1>2. IsFiniteSet(closed) /\ closed \in SUBSET Nat
    <2>1. IsFiniteSet(1 .. Len(sess))
      BY FreeListFacts, FS_Interval
    <2>2. QED  BY <1>1, <2>1, FS_Subset, FreeListFacts
  <1>3. PICK order \in Orders(closed) : free' = free \o order
    BY DEF ResetSess
  <1>4. sess' = [k \in 1 .. Len(sess) |-> IF k \in closed THEN Nil ELSE sess[k]]
    BY DEF ResetSess, Slots
  <1>5. /\ m \in Nat /\ free \in Seq(Nat) /\ Len(sess) \in Nat
        /\ \A i \in 1 .. m : free[i] \in 1 .. Len(sess) /\ sess[free[i]] = Nil
        /\ \A i, j \in 1 .. m : free[i] = free[j] => i = j
        /\ \A k \in 1 .. Len(sess) : sess[k] = Nil => \E i \in 1 .. m : free[i] = k
        /\ \A k \in 1 .. Len(sess) : sess[k] \in Session \cup {Nil}
    BY FreeListFacts
  <1>6. /\ order \in Seq(Nat)
        /\ \A i \in 1 .. Len(order) : order[i] \in closed
        /\ \A i, j \in 1 .. Len(order) : order[i] = order[j] => i = j
        /\ \A x \in closed : \E i \in 1 .. Len(order) : order[i] = x
    <2> HIDE DEF closed
    <2>1. QED  BY <1>2, <1>3, OrdersFacts
  <1> DEFINE c == Len(order)
  <1>7. /\ free' \in Seq(Nat) /\ Len(free') = m + c /\ c \in Nat
        /\ \A i \in 1 .. (m + c) : free'[i] = IF i <= m THEN free[i] ELSE order[i - m]
    BY <1>3, <1>5, <1>6, ConcatProperties
  <1> HIDE DEF closed, m
  <1>8. /\ sess' \in Seq(Session \cup {Nil}) /\ Len(sess') = Len(sess)
        /\ \A k \in closed : sess'[k] = Nil
        /\ \A k \in 1 .. Len(sess) : k \notin closed => sess'[k] = sess[k]
    BY <1>1, <1>4, <1>5
  <1> HIDE DEF c
  <1>9. FreeListExact'
    <2>1. ASSUME NEW i \in 1 .. (m + c)
          PROVE  \/ i \in 1 .. m /\ free'[i] = free[i] /\ free[i] \notin closed
                 \/ i - m \in 1 .. c /\ ~(i <= m) /\ free'[i] = order[i - m] /\ order[i - m] \in closed
      <3>1. CASE i <= m
        <4>1. i \in 1 .. m
          BY <1>5, <1>7, <3>1
        <4>2. QED  BY <1>1, <1>5, <1>7, <3>1, <4>1
      <3>2. CASE ~(i <= m)
        <4>1. i - m \in 1 .. c
          BY <1>5, <1>7, <3>2
        <4>2. QED  BY <1>6, <1>7, <3>2, <4>1 DEF c
      <3>3. QED  BY <3>1, <3>2
    <2>2. ASSUME NEW i \in 1 .. (m + c)
          PROVE  free'[i] \in 1 .. Len(sess) /\ sess'[free'[i]] = Nil
      <3>1. CASE i \in 1 .. m /\ free'[i] = free[i] /\ free[i] \notin closed
        <4>1. free[i] \in 1 .. Len(sess) /\ sess[free[i]] = Nil
          BY <1>5, <3>1
        <4>2. QED  BY <1>8, <3>1, <4>1
      <3>2. CASE free'[i] = order[i - m] /\ order[i - m] \in closed
        BY <1>1, <1>8, <3>2
      <3>3. QED  BY <2>1, <3>1, <3>2
    <2>3. ASSUME NEW i \in 1 .. (m + c), NEW j \in 1 .. (m + c), free'[i] = free'[j]
          PROVE  i = j
      <3>1. CASE i \in 1 .. m /\ j \in 1 .. m
        BY <1>5, <2>1, <2>3, <3>1
      <3>2. CASE i - m \in 1 .. c /\ j - m \in 1 .. c /\ ~(i <= m) /\ ~(j <= m)
        <4>1. order[i - m] = order[j - m]
          BY <1>7, <2>3, <3>2
        <4>2. i - m = j - m
          BY <1>6, <3>2, <4>1 DEF c
        <4>3. QED  BY <1>5, <1>7, <4>2
      <3>3. QED  BY <2>1, <2>3, <3>1, <3>2
    <2>4. ASSUME NEW k \in 1 .. Len(sess), sess'[k] = Nil
          PROVE  \E i \in 1 .. (m + c) : free'[i] = k
      <3>1. CASE k \in closed
        <4>1. PICK i \in 1 .. c : order[i] = k
          BY <1>6, <3>1 DEF c
        <4>2. i + m \in 1 .. (m + c) /\ ~(i + m <= m) /\ (i + m) - m = i
          BY <1>5, <1>7
        <4>3. free'[i + m] = k
          BY <1>7, <4>1, <4>2
        <4>4. QED  BY <4>2, <4>3
      <3>2. CASE k \notin closed
        <4>1. PICK i \in 1 .. m : free[i] = k
          BY <1>5, <1>8, <2>4, <3>2
        <4>2. i \in 1 .. (m + c) /\ i <= m
          BY <1>5, <1>7
        <4>3. QED  BY <1>7, <4>1, <4>2
      <3>3. QED  BY <3>1, <3>2
    <2>5. QED  BY <1>7, <1>8, <2>2, <2>3, <2>4 DEF FreeListExact, Slots
  <1>10. LiveSeids' = LiveSeids \ nodes[h].sess
    BY <1>1, <1>8 DEF LiveSeids, Slots, closed
  <1>11. \A j \in LiveSeids' : sess'[j] = sess[j]
    BY <1>8, <1>10 DEF LiveSeids, Slots, closed
  <1>12. QED  BY <1>7, <1>8, <1>9, <1>10, <1>11 DEF SlotsOK

-----------------------------------------------------------------------------
(* Every step preserves the invariant                                      *)

LEMMA TablesUnchanged ==
    ASSUME IInv, UNCHANGED <<sess, free, nodes, rnodes>>,
           pending' \in [RSeids \X Addrs -> Nat], crashed' \in BOOLEAN
    PROVE  IInv'
  <1>1. TypeOK'
    BY DEF IInv, TypeOK
  <1>2. FreeListExact'
    BY DEF IInv, FreeListExact, Slots
  <1>3. OwnedByOneNode'
    BY DEF IInv, OwnedByOneNode, LiveSeids, Slots
  <1>4. RegisteredUnderOwnID'
    BY DEF IInv, RegisteredUnderOwnID
  <1>5. QED  BY <1>1, <1>2, <1>3, <1>4 DEF IInv

LEMMA SetupNewInvariant ==
    ASSUME IInv, NEW id \in NodeIDs, NEW a \in Addrs, NEW h \in Handles,
           AssociationSetupNew(id, a, h)
    PROVE  IInv'
  <1> USE DEF AssociationSetupNew
  <1>1. nodes[h].sess = {} /\ \A x \in NodeIDs : rnodes[x] # h
    BY UnreachableOwnsNothing DEF Reachable
  <1>2. NewRemoteNode(id, a) \in Node
    BY DEF NewRemoteNode, Node
  <1>3. TypeOK'
    BY <1>2 DEF IInv, TypeOK
  <1>4. FreeListExact'
    BY DEF IInv, FreeListExact, Slots
  <1>5. OwnedByOneNode'
    <2>1. LiveSeids' = LiveSeids /\ sess' = sess
      BY DEF LiveSeids, Slots
    <2>2. /\ nodes'[h].sess = {}
          /\ \A g \in Handles : g # h => nodes'[g] = nodes[g]
      BY DEF IInv, TypeOK, NewRemoteNode
    <2>3. \A k \in LiveSeids : sess[k].rnode \in Handles /\ sess[k].rnode # h
      BY LiveOwner DEF IInv, Reachable
    <2>4. QED  BY <2>1, <2>2, <2>3 DEF IInv, OwnedByOneNode
  <1>6. RegisteredUnderOwnID'
    BY <1>1, NilIsNoHandle DEF IInv, TypeOK, RegisteredUnderOwnID, NewRemoteNode
  <1>7. QED  BY <1>3, <1>4, <1>5, <1>6 DEF IInv

LEMMA SetupAgainInvariant ==
    ASSUME IInv, NEW id \in NodeIDs, NEW a \in Addrs, NEW h \in Handles,
           AssociationSetupAgain(id, a, h)
    PROVE  IInv'
  <1> USE DEF AssociationSetupAgain
  <1> DEFINE o == rnodes[id]
  <1>1. o \in Handles /\ o # h /\ nodes[h].sess = {} /\ \A x \in NodeIDs : rnodes[x] # h
    BY UnreachableOwnsNothing DEF IInv, TypeOK, Reachable
  <1>2. NewRemoteNode(id, a) \in Node
    BY DEF NewRemoteNode, Node
  <1>3. /\ SlotsOK'
        /\ LiveSeids' = LiveSeids \ nodes[o].sess
        /\ \A k \in LiveSeids' : sess'[k] = sess[k]
    BY <1>1, ResetSessEffect
  <1>4. /\ nodes' \in [Handles -> Node]
        /\ nodes'[h] = NewRemoteNode(id, a)
        /\ nodes'[o].sess = {} /\ nodes'[o].id = nodes[o].id
        /\ \A g \in Handles : g # h /\ g # o => nodes'[g] = nodes[g]
    BY <1>1, <1>2 DEF IInv, TypeOK, Node
  <1>5. TypeOK'
    BY <1>3, <1>4 DEF IInv, TypeOK, SlotsOK
  <1>6. OwnedByOneNode'
    <2>1. ASSUME NEW k \in LiveSeids'
          PROVE  k \in nodes'[sess'[k].rnode].sess
      <3>1. k \in LiveSeids /\ k \notin nodes[o].sess /\ sess'[k] = sess[k]
        BY <1>3
      <3>2. sess[k].rnode \in Handles /\ k \in nodes[sess[k].rnode].sess
        BY <3>1, LiveOwner DEF IInv, OwnedByOneNode
      <3>3. sess[k].rnode # o /\ sess[k].rnode # h
        BY <1>1, <3>1, <3>2
      <3>4. QED  BY <1>4, <3>1, <3>2, <3>3
    <2>2. ASSUME NEW g \in Handles, NEW k \in nodes'[g].sess
          PROVE  k \in LiveSeids' /\ sess'[k].rnode = g
      <3>1. g # h /\ g # o
        BY <1>4 DEF NewRemoteNode
      <3>2. k \in nodes[g].sess
        BY <1>4, <3>1
      <3>3. k \in LiveSeids /\ sess[k].rnode = g
        BY <3>2 DEF IInv, OwnedByOneNode
      <3>4. k \notin nodes[o].sess
        BY <1>1, <3>1, <3>3 DEF IInv, OwnedByOneNode
      <3>5. QED  BY <1>3, <3>3, <3>4
    <2>3. QED  BY <2>1, <2>2 DEF OwnedByOneNode
  <1>7. RegisteredUnderOwnID'
    <2>1. ASSUME NEW x \in NodeIDs, rnodes'[x] # Nil
          PROVE  nodes'[rnodes'[x]].id = x
      <3>1. CASE x = id
        BY <1>4, <3>1 DEF IInv, TypeOK, NewRemoteNode
      <3>2. CASE x # id
        <4>1. rnodes'[x] = rnodes[x] /\ rnodes[x] \in Handles /\ rnodes[x] # h
              /\ nodes[rnodes[x]].id = x
          BY <1>1, <2>1, <3>2 DEF IInv, TypeOK, RegisteredUnderOwnID
        <4>2. QED  BY <1>4, <4>1
      <3>3. QED  BY <3>1, <3>2
    <2>2. QED  BY <2>1 DEF RegisteredUnderOwnID
  <1>8. QED  BY <1>3, <1>5, <1>6, <1>7 DEF IInv, SlotsOK

LEMMA EstablishmentInvariant ==
    ASSUME IInv, NEW id \in NodeIDs, NEW r \in RSeids, SessionEstablishment(id, r)
    PROVE  IInv'
  <1> USE DEF SessionEstablishment
  <1> DEFINE o == rnodes[id]
             s == [rseid |-> r, rnode |-> o]
             n == NextSeid
  <1>1. o \in Handles /\ s \in Session
    BY DEF IInv, TypeOK, Session
  <1>2. /\ SlotsOK'
        /\ LiveSeids' = LiveSeids \cup {n}
        /\ sess'[n] = s
        /\ \A k \in LiveSeids : sess'[k] = sess[k]
    BY <1>1, NewSessEffect
  <1>3. n \in Nat /\ n \notin LiveSeids
    BY NextSeidIsUnused
  <1> HIDE DEF n
  <1>4. /\ nodes' \in [Handles -> Node]
        /\ nodes'[o].sess = nodes[o].sess \cup {n}
        /\ \A g \in Handles : nodes'[g].id = nodes[g].id
        /\ \A g \in Handles : g # o => nodes'[g] = nodes[g]
    BY <1>1, <1>3 DEF IInv, TypeOK, Node, n
  <1>5. TypeOK'
    BY <1>2, <1>4 DEF IInv, TypeOK, SlotsOK
  <1>6. OwnedByOneNode'
    <2>1. ASSUME NEW k \in LiveSeids'
          PROVE  k \in nodes'[sess'[k].rnode].sess
      <3>1. CASE k = n
        BY <1>2, <1>4, <3>1
      <3>2. CASE k # n
        <4>1. k \in LiveSeids /\ sess'[k] = sess[k]
          BY <1>2, <3>2
        <4>2. sess[k].rnode \in Handles /\ k \in nodes[sess[k].rnode].sess
          BY <4>1, LiveOwner DEF IInv, OwnedByOneNode
        <4>3. QED  BY <1>4, <4>1, <4>2
      <3>3. QED  BY <3>1, <3>2
    <2>2. ASSUME NEW g \in Handles, NEW k \in nodes'[g].sess
          PROVE  k \in LiveSeids' /\ sess'[k].rnode = g
      <3>1. CASE k \in nodes[g].sess
        BY <1>2, <3>1 DEF IInv, OwnedByOneNode
      <3>2. CASE k \notin nodes[g].sess
        BY <1>2, <1>4, <3>2
      <3>3. QED  BY <3>1, <3>2
    <2>3. QED  BY <2>1, <2>2 DEF OwnedByOneNode
  <1>7. RegisteredUnderOwnID'
    BY <1>4 DEF IInv, TypeOK, RegisteredUnderOwnID
  <1>8. QED  BY <1>2, <1>5, <1>6, <1>7 DEF IInv, SlotsOK

LEMMA TakeOverInvariant ==
    ASSUME IInv, NEW k \in Slots, NEW newId \in NodeIDs, SessionTakeOver(k, newId)
    PROVE  IInv'
  <1> USE DEF SessionTakeOver
  <1> DEFINE n == sess[k].rnode
  <1>1. n \in Handles
    BY LiveOwner DEF IInv, Live, LiveSeids
  <1>2. /\ nodes' \in [Handles -> Node]
        /\ nodes'[n].id = newId
        /\ \A g \in Handles : nodes'[g].sess = nodes[g].sess
        /\ \A g \in Handles : g # n => nodes'[g] = nodes[g]
    BY <1>1 DEF UpdateNodeID, IInv, TypeOK, Node
  <1>3. /\ rnodes' \in [NodeIDs -> Handles \cup {Nil}]
        /\ rnodes'[newId] = n
        /\ \A x \in NodeIDs : x # newId /\ x # nodes[n].id => rnodes'[x] = rnodes[x]
        /\ \A x \in NodeIDs : x # newId /\ x = nodes[n].id => rnodes'[x] = Nil
    BY <1>1 DEF UpdateNodeID, IInv, TypeOK
  <1>4. TypeOK'
    BY <1>2, <1>3 DEF IInv, TypeOK
  <1>5. FreeListExact'
    BY DEF IInv, FreeListExact, Slots
  <1>6. OwnedByOneNode'
    <2>1. LiveSeids' = LiveSeids /\ sess' = sess
      BY DEF LiveSeids, Slots
    <2>2. \A j \in LiveSeids : sess[j].rnode \in Handles
      BY LiveOwner DEF IInv
    <2>3. QED  BY <1>2, <2>1, <2>2 DEF IInv, OwnedByOneNode
  <1>7. RegisteredUnderOwnID'
    <2>1. ASSUME NEW x \in NodeIDs, rnodes'[x] # Nil
          PROVE  nodes'[rnodes'[x]].id = x
      <3>1. CASE x = newId
        BY <1>2, <1>3, <3>1
      <3>2. CASE x # newId
        <4>1. x # nodes[n].id /\ rnodes'[x] = rnodes[x]
          BY <1>3, <2>1, <3>2
        <4>2. rnodes[x] \in Handles /\ nodes[rnodes[x]].id = x
          BY <2>1, <4>1 DEF IInv, TypeOK, RegisteredUnderOwnID
        <4>3. QED  BY <1>2, <4>1, <4>2
      <3>3. QED  BY <3>1, <3>2
    <2>2. QED  BY <2>1 DEF RegisteredUnderOwnID
  <1>8. QED  BY <1>4, <1>5, <1>6, <1>7 DEF IInv

\* the deletion of a live session, whoever asked for it
LEMMA DeletionInvariant ==
    ASSUME IInv, NEW k \in LiveSeids, DeleteSess(sess[k].rnode, k),
           UNCHANGED <<rnodes, crashed>>, pending' \in [RSeids \X Addrs -> Nat]
    PROVE  IInv'
  <1> DEFINE o == sess[k].rnode
  <1>1. o \in Handles
    BY LiveOwner DEF IInv
  <1>2. /\ SlotsOK'
        /\ LiveSeids' = LiveSeids \ {k}
        /\ \A j \in LiveSeids' : sess'[j] = sess[j]
    BY <1>1, DeleteSessEffect
  <1>3. /\ nodes' \in [Handles -> Node]
        /\ nodes'[o].sess = nodes[o].sess \ {k}
        /\ \A g \in Handles : nodes'[g].id = nodes[g].id
        /\ \A g \in Handles : g # o => nodes'[g] = nodes[g]
    BY <1>1 DEF DeleteSess, IInv, TypeOK, Node
  <1>4. TypeOK'
    BY <1>2, <1>3 DEF IInv, TypeOK, SlotsOK
  <1>5. OwnedByOneNode'
    <2>1. ASSUME NEW j \in LiveSeids'
          PROVE  j \in nodes'[sess'[j].rnode].sess
      <3>1. j \in LiveSeids /\ j # k /\ sess'[j] = sess[j]
        BY <1>2
      <3>2. sess[j].rnode \in Handles /\ j \in nodes[sess[j].rnode].sess
        BY <3>1, LiveOwner DEF IInv, OwnedByOneNode
      <3>3. QED  BY <1>3, <3>1, <3>2
    <2>2. ASSUME NEW g \in Handles, NEW j \in nodes'[g].sess
          PROVE  j \in LiveSeids' /\ sess'[j].rnode = g
      <3>1. j \in nodes[g].sess /\ (g = o => j # k)
        BY <1>3
      <3>2. j \in LiveSeids /\ sess[j].rnode = g
        BY <3>1 DEF IInv, OwnedByOneNode
      <3>3. QED  BY <1>2, <3>1, <3>2
    <2>3. QED  BY <2>1, <2>2 DEF OwnedByOneNode
  <1>6. RegisteredUnderOwnID'
    BY <1>3 DEF IInv, TypeOK, RegisteredUnderOwnID
  <1>7. QED  BY <1>2, <1>4, <1>5, <1>6 DEF IInv, SlotsOK

\* a report that is given up, answered or found to be for a session unknown
\* to the control plane
LEMMA SeidZeroInvariant ==
    ASSUME IInv, NEW r \in RSeids, NEW a \in Addrs, ReportResponseSeidZero(r, a)
    PROVE  IInv'
  <1>1. pending' \in [RSeids \X Addrs -> Nat] /\ UNCHANGED rnodes
    BY DEF ReportResponseSeidZero, IInv, TypeOK
  <1>2. CASE UNCHANGED <<sess, free, nodes>> /\ crashed' \in BOOLEAN
    BY <1>1, <1>2, TablesUnchanged
  <1>3. CASE \E k \in RemoteSess(r, a) :
                sess[k] # Nil /\ DeleteSess(sess[k].rnode, k) /\ UNCHANGED crashed
    <2>1. PICK k \in RemoteSess(r, a) :
             sess[k] # Nil /\ DeleteSess(sess[k].rnode, k) /\ UNCHANGED crashed
      BY <1>3
    <2>2. k \in LiveSeids
      BY <2>1 DEF RemoteSess, LiveSeids
    <2>3. QED  BY <1>1, <2>1, <2>2, DeletionInvariant
  <1>4. crashed \in BOOLEAN
    BY DEF IInv, TypeOK
  <1>5. QED  BY <1>2, <1>3, <1>4 DEF ReportResponseSeidZero

LEMMA StepInvariant ==
    ASSUME IInv, [Next]_vars
    PROVE  IInv'
  <1>1. ASSUME NEW id \in NodeIDs, NEW a \in Addrs, NEW h \in Handles,
               AssociationSetupNew(id, a, h) \/ AssociationSetupAgain(id, a, h)
        PROVE  IInv'
    BY <1>1, SetupNewInvariant, SetupAgainInvariant
  <1>2. ASSUME NEW id \in NodeIDs, NEW r \in RSeids, SessionEstablishment(id, r)
        PROVE  IInv'
    BY <1>2, EstablishmentInvariant
  <1>3. ASSUME NEW k \in Slots, NEW id \in NodeIDs, SessionTakeOver(k, id)
        PROVE  IInv'
    BY <1>3, TakeOverInvariant
  <1>4. ASSUME NEW k \in Slots, SessionDeletion(k)
        PROVE  IInv'
    <2>1. k \in LiveSeids /\ DeleteSess(sess[k].rnode, k) /\ UNCHANGED <<rnodes, pending, crashed>>
      BY <1>4 DEF SessionDeletion, Live, LiveSeids
    <2>2. pending' \in [RSeids \X Addrs -> Nat]
      BY <2>1 DEF IInv, TypeOK
    <2>3. QED  BY <2>1, <2>2, DeletionInvariant
  <1>5. ASSUME NEW k \in Slots, ServeReport(k)
        PROVE  IInv'
    <2>1. pending' \in [RSeids \X Addrs -> Nat] /\ crashed' \in BOOLEAN
      <3>1. PICK to : pending' = [pending EXCEPT ![to] = @ + 1]
        BY <1>5 DEF ServeReport
      <3>2. pending \in [RSeids \X Addrs -> Nat] /\ crashed' \in BOOLEAN
        BY <1>5 DEF ServeReport, IInv, TypeOK
      <3> DEFINE D == RSeids \X Addrs
      <3>3. pending \in [D -> Nat]
        BY <3>2
      <3> HIDE DEF D
      <3>4. pending' \in [D -> Nat]
        <4>1. CASE to \in D
          <5>1. pending[to] + 1 \in Nat
            BY <3>3, <4>1
          <5>2. QED  BY <3>1, <3>3, <5>1
        <4>2. CASE to \notin D
          <5>1. DOMAIN pending' = D /\ \A p \in D : pending'[p] = pending[p]
            BY <3>1, <3>3, <4>2
          <5>2. pending' = [p \in D |-> pending'[p]]
            BY <3>1, <3>3
          <5>3. QED  BY <3>3, <5>1, <5>2
        <4>3. QED  BY <4>1, <4>2
      <3>5. QED  BY <3>2, <3>4 DEF D
    <2>2. UNCHANGED <<sess, free, nodes, rnodes>>
      BY <1>5 DEF ServeReport
    <2>3. QED  BY <2>1, <2>2, TablesUnchanged
  <1>6. ASSUME NEW r \in RSeids, NEW a \in Addrs, ReportDone(r, a)
        PROVE  IInv'
    <2>1. pending' \in [RSeids \X Addrs -> Nat] /\ crashed' \in BOOLEAN
      BY <1>6 DEF ReportDone, IInv, TypeOK
    <2>2. UNCHANGED <<sess, free, nodes, rnodes>>
      BY <1>6 DEF ReportDone
    <2>3. QED  BY <2>1, <2>2, TablesUnchanged
  <1>7. ASSUME NEW r \in RSeids, NEW a \in Addrs, ReportResponseSeidZero(r, a)
        PROVE  IInv'
    BY <1>7, SeidZeroInvariant
  <1>8. CASE UNCHANGED vars
    BY <1>8, TablesUnchanged DEF vars, IInv, TypeOK
  <1>9. QED
    BY <1>1, <1>2, <1>3, <1>4, <1>5, <1>6, <1>7, <1>8 DEF Next

LEMMA Invariant == Spec => []IInv
  <1>1. IInv /\ [Next]_vars => IInv'
    BY StepInvariant
  <1>2. QED  BY InitInvariant, <1>1, PTL DEF Spec

\* The tables keep their types, whatever sequence of PFCP messages is handled.
THEOREM TypeCorrect == Spec => []TypeOK
  <1>1. IInv => TypeOK
    BY DEF IInv
  <1>2. QED  BY Invariant, <1>1, PTL

\* LocalNode never hands out the SEID of a live session and never loses one:
\* the free list is exactly the set of empty slots.
THEOREM FreeListIsExact == Spec => []FreeListExact
  <1>1. IInv => FreeListExact
    BY DEF IInv
  <1>2. QED  BY Invariant, <1>1, PTL

\* Sess.rnode and RemoteNode.sess agree for all sessions and all RemoteNode
\* objects, those no longer in rnodes included.
THEOREM SessionsHaveOneOwner == Spec => []OwnedByOneNode
  <1>1. IInv => OwnedByOneNode
    BY DEF IInv
  <1>2. QED  BY Invariant, <1>1, PTL

\* PfcpServer.rnodes files each RemoteNode under its own ID, UpdateNodeID
\* included.
THEOREM NodesFiledUnderOwnID == Spec => []RegisteredUnderOwnID
  <1>1. IInv => RegisteredUnderOwnID
    BY DEF IInv
  <1>2. QED  BY Invariant, <1>1, PTL

-----------------------------------------------------------------------------
(* The tables implement the abstract session table                         *)

LEMMA AbstractStep ==
    ASSUME IInv, [Next]_vars
    PROVE  [Abstract!Next]_Entries
  <1>1. ASSUME UNCHANGED sess
        PROVE  Entries' = Entries
    BY <1>1 DEF Entries, Entry, LiveSeids, Slots
  <1>2. ASSUME NEW k \in LiveSeids, DeleteSess(sess[k].rnode, k)
        PROVE  Abstract!Next
    <2>1. /\ LiveSeids' = LiveSeids \ {k}
          /\ \A j \in LiveSeids' : sess'[j] = sess[j]
      BY <1>2, LiveOwner, DeleteSessEffect DEF IInv
    <2>2. Entry(k) \in Entries
      BY DEF Entries
    <2>3. Entries' = Entries \ {Entry(k)}
      <3>1. \A j \in LiveSeids' : Entry(j)' = Entry(j)
        BY <2>1 DEF Entry
      <3>2. \A j \in LiveSeids : Entry(j) = Entry(k) => j = k
        BY DEF Entry
      <3>3. QED  BY <2>1, <3>1, <3>2 DEF Entries
    <2>4. QED  BY <2>2, <2>3 DEF Abstract!Next, Abstract!Delete
  <1>3. ASSUME NEW id \in NodeIDs, NEW a \in Addrs, NEW h \in Handles,
               AssociationSetupAgain(id, a, h)
        PROVE  Abstract!Next
    <2> DEFINE o == rnodes[id]
    <2>1. o \in Handles
      BY <1>3 DEF AssociationSetupAgain, IInv, TypeOK
    <2>2. /\ LiveSeids' = LiveSeids \ nodes[o].sess
          /\ \A k \in LiveSeids' : sess'[k] = sess[k]
      BY <1>3, <2>1, ResetSessEffect DEF AssociationSetupAgain
    <2>3. \A k \in LiveSeids : k \in nodes[o].sess <=> sess[k].rnode = o
      BY <2>1 DEF IInv, OwnedByOneNode
    <2>4. Entries' = {e \in Entries : e.owner # o}
      <3>1. \A k \in LiveSeids' : Entry(k)' = Entry(k)
        BY <2>2 DEF Entry
      <3>2. \A k \in LiveSeids : k \in LiveSeids' <=> Entry(k).owner # o
        BY <2>2, <2>3 DEF Entry
      <3>3. QED  BY <2>2, <3>1, <3>2 DEF Entries
    <2>5. QED  BY <2>1, <2>4 DEF Abstract!Next, Abstract!ResetOwner
  <1>4. ASSUME NEW id \in NodeIDs, NEW r \in RSeids, SessionEstablishment(id, r)
        PROVE  Abstract!Next
    <2> DEFINE o == rnodes[id]
               s == [rseid |-> r, rnode |-> o]
    <2>1. o \in Handles /\ s \in Session /\ NewSess(s) /\ NextSeid <= MaxSlots
      BY <1>4 DEF SessionEstablishment, IInv, TypeOK, Session
    <2>2. /\ LiveSeids' = LiveSeids \cup {NextSeid}
          /\ sess'[NextSeid] = s
          /\ \A k \in LiveSeids : sess'[k] = sess[k]
      BY <2>1, NewSessEffect
    <2>3. NextSeid \in 1 .. MaxSlots /\ NextSeid \notin LiveSeids
      BY <2>1, NextSeidIsUnused, NodeConstants, FreeListFacts DEF Slots
    <2>4. PICK n \in 1 .. MaxSlots : n = NextSeid
      BY <2>3
    <2>5. Entries' = Entries \cup {[seid |-> n, rseid |-> r, owner |-> o]}
      <3>1. \A k \in LiveSeids : Entry(k)' = Entry(k)
        BY <2>2 DEF Entry
      <3>2. [seid |-> n, rseid |-> sess'[n].rseid, owner |-> sess'[n].rnode]
              = [seid |-> n, rseid |-> r, owner |-> o]
        BY <2>2, <2>4
      <3>3. QED  BY <2>2, <2>4, <3>1, <3>2 DEF Entries, Entry
    <2>6. \A e \in Entries : e.seid # n
      BY <2>3, <2>4 DEF Entries, Entry
    <2>7. QED  BY <2>1, <2>5, <2>6 DEF Abstract!Next, Abstract!Establish
  <1>5. ASSUME NEW k \in Slots, SessionDeletion(k)
        PROVE  Abstract!Next
    BY <1>2, <1>5 DEF SessionDeletion, Live, LiveSeids
  <1>6. ASSUME NEW r \in RSeids, NEW a \in Addrs, ReportResponseSeidZero(r, a)
        PROVE  Abstract!Next \/ UNCHANGED sess
    <2>1. CASE \E k \in RemoteSess(r, a) : sess[k] # Nil /\ DeleteSess(sess[k].rnode, k)
      <3>1. PICK k \in RemoteSess(r, a) : sess[k] # Nil /\ DeleteSess(sess[k].rnode, k)
        BY <2>1
      <3>2. k \in LiveSeids
        BY <3>1 DEF RemoteSess, LiveSeids
      <3>3. QED  BY <1>2, <3>1, <3>2
    <2>2. QED  BY <1>6, <2>1 DEF ReportResponseSeidZero
  <1>7. Abstract!Next \/ UNCHANGED sess
    BY <1>3, <1>4, <1>5, <1>6
    DEF Next, vars, AssociationSetupNew, SessionTakeOver, ServeReport, ReportDone
  <1>8. QED  BY <1>1, <1>7

\* The slices, maps and free list of LocalNode and RemoteNode implement the
\* abstract session table, for any number of nodes and sessions: NewSess uses
\* an unused SEID, DeleteSess ends one session, Reset ends the sessions of one
\* RemoteNode and of no other.
THEOREM TablesImplementSessionTable == Spec => ImplementsSessionTable
  <1>1. Init => Abstract!Init
    BY DEF Init, Abstract!Init, Entries, LiveSeids, Slots
  <1>2. IInv /\ [Next]_vars => [Abstract!Next]_Entries
    BY AbstractStep
  <1>3. QED
    BY Invariant, <1>1, <1>2, PTL DEF Spec, ImplementsSessionTable, Abstract!Spec
=============================================================================
