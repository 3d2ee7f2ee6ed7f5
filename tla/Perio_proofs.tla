---------------------------- MODULE Perio_proofs ----------------------------
(***************************************************************************)
(* Proofs about the periodic-report server, for any URRs, periods and      *)
(* lengths of channels: types, a ticker for each group and for no other    *)
(* period, and that the timer a URR was created with is kept.              *)
(*                                                                         *)
(* The argument for the timers follows the events of one URR from main     *)
(* through evtCh to Serve: the last of them that is still on its way is    *)
(* the one main asked for last (LastWord).  The others say what Serve may  *)
(* be doing meanwhile (ServeDoes), and that a CLOSE is seen only after the *)
(* shutdown has begun (ClosesAfterShutdown).                               *)
(***************************************************************************)
EXTENDS Perio, FiniteSetTheorems, TLAPS

\* the events about one URR
About(k) == {Del(k)} \cup {Add(k, p) : p \in Periods}

\* while Serve stops a ticker because of DEL its group is empty; it has at
\* least one report to send while it sends
ServeDoes ==
    /\ serve = [at |-> serve.at, todo |-> serve.todo]
    /\ serve.at = "del" => \E p \in Periods : serve.todo = <<p>> /\ perioList[p] = {}
    /\ serve.at = "notify" => serve.todo # <<>>

ClosesAfterShutdown ==
    closing = "no" =>
        /\ serve.at \notin {"close", "stopped"}
        /\ \A i \in 1 .. Len(evtCh) : evtCh[i] # Shutdown

\* the event at position i is the last about k, and what main asked for
Promised(k, i) ==
    /\ evtCh[i] = Add(k, wanted[k])
    /\ \A j \in 1 .. Len(evtCh) : j > i => evtCh[j] \notin About(k)

\* the last word about k is with main, in evtCh, or already done
Word(k) ==
    \/ main = Add(k, wanted[k])
    \/ main \notin About(k) /\ \E i \in 1 .. Len(evtCh) : Promised(k, i)
    \/ Settled(k) /\ k \in perioList[wanted[k]]

LastWord == closing = "no" => \A k \in Keys : wanted[k] # None => Word(k)

IInv == TypeOK /\ GroupsHaveTickers /\ ServeDoes /\ ClosesAfterShutdown /\ LastWord

-----------------------------------------------------------------------------
(* Events and channels                                                     *)

\* events are told apart by their type and their URR
LEMMA EventForms ==
    /\ \A e \in Events :
          /\ e.type = "ADD" => \E k \in Keys, p \in Periods : e = Add(k, p)
          /\ e.type = "DEL" => \E k \in Keys : e = Del(k)
          /\ e.type = "TIMEOUT" => \E p \in Periods : e = Timeout(p)
          /\ e.type = "CLOSE" => e = Shutdown
    /\ \A k \in Keys, p \in Periods :
          Add(k, p).key = k /\ Add(k, p).period = p /\ Del(k).key = k /\ Timeout(p).period = p
BY DEF Events, Requests, Add, Del, Timeout, Shutdown

LEMMA AboutForms ==
    ASSUME NEW k \in Keys
    PROVE  /\ \A j \in Keys, p \in Periods : Add(j, p) \in About(k) <=> j = k
           /\ \A j \in Keys : Del(j) \in About(k) <=> j = k
           /\ \A p \in Periods : Timeout(p) \notin About(k)
           /\ Shutdown \notin About(k) /\ Idle \notin About(k) /\ Down \notin About(k)
           /\ \A p \in Periods : Add(k, p) # Del(k) /\ Add(k, p) # Shutdown
<1>1. ASSUME NEW j \in Keys, NEW p \in Periods PROVE Add(j, p) \in About(k) <=> j = k
  <2>1. j = k => Add(j, p) \in About(k)
    BY DEF About
  <2>2. ASSUME Add(j, p) \in About(k) PROVE j = k
    <3>1. Add(j, p).type = "ADD" /\ Del(k).type = "DEL" /\ Add(j, p).key = j
      BY DEF Add, Del
    <3>2. PICK q \in Periods : Add(j, p) = Add(k, q)
      BY <2>2, <3>1 DEF About
    <3>3. Add(k, q).key = k
      BY DEF Add
    <3> QED BY <3>1, <3>2, <3>3
  <2> QED BY <2>1, <2>2
<1>2. ASSUME NEW j \in Keys PROVE Del(j) \in About(k) <=> j = k
  <2>1. j = k => Del(j) \in About(k)
    BY DEF About
  <2>2. ASSUME Del(j) \in About(k) PROVE j = k
    <3>1. Del(j).type = "DEL" /\ Del(j).key = j /\ Del(k).key = k /\ \A q \in Periods : Add(k, q).type = "ADD"
      BY DEF Add, Del
    <3>2. Del(j) = Del(k)
      BY <2>2, <3>1 DEF About
    <3> QED BY <3>1, <3>2
  <2> QED BY <2>1, <2>2
<1>3. \A e \in About(k) : e.type \in {"ADD", "DEL"}
  BY DEF About, Add, Del
<1>4. /\ \A p \in Periods : Timeout(p).type = "TIMEOUT" /\ Add(k, p).type = "ADD"
      /\ Shutdown.type = "CLOSE" /\ Idle.type = "IDLE" /\ Down.type = "DOWN" /\ Del(k).type = "DEL"
  BY DEF Timeout, Shutdown, Idle, Down, Add, Del
<1> QED BY <1>1, <1>2, <1>3, <1>4

LEMMA PostFacts ==
    ASSUME TypeOK, NEW e \in Events, Post(e)
    PROVE  /\ evtCh' \in Seq(Events) /\ Len(evtCh') <= EvtLen
           /\ Len(evtCh) \in Nat /\ Len(evtCh') = Len(evtCh) + 1
           /\ \A i \in 1 .. Len(evtCh) : evtCh'[i] = evtCh[i]
           /\ evtCh'[Len(evtCh) + 1] = e
<1>1. evtCh \in Seq(Events) /\ EvtLen \in Nat /\ evtCh' = Append(evtCh, e) /\ Len(evtCh) < EvtLen
  BY PerioConstants DEF TypeOK, Post
<1>2. Len(evtCh) \in Nat /\ Len(evtCh') = Len(evtCh) + 1 /\ evtCh' \in Seq(Events)
  BY <1>1
<1>3. /\ \A i \in 1 .. Len(evtCh) : evtCh'[i] = evtCh[i]
      /\ evtCh'[Len(evtCh) + 1] = e
  BY <1>1
<1> QED BY <1>1, <1>2, <1>3

LEMMA TakesFacts ==
    ASSUME TypeOK, NEW type, Takes(type)
    PROVE  /\ Head(evtCh) \in Events /\ Head(evtCh).type = type /\ Head(evtCh) = evtCh[1]
           /\ evtCh' \in Seq(Events) /\ Len(evtCh') <= EvtLen
           /\ Len(evtCh) \in Nat /\ Len(evtCh) > 0 /\ Len(evtCh') = Len(evtCh) - 1
           /\ \A i \in 1 .. Len(evtCh) - 1 : evtCh'[i] = evtCh[i + 1]
           /\ serve.at = "loop" /\ UNCHANGED <<main, srCh, closing, wanted>>
<1>1. /\ evtCh \in Seq(Events) /\ EvtLen \in Nat /\ Len(evtCh) <= EvtLen
      /\ evtCh' = Tail(evtCh) /\ evtCh # <<>> /\ Head(evtCh).type = type
      /\ serve.at = "loop" /\ UNCHANGED <<main, srCh, closing, wanted>>
  BY PerioConstants DEF TypeOK, Takes
<1>2. /\ Head(evtCh) \in Events /\ Head(evtCh) = evtCh[1] /\ evtCh' \in Seq(Events)
      /\ Len(evtCh) \in Nat /\ Len(evtCh) > 0 /\ Len(evtCh') = Len(evtCh) - 1
  BY <1>1
<1>3. \A i \in 1 .. Len(evtCh) - 1 : evtCh'[i] = evtCh[i + 1]
  BY <1>1
<1> QED BY <1>1, <1>2, <1>3

\* a sequence of the members of a finite set
LEMMA SetToSeqsType ==
    ASSUME NEW S, IsFiniteSet(S), NEW order \in SetToSeqs(S)
    PROVE  order \in Seq(S) /\ (S # {} => order # <<>>)
<1>1. Cardinality(S) \in Nat /\ (S # {} => Cardinality(S) # 0)
  BY FS_CardinalityType, FS_EmptySet
<1>2. order \in [1 .. Cardinality(S) -> S]
  BY DEF SetToSeqs
<1>3. order \in Seq(S) /\ Len(order) = Cardinality(S)
  BY <1>1, <1>2
<1> QED BY <1>1, <1>3

-----------------------------------------------------------------------------
(* The last word about a URR                                               *)

\* an event about another URR is sent
LEMMA WordPosted ==
    ASSUME TypeOK, NEW e \in Events, Post(e), NEW k \in Keys, e \notin About(k),
           main' = main \/ (main = e /\ main' = Idle), UNCHANGED <<wanted, perioList>>,
           wanted[k] # None, Word(k)
    PROVE  Word(k)'
<1>1. /\ Len(evtCh) \in Nat /\ Len(evtCh') = Len(evtCh) + 1
      /\ \A i \in 1 .. Len(evtCh) : evtCh'[i] = evtCh[i]
      /\ evtCh'[Len(evtCh) + 1] = e
  BY PostFacts
<1>2. \A i \in 1 .. Len(evtCh') : i \in 1 .. Len(evtCh) \/ i = Len(evtCh) + 1
  BY <1>1
<1>3. wanted[k] \in Periods
  BY DEF TypeOK
<1>4. main \notin About(k) => main' \notin About(k)
  BY AboutForms
<1>5. CASE main = Add(k, wanted[k])
  <2>1. main # e
    BY <1>3, <1>5, AboutForms
  <2> QED BY <1>5, <2>1 DEF Word
<1>6. ASSUME main \notin About(k), NEW i \in 1 .. Len(evtCh), Promised(k, i) PROVE Word(k)'
  <2>1. i \in 1 .. Len(evtCh') /\ evtCh'[i] = Add(k, wanted'[k])
    BY <1>1, <1>6 DEF Promised
  <2>2. ASSUME NEW j \in 1 .. Len(evtCh'), j > i PROVE evtCh'[j] \notin About(k)
    BY <1>1, <1>2, <1>6, <2>2 DEF Promised
  <2>3. Promised(k, i)'
    BY <2>1, <2>2 DEF Promised, About, Add, Del
  <2>4. main' \notin About(k)
    BY <1>4, <1>6
  <2> QED BY <2>1, <2>3, <2>4 DEF Word, About, Add, Del
<1>7. CASE Settled(k) /\ k \in perioList[wanted[k]]
  <2>1. main \notin About(k) /\ \A i \in 1 .. Len(evtCh) : evtCh[i] \notin About(k)
    BY <1>7 DEF Settled, About
  <2>2. main' \notin About(k) /\ \A i \in 1 .. Len(evtCh') : evtCh'[i] \notin About(k)
    BY <1>1, <1>2, <1>4, <2>1
  <2>3. Settled(k)'
    BY <2>2 DEF Settled, About
  <2> QED BY <1>7, <2>3 DEF Word
<1> QED BY <1>5, <1>6, <1>7 DEF Word

\* Serve takes an event that does not remove the timer
LEMMA WordTaken ==
    ASSUME TypeOK, NEW type, Takes(type), NEW k \in Keys, wanted[k] # None, Word(k),
           k \in perioList[wanted[k]] => k \in perioList'[wanted[k]],
           \/ Head(evtCh) \notin About(k)
           \/ Head(evtCh) = Add(k, wanted[k]) /\ k \in perioList'[wanted[k]]
           \/ \E p \in Periods \ {wanted[k]} : Head(evtCh) = Add(k, p)
    PROVE  Word(k)'
<1>1. /\ Head(evtCh) = evtCh[1]
      /\ Len(evtCh) \in Nat /\ Len(evtCh) > 0 /\ Len(evtCh') = Len(evtCh) - 1
      /\ \A i \in 1 .. Len(evtCh) - 1 : evtCh'[i] = evtCh[i + 1]
      /\ UNCHANGED <<main, wanted>>
  BY TakesFacts
<1>2. wanted[k] \in Periods
  BY DEF TypeOK
<1>3. CASE main = Add(k, wanted[k])
  BY <1>1, <1>3 DEF Word
<1>4. ASSUME main \notin About(k), NEW i \in 1 .. Len(evtCh), i # 1, Promised(k, i) PROVE Word(k)'
  <2>1. i - 1 \in 1 .. Len(evtCh') /\ evtCh'[i - 1] = Add(k, wanted'[k])
    BY <1>1, <1>4 DEF Promised
  <2>2. ASSUME NEW j \in 1 .. Len(evtCh'), j > i - 1 PROVE evtCh'[j] \notin About(k)
    <3>1. j + 1 \in 1 .. Len(evtCh) /\ j + 1 > i /\ evtCh'[j] = evtCh[j + 1]
      BY <1>1, <2>2
    <3> QED BY <1>4, <3>1 DEF Promised
  <2>3. Promised(k, i - 1)'
    BY <2>1, <2>2 DEF Promised, About, Add, Del
  <2> QED BY <1>1, <1>4, <2>1, <2>3 DEF Word, About, Add, Del
<1>5. ASSUME main \notin About(k), Promised(k, 1) PROVE Word(k)'
  <2>1. ASSUME NEW j \in 1 .. Len(evtCh') PROVE evtCh'[j] \notin About(k)
    <3>1. j + 1 \in 1 .. Len(evtCh) /\ j + 1 > 1 /\ evtCh'[j] = evtCh[j + 1]
      BY <1>1
    <3> QED BY <1>5, <3>1 DEF Promised
  <2>2. Settled(k)'
    BY <1>1, <1>5, <2>1 DEF Settled, About
  <2>3. Head(evtCh) = Add(k, wanted[k])
    BY <1>1, <1>5 DEF Promised
  <2>4. \A p \in Periods \ {wanted[k]} : Add(k, p) # Add(k, wanted[k])
    BY <1>2, EventForms
  <2>5. Head(evtCh) \in About(k)
    BY <1>2, <2>3, AboutForms
  <2>6. k \in perioList'[wanted[k]]
    BY <2>3, <2>4, <2>5
  <2> QED BY <1>1, <2>2, <2>6 DEF Word
<1>6. CASE Settled(k) /\ k \in perioList[wanted[k]]
  <2>1. ASSUME NEW j \in 1 .. Len(evtCh') PROVE evtCh'[j] \notin About(k)
    <3>1. j + 1 \in 1 .. Len(evtCh) /\ evtCh'[j] = evtCh[j + 1]
      BY <1>1
    <3> QED BY <1>6, <3>1 DEF Settled, About
  <2>2. main' \notin About(k)
    BY <1>1, <1>6 DEF Settled, About
  <2>3. Settled(k)'
    BY <2>1, <2>2 DEF Settled, About
  <2> QED BY <1>1, <1>6, <2>3 DEF Word
<1> QED BY <1>3, <1>4, <1>5, <1>6 DEF Word

\* nothing that concerns the URR changes
LEMMA WordKept ==
    ASSUME NEW k \in Keys, UNCHANGED <<evtCh, main, wanted>>,
           k \in perioList[wanted[k]] => k \in perioList'[wanted[k]], Word(k)
    PROVE  Word(k)'
<1>1. \A i : Promised(k, i)' <=> Promised(k, i)
  BY DEF Promised
<1>2. Settled(k)' <=> Settled(k)
  BY DEF Settled
<1> QED BY <1>1, <1>2 DEF Word

-----------------------------------------------------------------------------
(* Initial states, main, the shutdown and the tickers                      *)

LEMMA InitInvariant == Init => IInv
<1> SUFFICES ASSUME Init PROVE IInv
  OBVIOUS
<1>1. evtCh = <<>> /\ srCh = <<>> /\ serve = Loop /\ main = Idle /\ closing = "no"
  BY DEF Init
<1>2. serve.at = "loop" /\ serve.todo = <<>>
  BY <1>1 DEF Loop
<1>3. TypeOK
  BY <1>1, <1>2, PerioConstants DEF Init, TypeOK
<1>4. GroupsHaveTickers
  BY <1>2 DEF Init, GroupsHaveTickers
<1>5. ServeDoes /\ ClosesAfterShutdown
  BY <1>1, <1>2 DEF ServeDoes, ClosesAfterShutdown, Loop
<1>6. LastWord
  BY DEF Init, LastWord
<1> QED BY <1>3, <1>4, <1>5, <1>6 DEF IInv

\* the parts about tickers and Serve do not concern main
LEMMA ServeUntouched ==
    ASSUME IInv, UNCHANGED <<perioList, serve>>, \A p \in Periods : ticker'[p] = "none" <=> ticker[p] = "none"
    PROVE  GroupsHaveTickers' /\ ServeDoes'
BY DEF IInv, GroupsHaveTickers, ServeDoes

LEMMA CreateURRStep ==
    ASSUME IInv, NEW k \in Keys, NEW p \in Periods, CreateURR(k, p) PROVE IInv'
<1> USE DEF IInv
<1>1. /\ main = Idle /\ main' = Add(k, p) /\ wanted' = [wanted EXCEPT ![k] = p]
      /\ UNCHANGED <<evtCh, perioList, ticker, serve, srCh, closing>>
  BY DEF CreateURR
<1>2. TypeOK'
  <2>1. Add(k, p) \in Requests
    BY DEF Requests
  <2>2. wanted' \in [Keys -> Periods \cup {None}]
    BY <1>1 DEF TypeOK
  <2> QED BY <1>1, <2>1, <2>2 DEF TypeOK
<1>3. GroupsHaveTickers' /\ ServeDoes'
  BY <1>1, ServeUntouched
<1>4. ClosesAfterShutdown'
  BY <1>1 DEF ClosesAfterShutdown
<1>5. ASSUME closing = "no", NEW j \in Keys, wanted'[j] # None PROVE Word(j)'
  <2>1. CASE j = k
    <3>1. wanted'[j] = p
      BY <1>1, <2>1 DEF TypeOK
    <3> QED BY <1>1, <2>1, <3>1 DEF Word
  <2>2. CASE j # k
    <3>1. wanted'[j] = wanted[j]
      BY <1>1, <2>2 DEF TypeOK
    <3>2. Word(j) /\ wanted[j] \in Periods
      BY <1>5, <3>1 DEF LastWord, TypeOK
    <3>3. main \notin About(j) /\ main' \notin About(j) /\ main # Add(j, wanted[j])
      BY <1>1, <2>2, <3>2, AboutForms
    <3>4. \A i : Promised(j, i)' <=> Promised(j, i)
      BY <1>1, <3>1 DEF Promised
    <3>5. Settled(j)' <=> Settled(j)
      BY <1>1, <3>3 DEF Settled, About
    <3>6. CASE \E i \in 1 .. Len(evtCh) : Promised(j, i)
      BY <1>1, <3>3, <3>4, <3>6 DEF Word, About, Add, Del
    <3>7. CASE Settled(j) /\ j \in perioList[wanted[j]]
      BY <1>1, <3>1, <3>5, <3>7 DEF Word
    <3> QED BY <3>2, <3>3, <3>6, <3>7 DEF Word
  <2> QED BY <2>1, <2>2
<1>6. LastWord'
  BY <1>1, <1>5 DEF LastWord
<1> QED BY <1>2, <1>3, <1>4, <1>6

LEMMA RemoveURRStep ==
    ASSUME IInv, NEW k \in Keys, RemoveURR(k) PROVE IInv'
<1> USE DEF IInv
<1>1. /\ main = Idle /\ main' = Del(k) /\ wanted' = [wanted EXCEPT ![k] = None]
      /\ UNCHANGED <<evtCh, perioList, ticker, serve, srCh, closing>>
  BY DEF RemoveURR
<1>2. TypeOK'
  <2>1. Del(k) \in Requests
    BY DEF Requests
  <2>2. wanted' \in [Keys -> Periods \cup {None}]
    BY <1>1 DEF TypeOK
  <2> QED BY <1>1, <2>1, <2>2 DEF TypeOK
<1>3. GroupsHaveTickers' /\ ServeDoes'
  BY <1>1, ServeUntouched
<1>4. ClosesAfterShutdown'
  BY <1>1 DEF ClosesAfterShutdown
<1>5. ASSUME closing = "no", NEW j \in Keys, wanted'[j] # None PROVE Word(j)'
  <2>1. j # k /\ wanted'[j] = wanted[j]
    BY <1>1, <1>5 DEF TypeOK
  <2>2. Word(j) /\ wanted[j] \in Periods
    BY <1>5, <2>1 DEF LastWord, TypeOK
  <2>3. main \notin About(j) /\ main' \notin About(j) /\ main # Add(j, wanted[j])
    BY <1>1, <2>1, <2>2, AboutForms
  <2>4. \A i : Promised(j, i)' <=> Promised(j, i)
    BY <1>1, <2>1 DEF Promised
  <2>5. Settled(j)' <=> Settled(j)
    BY <1>1, <2>3 DEF Settled, About
  <2>6. CASE \E i \in 1 .. Len(evtCh) : Promised(j, i)
    BY <1>1, <2>3, <2>4, <2>6 DEF Word, About, Add, Del
  <2>7. CASE Settled(j) /\ j \in perioList[wanted[j]]
    BY <1>1, <2>1, <2>5, <2>7 DEF Word
  <2> QED BY <2>2, <2>3, <2>6, <2>7 DEF Word
<1>6. LastWord'
  BY <1>1, <1>5 DEF LastWord
<1> QED BY <1>2, <1>3, <1>4, <1>6

\* the last word passes from main to evtCh
LEMMA MainPostsStep ==
    ASSUME IInv, MainPosts PROVE IInv'
<1> USE DEF IInv
<1>1. main \in Requests /\ UNCHANGED <<perioList, ticker, serve, srCh, closing, wanted>>
  BY DEF MainPosts
<1>2. GroupsHaveTickers' /\ ServeDoes'
  BY <1>1, ServeUntouched
<1>3. CASE serve.at = "stopped" /\ main' = Down /\ UNCHANGED evtCh
  <2>1. TypeOK'
    BY <1>1, <1>3 DEF TypeOK
  <2>2. ClosesAfterShutdown' /\ LastWord'
    BY <1>1, <1>3 DEF ClosesAfterShutdown, LastWord
  <2> QED BY <1>2, <2>1, <2>2
<1>4. CASE Post(main) /\ main' = Idle
  <2>1. PICK e \in Events : e = main
    BY <1>1 DEF Events
  <2>2. /\ evtCh' \in Seq(Events) /\ Len(evtCh') <= EvtLen
        /\ Len(evtCh) \in Nat /\ Len(evtCh') = Len(evtCh) + 1
        /\ \A i \in 1 .. Len(evtCh) : evtCh'[i] = evtCh[i]
        /\ evtCh'[Len(evtCh) + 1] = e
    BY <1>4, <2>1, PostFacts
  <2>3. TypeOK'
    BY <1>1, <1>4, <2>2 DEF TypeOK
  <2>4. e # Shutdown
    <3>1. \A r \in Requests : r.type # Shutdown.type
      BY DEF Requests, Add, Del, Shutdown
    <3> QED BY <1>1, <2>1, <3>1
  <2>5. ClosesAfterShutdown'
    <3>1. \A i \in 1 .. Len(evtCh') : i \in 1 .. Len(evtCh) \/ i = Len(evtCh) + 1
      BY <2>2
    <3> QED BY <1>1, <2>2, <2>4, <3>1 DEF ClosesAfterShutdown
  <2>6. ASSUME closing = "no", NEW k \in Keys, wanted[k] # None PROVE Word(k)'
    <3>1. Word(k) /\ wanted[k] \in Periods
      BY <2>6 DEF LastWord, TypeOK
    <3>2. CASE e \notin About(k)
      BY <1>1, <1>4, <2>1, <2>6, <3>1, <3>2, WordPosted
    <3>3. CASE e \in About(k)
      <4>1. e = Add(k, wanted[k])
        BY <2>1, <3>1, <3>3 DEF Word, Settled, About
      <4>0. PICK n : n = Len(evtCh) + 1
        OBVIOUS
      <4>2. Promised(k, n)'
        <5>1. evtCh'[n] = Add(k, wanted'[k])
          BY <1>1, <2>2, <4>0, <4>1
        <5>2. ~\E j \in 1 .. Len(evtCh') : j > n
          BY <2>2, <4>0
        <5> QED BY <5>1, <5>2 DEF Promised
      <4>3. n \in 1 .. Len(evtCh')
        BY <2>2, <4>0
      <4>4. main' \notin About(k)
        BY <1>4, AboutForms
      <4> QED BY <4>2, <4>3, <4>4 DEF Word, About, Add, Del
    <3> QED BY <3>2, <3>3
  <2>7. LastWord'
    BY <1>1, <2>6 DEF LastWord
  <2> QED BY <1>2, <2>3, <2>5, <2>7
<1> QED BY <1>3, <1>4 DEF MainPosts

LEMMA MainServesStep ==
    ASSUME IInv, MainServes PROVE IInv'
<1> USE DEF IInv
<1>1. /\ srCh # <<>> /\ srCh' = Tail(srCh)
      /\ UNCHANGED <<evtCh, perioList, ticker, serve, main, closing, wanted>>
  BY DEF MainServes
<1>2. TypeOK'
  <2>1. srCh \in Seq(Seids) /\ Len(srCh) <= SrLen /\ SrLen \in Nat
    BY PerioConstants DEF TypeOK
  <2>2. srCh' \in Seq(Seids) /\ Len(srCh') <= SrLen
    BY <1>1, <2>1
  <2> QED BY <1>1, <2>2 DEF TypeOK
<1>3. GroupsHaveTickers' /\ ServeDoes'
  BY <1>1, ServeUntouched
<1>4. ClosesAfterShutdown'
  BY <1>1 DEF ClosesAfterShutdown
<1>5. LastWord'
  BY <1>1, WordKept DEF LastWord
<1> QED BY <1>2, <1>3, <1>4, <1>5

\* once the shutdown has begun nothing is promised any more
LEMMA ShutdownSteps ==
    ASSUME IInv, ShutdownStarts \/ MainReturns PROVE IInv'
<1> USE DEF IInv
<1>1. /\ closing' # "no" /\ closing' \in {"no", "post", "posted"} /\ main' \in Requests \cup {Idle, Down}
      /\ UNCHANGED <<evtCh, perioList, ticker, serve, srCh, wanted>>
  BY DEF ShutdownStarts, MainReturns, TypeOK
<1>2. TypeOK'
  BY <1>1 DEF TypeOK
<1>3. GroupsHaveTickers' /\ ServeDoes'
  BY <1>1, ServeUntouched
<1>4. ClosesAfterShutdown' /\ LastWord'
  BY <1>1 DEF ClosesAfterShutdown, LastWord
<1> QED BY <1>2, <1>3, <1>4

LEMMA ClosePostsStep ==
    ASSUME IInv, ClosePosts PROVE IInv'
<1> USE DEF IInv
<1>1. /\ Post(Shutdown) /\ closing' = "posted"
      /\ UNCHANGED <<perioList, ticker, serve, main, srCh, wanted>>
  BY DEF ClosePosts
<1>2. evtCh' \in Seq(Events) /\ Len(evtCh') <= EvtLen
  BY <1>1, PostFacts DEF Events
<1>3. TypeOK'
  BY <1>1, <1>2 DEF TypeOK
<1>4. GroupsHaveTickers' /\ ServeDoes'
  BY <1>1, ServeUntouched
<1>5. ClosesAfterShutdown' /\ LastWord'
  BY <1>1 DEF ClosesAfterShutdown, LastWord
<1> QED BY <1>3, <1>4, <1>5

LEMMA TickStep ==
    ASSUME IInv, NEW p \in Periods, Tick(p) PROVE IInv'
<1> USE DEF IInv
<1>1. /\ ticker[p] = "wait" /\ ticker' = [ticker EXCEPT ![p] = "post"]
      /\ UNCHANGED <<evtCh, perioList, serve, main, srCh, closing, wanted>>
  BY DEF Tick
<1>2. /\ ticker' \in [Periods -> {"none", "wait", "post"}]
      /\ \A q \in Periods : ticker'[q] = "none" <=> ticker[q] = "none"
  BY <1>1 DEF TypeOK
<1>3. TypeOK'
  BY <1>1, <1>2 DEF TypeOK
<1>4. GroupsHaveTickers' /\ ServeDoes'
  BY <1>1, <1>2, ServeUntouched
<1>5. ClosesAfterShutdown'
  BY <1>1 DEF ClosesAfterShutdown
<1>6. LastWord'
  BY <1>1, WordKept DEF LastWord
<1> QED BY <1>3, <1>4, <1>5, <1>6

LEMMA TickerPostsStep ==
    ASSUME IInv, NEW p \in Periods, TickerPosts(p) PROVE IInv'
<1> USE DEF IInv
<1>1. /\ ticker[p] = "post" /\ ticker' = [ticker EXCEPT ![p] = "wait"] /\ Post(Timeout(p))
      /\ UNCHANGED <<perioList, serve, main, srCh, closing, wanted>>
  BY DEF TickerPosts
<1>2. /\ ticker' \in [Periods -> {"none", "wait", "post"}]
      /\ \A q \in Periods : ticker'[q] = "none" <=> ticker[q] = "none"
  BY <1>1 DEF TypeOK
<1>3. PICK e \in Events : e = Timeout(p)
  BY DEF Events
<1>4. /\ evtCh' \in Seq(Events) /\ Len(evtCh') <= EvtLen
      /\ Len(evtCh) \in Nat /\ Len(evtCh') = Len(evtCh) + 1
      /\ \A i \in 1 .. Len(evtCh) : evtCh'[i] = evtCh[i]
      /\ evtCh'[Len(evtCh) + 1] = e
  BY <1>1, <1>3, PostFacts
<1>5. TypeOK'
  BY <1>1, <1>2, <1>4 DEF TypeOK
<1>6. GroupsHaveTickers' /\ ServeDoes'
  BY <1>1, <1>2, ServeUntouched
<1>7. ClosesAfterShutdown'
  <2>1. \A i \in 1 .. Len(evtCh') : i \in 1 .. Len(evtCh) \/ i = Len(evtCh) + 1
    BY <1>4
  <2>2. e # Shutdown
    BY <1>3 DEF Timeout, Shutdown
  <2> QED BY <1>1, <1>4, <2>1, <2>2 DEF ClosesAfterShutdown
<1>8. ASSUME closing = "no", NEW k \in Keys, wanted[k] # None PROVE Word(k)'
  <2>1. e \notin About(k) /\ Word(k)
    BY <1>3, <1>8, AboutForms DEF LastWord
  <2> QED BY <1>1, <1>3, <1>8, <2>1, WordPosted
<1>9. LastWord'
  BY <1>1, <1>8 DEF LastWord
<1> QED BY <1>5, <1>6, <1>7, <1>9

-----------------------------------------------------------------------------
(* Serve                                                                   *)

\* what is left in evtCh when Serve has taken an event
LEMMA ClosesTaken ==
    ASSUME IInv, NEW type, Takes(type), serve'.at \notin {"close", "stopped"}
    PROVE  ClosesAfterShutdown'
<1>1. /\ Len(evtCh) \in Nat /\ Len(evtCh') = Len(evtCh) - 1
      /\ \A i \in 1 .. Len(evtCh) - 1 : evtCh'[i] = evtCh[i + 1]
      /\ UNCHANGED closing
  BY TakesFacts DEF IInv
<1>2. ASSUME closing = "no", NEW i \in 1 .. Len(evtCh') PROVE evtCh'[i] # Shutdown
  <2>1. i + 1 \in 1 .. Len(evtCh) /\ evtCh'[i] = evtCh[i + 1]
    BY <1>1
  <2> QED BY <1>2, <2>1 DEF IInv, ClosesAfterShutdown
<1> QED BY <1>1, <1>2 DEF ClosesAfterShutdown

LEMMA HandleAddStep ==
    ASSUME IInv, HandleAdd PROVE IInv'
<1> USE DEF IInv
<1>1. Takes("ADD") /\ UNCHANGED serve
  BY DEF HandleAdd
<1>2. /\ Head(evtCh) \in Events /\ Head(evtCh).type = "ADD"
      /\ evtCh' \in Seq(Events) /\ Len(evtCh') <= EvtLen
      /\ serve.at = "loop" /\ UNCHANGED <<main, srCh, closing, wanted>>
  BY <1>1, TakesFacts
<1>3. PICK k \in Keys, p \in Periods : Head(evtCh) = Add(k, p)
  BY <1>2, EventForms
<1>4. /\ perioList' = [perioList EXCEPT ![p] = @ \cup {k}]
      /\ ticker' = [ticker EXCEPT ![p] = IF perioList[p] = {} THEN "wait" ELSE @]
  <2>1. Head(evtCh).key = k /\ Head(evtCh).period = p
    BY <1>3, EventForms
  <2> QED BY <2>1 DEF HandleAdd
<1>5. /\ perioList' \in [Periods -> SUBSET Keys] /\ perioList'[p] = perioList[p] \cup {k}
      /\ \A q \in Periods : q # p => perioList'[q] = perioList[q]
  BY <1>4 DEF TypeOK
<1>6. /\ ticker' \in [Periods -> {"none", "wait", "post"}]
      /\ ticker'[p] = IF perioList[p] = {} THEN "wait" ELSE ticker[p]
      /\ \A q \in Periods : q # p => ticker'[q] = ticker[q]
  BY <1>4 DEF TypeOK
<1>7. TypeOK'
  BY <1>1, <1>2, <1>5, <1>6 DEF TypeOK
<1>8. GroupsHaveTickers'
  <2>1. ASSUME NEW q \in Periods PROVE ticker'[q] # "none" <=> perioList'[q] # {}
    <3>1. ticker[q] # "none" <=> perioList[q] # {}
      BY <1>2 DEF GroupsHaveTickers
    <3> QED BY <1>5, <1>6, <3>1
  <2> QED BY <1>1, <1>2, <2>1 DEF GroupsHaveTickers
<1>9. ServeDoes' /\ ClosesAfterShutdown'
  <2>1. ServeDoes'
    BY <1>1, <1>2 DEF ServeDoes
  <2> QED BY <1>1, <1>2, <2>1, ClosesTaken
<1>10. ASSUME closing = "no", NEW j \in Keys, wanted[j] # None PROVE Word(j)'
  <2>1. Word(j) /\ wanted[j] \in Periods
    BY <1>10 DEF LastWord, TypeOK
  <2>2. j \in perioList[wanted[j]] => j \in perioList'[wanted[j]]
    BY <1>5, <2>1
  <2>3. \/ Head(evtCh) \notin About(j)
        \/ Head(evtCh) = Add(j, wanted[j]) /\ j \in perioList'[wanted[j]]
        \/ \E q \in Periods \ {wanted[j]} : Head(evtCh) = Add(j, q)
    <3>1. CASE j # k
      BY <1>3, <3>1, AboutForms
    <3>2. CASE j = k /\ wanted[j] = p
      BY <1>3, <1>5, <3>2
    <3>3. CASE j = k /\ wanted[j] # p
      BY <1>3, <3>3
    <3> QED BY <3>1, <3>2, <3>3
  <2> QED BY <1>1, <1>10, <2>1, <2>2, <2>3, WordTaken
<1>11. LastWord'
  BY <1>2, <1>10 DEF LastWord
<1> QED BY <1>7, <1>8, <1>9, <1>11

\* a DEL about k is behind what main asked for, or main wants no timer
LEMMA DelIsOvertaken ==
    ASSUME IInv, NEW k \in Keys, closing = "no", wanted[k] # None,
           Takes("DEL"), Head(evtCh) = Del(k)
    PROVE  Word(k)'
<1> USE DEF IInv
<1>1. /\ Head(evtCh) = evtCh[1]
      /\ Len(evtCh) \in Nat /\ Len(evtCh) > 0 /\ Len(evtCh') = Len(evtCh) - 1
      /\ \A i \in 1 .. Len(evtCh) - 1 : evtCh'[i] = evtCh[i + 1]
      /\ UNCHANGED <<main, wanted>>
  BY TakesFacts
<1>2. Word(k) /\ wanted[k] \in Periods
  BY DEF LastWord, TypeOK
<1>3. ~Settled(k)
  BY <1>1 DEF Settled
<1>4. CASE main = Add(k, wanted[k])
  BY <1>1, <1>4 DEF Word
<1>5. ASSUME main \notin About(k), NEW i \in 1 .. Len(evtCh), Promised(k, i) PROVE Word(k)'
  <2>1. i # 1
    BY <1>1, <1>2, <1>5, AboutForms DEF Promised
  <2>2. i - 1 \in 1 .. Len(evtCh') /\ evtCh'[i - 1] = Add(k, wanted'[k])
    BY <1>1, <1>5, <2>1 DEF Promised
  <2>3. ASSUME NEW j \in 1 .. Len(evtCh'), j > i - 1 PROVE evtCh'[j] \notin About(k)
    <3>1. j + 1 \in 1 .. Len(evtCh) /\ j + 1 > i /\ evtCh'[j] = evtCh[j + 1]
      BY <1>1, <2>3
    <3> QED BY <1>5, <3>1 DEF Promised
  <2>4. Promised(k, i - 1)'
    BY <2>2, <2>3 DEF Promised, About, Add, Del
  <2> QED BY <1>1, <1>5, <2>2, <2>4 DEF Word, About, Add, Del
<1> QED BY <1>2, <1>3, <1>4, <1>5 DEF Word

LEMMA HandleDelStep ==
    ASSUME IInv, HandleDel PROVE IInv'
<1> USE DEF IInv
<1>1. Takes("DEL") /\ UNCHANGED ticker
  BY DEF HandleDel
<1>2. /\ Head(evtCh) \in Events /\ Head(evtCh).type = "DEL"
      /\ evtCh' \in Seq(Events) /\ Len(evtCh') <= EvtLen
      /\ serve.at = "loop" /\ UNCHANGED <<main, srCh, closing, wanted>>
  BY <1>1, TakesFacts
<1>3. PICK k \in Keys : Head(evtCh) = Del(k)
  BY <1>2, EventForms
<1>4. Head(evtCh).key = k
  BY <1>3 DEF Del
\* what the step does to the groups and to Serve
<1>5. /\ perioList' \in [Periods -> SUBSET Keys]
      /\ \A q \in Periods, j \in Keys : j # k /\ j \in perioList[q] => j \in perioList'[q]
      /\ serve'.at \in {"loop", "del"} /\ serve'.todo \in Seq(Periods)
      /\ GroupsHaveTickers' /\ ServeDoes'
  <2>1. CASE UNCHANGED <<perioList, serve>>
    <3>1. GroupsHaveTickers' /\ ServeDoes'
      BY <1>1, <2>1, ServeUntouched
    <3> QED BY <1>2, <2>1, <3>1 DEF TypeOK
  <2>2. ASSUME NEW p \in Periods, k \in perioList[p],
               perioList' = [perioList EXCEPT ![p] = @ \ {k}],
               serve' = IF perioList[p] = {k} THEN [at |-> "del", todo |-> <<p>>] ELSE serve
        PROVE  <1>5!:
    <3>1. /\ perioList' \in [Periods -> SUBSET Keys] /\ perioList'[p] = perioList[p] \ {k}
          /\ \A q \in Periods : q # p => perioList'[q] = perioList[q]
      BY <2>2 DEF TypeOK
    <3>2. \A q \in Periods : ticker[q] # "none" <=> perioList[q] # {}
      BY <1>2 DEF GroupsHaveTickers
    <3>3. CASE perioList[p] = {k}
      <4>1. serve' = [at |-> "del", todo |-> <<p>>] /\ serve'.at = "del" /\ serve'.todo = <<p>>
        BY <2>2, <3>3
      <4>2. perioList'[p] = {}
        BY <3>1, <3>3
      <4>3. \A q \in Periods : <<p>> = <<q>> => p = q
        OBVIOUS
      <4>4. ASSUME NEW q \in Periods
            PROVE  ticker'[q] # "none" <=> perioList'[q] # {} \/ (serve'.at = "del" /\ serve'.todo = <<q>>)
        BY <1>1, <3>1, <3>2, <3>3, <4>1, <4>2, <4>3
      <4>5. GroupsHaveTickers'
        BY <4>4 DEF GroupsHaveTickers
      <4>6. ServeDoes'
        BY <4>1, <4>2 DEF ServeDoes
      <4>7. <<p>> \in Seq(Periods)
        OBVIOUS
      <4> QED BY <3>1, <4>1, <4>5, <4>6, <4>7
    <3>4. CASE perioList[p] # {k}
      <4>1. serve' = serve /\ perioList'[p] # {}
        BY <2>2, <3>1, <3>4
      <4>2. GroupsHaveTickers'
        BY <1>1, <1>2, <2>2, <3>1, <3>2, <4>1 DEF GroupsHaveTickers
      <4>3. ServeDoes'
        BY <1>2, <4>1 DEF ServeDoes
      <4> QED BY <1>2, <3>1, <4>1, <4>2, <4>3 DEF TypeOK
    <3> QED BY <3>3, <3>4
  <2> QED BY <1>4, <2>1, <2>2 DEF HandleDel
<1>6. TypeOK'
  BY <1>1, <1>2, <1>5 DEF TypeOK
<1>7. ClosesAfterShutdown'
  BY <1>1, <1>5, ClosesTaken
<1>8. ASSUME closing = "no", NEW j \in Keys, wanted[j] # None PROVE Word(j)'
  <2>1. Word(j) /\ wanted[j] \in Periods
    BY <1>8 DEF LastWord, TypeOK
  <2>2. CASE j = k
    BY <1>1, <1>3, <1>8, <2>2, DelIsOvertaken
  <2>3. CASE j # k
    <3>1. Head(evtCh) \notin About(j)
      BY <1>3, <2>3, AboutForms
    <3>2. j \in perioList[wanted[j]] => j \in perioList'[wanted[j]]
      BY <1>5, <2>1, <2>3
    <3> QED BY <1>1, <1>8, <2>1, <3>1, <3>2, WordTaken
  <2> QED BY <2>2, <2>3
<1>9. LastWord'
  BY <1>2, <1>8 DEF LastWord
<1> QED BY <1>5, <1>6, <1>7, <1>9

LEMMA HandleTimeoutStep ==
    ASSUME IInv, HandleTimeout PROVE IInv'
<1> USE DEF IInv
<1>1. Takes("TIMEOUT") /\ UNCHANGED <<perioList, ticker>>
  BY DEF HandleTimeout
<1>2. /\ Head(evtCh) \in Events /\ Head(evtCh).type = "TIMEOUT"
      /\ evtCh' \in Seq(Events) /\ Len(evtCh') <= EvtLen
      /\ serve.at = "loop" /\ UNCHANGED <<main, srCh, closing, wanted>>
  BY <1>1, TakesFacts
<1>3. PICK p \in Periods : Head(evtCh) = Timeout(p)
  BY <1>2, EventForms
<1>4. PICK got \in SUBSET {SeidOf[k] : k \in perioList[p]} : \E order \in SetToSeqs(got) :
          serve' = IF got = {} THEN serve ELSE [at |-> "notify", todo |-> order]
  <2>1. Head(evtCh).period = p
    BY <1>3 DEF Timeout
  <2> QED BY <2>1 DEF HandleTimeout
<1>5. PICK order \in SetToSeqs(got) :
          serve' = IF got = {} THEN serve ELSE [at |-> "notify", todo |-> order]
  BY <1>4
<1>6. got \in SUBSET Seids /\ IsFiniteSet(got)
  <2>1. perioList[p] \in SUBSET Keys /\ IsFiniteSet(perioList[p])
    BY PerioConstants, FS_Subset DEF TypeOK
  <2>2. IsFiniteSet({SeidOf[k] : k \in perioList[p]})
    <3>1. [k \in perioList[p] |-> SeidOf[k]] \in Surjection(perioList[p], {SeidOf[k] : k \in perioList[p]})
      BY DEF Surjection
    <3> QED BY <2>1, <3>1, FS_Surjection
  <2>3. {SeidOf[k] : k \in perioList[p]} \subseteq Seids
    BY <2>1, PerioConstants
  <2> QED BY <1>4, <2>2, <2>3, FS_Subset
<1>7. order \in Seq(got) /\ (got # {} => order # <<>>)
  BY <1>6, SetToSeqsType
<1>8. /\ serve' = [at |-> serve'.at, todo |-> serve'.todo] /\ serve'.at \in {"loop", "notify"}
      /\ serve'.at = "loop" => serve'.todo \in Seq(Periods)
      /\ serve'.at = "notify" => serve'.todo \in Seq(Seids) /\ serve'.todo # <<>>
  <2>1. CASE got = {}
    BY <1>2, <1>5, <2>1 DEF ServeDoes, TypeOK
  <2>2. CASE got # {}
    <3>1. serve' = [at |-> "notify", todo |-> order]
      BY <1>5, <2>2
    <3>2. order \in Seq(Seids)
      BY <1>6, <1>7
    <3> QED BY <1>7, <2>2, <3>1, <3>2
  <2> QED BY <2>1, <2>2
<1>9. TypeOK'
  BY <1>1, <1>2, <1>8 DEF TypeOK
<1>10. GroupsHaveTickers' /\ ServeDoes'
  BY <1>1, <1>2, <1>8 DEF GroupsHaveTickers, ServeDoes
<1>11. ClosesAfterShutdown'
  BY <1>1, <1>8, ClosesTaken
<1>12. LastWord'
  <2>1. ASSUME closing = "no", NEW j \in Keys, wanted[j] # None PROVE Word(j)'
    <3>1. Word(j) /\ Head(evtCh) \notin About(j)
      BY <1>3, <2>1, AboutForms DEF LastWord
    <3> QED BY <1>1, <2>1, <3>1, WordTaken
  <2> QED BY <1>2, <2>1 DEF LastWord
<1> QED BY <1>9, <1>10, <1>11, <1>12

LEMMA NotifySessReportStep ==
    ASSUME IInv, NotifySessReport PROVE IInv'
<1> USE DEF IInv
<1>1. serve.at = "notify" /\ UNCHANGED <<evtCh, perioList, ticker, main, closing, wanted>>
  BY DEF NotifySessReport
<1>2. serve.todo \in Seq(Seids) /\ serve.todo # <<>> /\ serve = [at |-> serve.at, todo |-> serve.todo]
  BY <1>1 DEF TypeOK, ServeDoes
<1>3. /\ srCh' \in Seq(Seids) /\ Len(srCh') <= SrLen
      /\ serve' = [at |-> serve'.at, todo |-> serve'.todo] /\ serve'.at \in {"loop", "notify", "panicked"}
      /\ serve'.at # "notify" => serve'.todo = <<>>
      /\ serve'.at = "notify" => serve'.todo \in Seq(Seids) /\ serve'.todo # <<>>
  <2>1. srCh \in Seq(Seids) /\ Len(srCh) <= SrLen /\ SrLen \in Nat
    BY PerioConstants DEF TypeOK
  <2>2. CASE serve' = [at |-> "panicked", todo |-> <<>>] /\ UNCHANGED srCh
    BY <2>1, <2>2
  <2>3. CASE /\ Len(srCh) < SrLen /\ srCh' = Append(srCh, Head(serve.todo))
             /\ serve' = IF Len(serve.todo) = 1 THEN Loop ELSE [serve EXCEPT !.todo = Tail(@)]
    <3>1. PICK todo \in Seq(Seids) : todo = serve.todo
      BY <1>2
    <3>2. Head(todo) \in Seids /\ Len(todo) \in Nat /\ Len(todo) > 0 /\ Tail(todo) \in Seq(Seids)
      BY <1>2, <3>1
    <3>3. srCh' \in Seq(Seids) /\ Len(srCh') <= SrLen
      BY <2>1, <2>3, <3>1, <3>2
    <3>4. CASE Len(todo) = 1
      BY <2>3, <3>1, <3>3, <3>4 DEF Loop
    <3>5. CASE Len(todo) # 1
      <4>1. serve' = [at |-> "notify", todo |-> Tail(todo)]
        BY <1>1, <1>2, <2>3, <3>1, <3>5
      <4>2. Len(Tail(todo)) = Len(todo) - 1 /\ Len(todo) - 1 # 0
        BY <1>2, <3>1, <3>2, <3>5
      <4>3. Tail(todo) # <<>>
        BY <4>2
      <4> QED BY <3>2, <3>3, <4>1, <4>3
    <3> QED BY <3>4, <3>5
  <2> QED BY <2>2, <2>3 DEF NotifySessReport
<1>4. TypeOK'
  <2>1. <<>> \in Seq(Periods)
    OBVIOUS
  <2> QED BY <1>1, <1>3, <2>1 DEF TypeOK
<1>5. GroupsHaveTickers' /\ ServeDoes'
  BY <1>1, <1>3 DEF GroupsHaveTickers, ServeDoes
<1>6. ClosesAfterShutdown'
  BY <1>1, <1>3 DEF ClosesAfterShutdown
<1>7. LastWord'
  BY <1>1, WordKept DEF LastWord
<1> QED BY <1>4, <1>5, <1>6, <1>7

\* a CLOSE is taken only after the shutdown began
LEMMA HandleCloseStep ==
    ASSUME IInv, HandleClose PROVE IInv'
<1> USE DEF IInv
<1>1. Takes("CLOSE") /\ UNCHANGED <<perioList, ticker>>
  BY DEF HandleClose
<1>2. /\ Head(evtCh) \in Events /\ Head(evtCh).type = "CLOSE" /\ Head(evtCh) = evtCh[1]
      /\ evtCh' \in Seq(Events) /\ Len(evtCh') <= EvtLen /\ Len(evtCh) \in Nat /\ Len(evtCh) > 0
      /\ serve.at = "loop" /\ UNCHANGED <<main, srCh, closing, wanted>>
  BY <1>1, TakesFacts
<1>3. closing # "no"
  <2>1. evtCh[1] = Shutdown /\ 1 \in 1 .. Len(evtCh)
    BY <1>2, EventForms
  <2> QED BY <2>1 DEF ClosesAfterShutdown
<1>4. PICK order \in SetToSeqs({p \in Periods : perioList[p] # {}}) : serve' = [at |-> "close", todo |-> order]
  BY DEF HandleClose
<1>5. order \in Seq(Periods)
  <2>1. IsFiniteSet({p \in Periods : perioList[p] # {}})
    BY PerioConstants, FS_Subset
  <2>2. order \in Seq({p \in Periods : perioList[p] # {}})
    BY <2>1, SetToSeqsType
  <2> QED BY <2>2
<1>6. TypeOK'
  BY <1>1, <1>2, <1>4, <1>5 DEF TypeOK
<1>7. GroupsHaveTickers' /\ ServeDoes'
  BY <1>1, <1>2, <1>4 DEF GroupsHaveTickers, ServeDoes
<1>8. ClosesAfterShutdown' /\ LastWord'
  BY <1>2, <1>3 DEF ClosesAfterShutdown, LastWord
<1> QED BY <1>6, <1>7, <1>8

\* the group that loses its ticker is empty, or the server is closing
LEMMA StopTickerStep ==
    ASSUME IInv, StopTicker PROVE IInv'
<1> USE DEF IInv
<1>1. /\ serve.at \in {"del", "close"} /\ serve.todo # <<>>
      /\ UNCHANGED <<evtCh, main, srCh, closing, wanted>>
      /\ serve.todo \in Seq(Periods)
  BY DEF StopTicker, TypeOK
<1>2. PICK todo \in Seq(Periods), p \in Periods : todo = serve.todo /\ p = Head(todo)
  BY <1>1
<1>3. /\ ticker' = [ticker EXCEPT ![p] = "none"] /\ perioList' = [perioList EXCEPT ![p] = {}]
      /\ serve' = IF serve.at = "del" THEN Loop ELSE [serve EXCEPT !.todo = Tail(@)]
  BY <1>2 DEF StopTicker
<1>4. /\ ticker' \in [Periods -> {"none", "wait", "post"}] /\ perioList' \in [Periods -> SUBSET Keys]
      /\ ticker'[p] = "none" /\ perioList'[p] = {}
      /\ \A q \in Periods : q # p => ticker'[q] = ticker[q] /\ perioList'[q] = perioList[q]
  BY <1>3 DEF TypeOK
<1>5. CASE serve.at = "del"
  <2>1. PICK q \in Periods : serve.todo = <<q>> /\ perioList[q] = {}
    BY <1>5 DEF ServeDoes
  <2>2. q = p
    BY <1>2, <2>1
  <2>3. perioList' = perioList
    BY <1>3, <1>4, <2>1, <2>2 DEF TypeOK
  <2>4. serve' = Loop /\ serve'.at = "loop" /\ serve'.todo = <<>>
    BY <1>3, <1>5 DEF Loop
  <2>5. <<>> \in Seq(Periods)
    OBVIOUS
  <2>6. TypeOK'
    BY <1>1, <1>4, <2>4, <2>5 DEF TypeOK
  <2>7. GroupsHaveTickers'
    <3>1. ASSUME NEW r \in Periods PROVE ticker'[r] # "none" <=> perioList'[r] # {}
      <4>1. r # p => <<p>> # <<r>>
        OBVIOUS
      <4> QED BY <1>4, <2>1, <2>2, <2>3, <4>1 DEF GroupsHaveTickers
    <3> QED BY <2>4, <3>1 DEF GroupsHaveTickers
  <2>8. ServeDoes' /\ ClosesAfterShutdown'
    BY <1>1, <2>4 DEF ServeDoes, ClosesAfterShutdown, Loop
  <2>9. LastWord'
    BY <1>1, <2>3, WordKept DEF LastWord
  <2> QED BY <2>6, <2>7, <2>8, <2>9
<1>6. CASE serve.at = "close"
  <2>1. closing # "no"
    BY <1>6 DEF ClosesAfterShutdown
  <2>2. serve' = [at |-> "close", todo |-> Tail(todo)]
    BY <1>2, <1>3, <1>6 DEF ServeDoes
  <2>3. serve'.at = "close" /\ serve'.todo \in Seq(Periods)
    BY <1>1, <1>2, <2>2
  <2>4. TypeOK'
    BY <1>1, <1>4, <2>3 DEF TypeOK
  <2>5. GroupsHaveTickers'
    BY <1>4, <1>6, <2>3 DEF GroupsHaveTickers
  <2>6. ServeDoes'
    BY <2>2 DEF ServeDoes
  <2>7. ClosesAfterShutdown' /\ LastWord'
    BY <1>1, <2>1 DEF ClosesAfterShutdown, LastWord
  <2> QED BY <2>4, <2>5, <2>6, <2>7
<1> QED BY <1>1, <1>5, <1>6

LEMMA ServeReturnsStep ==
    ASSUME IInv, ServeReturns PROVE IInv'
<1> USE DEF IInv
<1>1. /\ serve.at = "close" /\ serve' = [at |-> "stopped", todo |-> <<>>]
      /\ UNCHANGED <<evtCh, perioList, ticker, main, srCh, closing, wanted>>
  BY DEF ServeReturns
<1>2. closing # "no"
  BY <1>1 DEF ClosesAfterShutdown
<1>3. TypeOK'
  BY <1>1 DEF TypeOK
<1>4. GroupsHaveTickers' /\ ServeDoes'
  BY <1>1 DEF GroupsHaveTickers, ServeDoes
<1>5. ClosesAfterShutdown' /\ LastWord'
  BY <1>1, <1>2 DEF ClosesAfterShutdown, LastWord
<1> QED BY <1>3, <1>4, <1>5

-----------------------------------------------------------------------------
(* Theorems                                                                *)

LEMMA InvariantStep == IInv /\ [Next]_vars => IInv'
<1> SUFFICES ASSUME IInv, [Next]_vars PROVE IInv'
  OBVIOUS
<1>1. CASE UNCHANGED vars
  <2>1. UNCHANGED <<evtCh, perioList, ticker, serve, main, srCh, closing, wanted>>
    BY <1>1 DEF vars
  <2>2. TypeOK' /\ GroupsHaveTickers' /\ ServeDoes' /\ ClosesAfterShutdown'
    BY <2>1 DEF IInv, TypeOK, GroupsHaveTickers, ServeDoes, ClosesAfterShutdown
  <2>3. LastWord'
    BY <2>1, WordKept DEF IInv, LastWord
  <2> QED BY <2>2, <2>3 DEF IInv
<1>2. ASSUME NEW k \in Keys, NEW p \in Periods, CreateURR(k, p) PROVE IInv'
  BY <1>2, CreateURRStep
<1>3. ASSUME NEW k \in Keys, RemoveURR(k) PROVE IInv'
  BY <1>3, RemoveURRStep
<1>4. CASE MainPosts \/ MainServes \/ MainReturns \/ ShutdownStarts \/ ClosePosts
  BY <1>4, MainPostsStep, MainServesStep, ShutdownSteps, ClosePostsStep
<1>5. ASSUME NEW p \in Periods, Tick(p) \/ TickerPosts(p) PROVE IInv'
  BY <1>5, TickStep, TickerPostsStep
<1>6. CASE Serve
  BY <1>6, HandleAddStep, HandleDelStep, HandleTimeoutStep, HandleCloseStep,
     NotifySessReportStep, StopTickerStep, ServeReturnsStep DEF Serve
<1> QED BY <1>1, <1>2, <1>3, <1>4, <1>5, <1>6 DEF Next

LEMMA Invariant == Spec => []IInv
BY InitInvariant, InvariantStep, PTL DEF Spec

\* evtCh and srCh never hold more than they were made for, and groups, tickers
\* and the work of Serve keep their types.
THEOREM TypeCorrect == Spec => []TypeOK
<1>1. IInv => TypeOK
  BY DEF IInv
<1> QED BY <1>1, Invariant, PTL

\* newTicker and stopTicker pair up for every sequence of ADD, DEL, TIMEOUT
\* and CLOSE events: a period has a ticker goroutine exactly while its group
\* has a URR, or while Serve is stopping the ticker of the group it emptied.
THEOREM TickerPerGroup == Spec => []GroupsHaveTickers
<1>1. IInv => GroupsHaveTickers
  BY DEF IInv
<1> QED BY <1>1, Invariant, PTL

\* AddPeriodReportTimer is not undone by an earlier DEL of the same URR, by a
\* DEL of another one or by the ticker of an emptied group: until the shutdown
\* a URR with no event on its way is in the group of the period main asked for.
THEOREM TimersAreKept == Spec => []TimersKept
<1>1. ASSUME IInv PROVE TimersKept
  <2>1. ASSUME closing = "no", NEW k \in Keys, Settled(k), wanted[k] # None
        PROVE  k \in perioList[wanted[k]]
    <3>1. Word(k) /\ wanted[k] \in Periods
      BY <1>1, <2>1 DEF IInv, LastWord, TypeOK
    <3>2. main # Add(k, wanted[k])
      BY <2>1, <3>1 DEF Settled
    <3>3. ~\E i \in 1 .. Len(evtCh) : Promised(k, i)
      BY <2>1, <3>1 DEF Settled, Promised
    <3> QED BY <3>1, <3>2, <3>3 DEF Word
  <2> QED BY <2>1 DEF TimersKept
<1> QED BY <1>1, Invariant, PTL
=============================================================================
