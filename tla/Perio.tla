------------------------------- MODULE Perio --------------------------------
(***************************************************************************)
(* The periodic-report server of the gtp5g driver                          *)
(* (internal/forwarder/perio/server.go).                                   *)
(*                                                                         *)
(* Processes: Serve, which owns perioList and reads evtCh; one ticker      *)
(* goroutine per period in use, which posts TIMEOUT events to evtCh; the   *)
(* PFCP `main' goroutine, which posts ADD and DEL events while it handles  *)
(* requests and otherwise empties srCh; and the shutdown, which posts      *)
(* CLOSE.  Every send blocks while its channel is full.  Serve blocks      *)
(* twice more: a ticker is stopped by a rendezvous on stopCh, and the      *)
(* reports of a timeout are sent to srCh.                                  *)
(***************************************************************************)
EXTENDS Naturals, Sequences, FiniteSets, SequencesExt

CONSTANTS
    Keys,      \* the URRs, each a pair of local SEID and URR ID in the code
    Seids,     \* local SEIDs
    SeidOf,    \* SeidOf[k]: the session of URR k
    Periods,   \* measurement periods
    None,      \* no period
    EvtLen,    \* EVENT_CHANNEL_LEN
    SrLen      \* REPORT_CHANNEL_LEN of the PFCP server

ASSUME PerioConstants ==
    /\ IsFiniteSet(Keys) /\ IsFiniteSet(Periods)
    /\ SeidOf \in [Keys -> Seids]
    /\ None \notin Periods
    /\ EvtLen \in Nat \ {0}
    /\ SrLen \in Nat \ {0}

VARIABLES
    evtCh,      \* Server.evtCh
    perioList,  \* period -> URRs of its group; a group without URRs is deleted
    ticker,     \* the ticker goroutines: "none", "wait" in select, "post"ing
    serve,      \* Serve: where it is, and what it has still to do there
    main,       \* the event main is sending, or Idle
    srCh,       \* session reports for main (SEIDs)
    closing,    \* "no", "post"ing CLOSE, "posted"
    wanted      \* history: the period main asked for last, per URR

vars == <<evtCh, perioList, ticker, serve, main, srCh, closing, wanted>>

Add(k, p)  == [type |-> "ADD", key |-> k, period |-> p]
Del(k)     == [type |-> "DEL", key |-> k]
Timeout(p) == [type |-> "TIMEOUT", period |-> p]
Shutdown   == [type |-> "CLOSE"]
Idle       == [type |-> "IDLE"]
Down       == [type |-> "DOWN"]

Requests == {Add(k, p) : k \in Keys, p \in Periods} \cup {Del(k) : k \in Keys}
Events   == Requests \cup {Timeout(p) : p \in Periods} \cup {Shutdown}

\* Serve waits for an event; stops the tickers of the periods in todo, because
\* of DEL or of CLOSE; sends the reports of the sessions in todo; has returned;
\* or has panicked on a closed srCh
Loop == [at |-> "loop", todo |-> <<>>]

TypeOK ==
    /\ evtCh \in Seq(Events) /\ Len(evtCh) <= EvtLen
    /\ perioList \in [Periods -> SUBSET Keys]
    /\ ticker \in [Periods -> {"none", "wait", "post"}]
    /\ serve.at \in {"loop", "del", "close", "notify", "stopped", "panicked"}
    /\ serve.todo \in Seq(IF serve.at = "notify" THEN Seids ELSE Periods)
    /\ main \in Requests \cup {Idle, Down}
    /\ srCh \in Seq(Seids) /\ Len(srCh) <= SrLen
    /\ closing \in {"no", "post", "posted"}
    /\ wanted \in [Keys -> Periods \cup {None}]

Init ==
    /\ evtCh = <<>>
    /\ perioList = [p \in Periods |-> {}]
    /\ ticker = [p \in Periods |-> "none"]
    /\ serve = Loop
    /\ main = Idle
    /\ srCh = <<>>
    /\ closing = "no"
    /\ wanted = [k \in Keys |-> None]

Post(e) ==
    /\ serve.at # "stopped"
    /\ Len(evtCh) < EvtLen
    /\ evtCh' = Append(evtCh, e)

-----------------------------------------------------------------------------
(* The PFCP main goroutine                                                 *)

\* Gtp5g.CreateURR for a URR that reports periodically
CreateURR(k, p) ==
    /\ main = Idle
    /\ main' = Add(k, p)
    /\ wanted' = [wanted EXCEPT ![k] = p]
    /\ UNCHANGED <<evtCh, perioList, ticker, serve, srCh, closing>>

\* Gtp5g.RemoveURR, of any URR
RemoveURR(k) ==
    /\ main = Idle
    /\ main' = Del(k)
    /\ wanted' = [wanted EXCEPT ![k] = None]
    /\ UNCHANGED <<evtCh, perioList, ticker, serve, srCh, closing>>

\* AddPeriodReportTimer and DelPeriodReportTimer: the send; on the channel
\* that Serve closed it panics and the process ends
MainPosts ==
    /\ main \in Requests
    /\ \/ Post(main) /\ main' = Idle
       \/ serve.at = "stopped" /\ main' = Down /\ UNCHANGED evtCh
    /\ UNCHANGED <<perioList, ticker, serve, srCh, closing, wanted>>

\* main reads srCh
MainServes ==
    /\ main = Idle
    /\ srCh # <<>>
    /\ srCh' = Tail(srCh)
    /\ UNCHANGED <<evtCh, perioList, ticker, serve, main, closing, wanted>>

\* UpfApp.listenShutdownEvent closes the PFCP socket and then the driver; main
\* returns, and closes srCh, when it has seen the former
ShutdownStarts ==
    /\ closing = "no"
    /\ closing' = "post"
    /\ UNCHANGED <<evtCh, perioList, ticker, serve, main, srCh, wanted>>

MainReturns ==
    /\ closing # "no"
    /\ main = Idle
    /\ main' = Down
    /\ UNCHANGED <<evtCh, perioList, ticker, serve, srCh, closing, wanted>>

\* Server.Close
ClosePosts ==
    /\ closing = "post"
    /\ Post(Shutdown)
    /\ closing' = "posted"
    /\ UNCHANGED <<perioList, ticker, serve, main, srCh, wanted>>

-----------------------------------------------------------------------------
(* The ticker goroutines                                                   *)

\* mutant: the tick is posted over the limit of the channel
TickerPostsUnbounded(p) ==
    /\ ticker[p] = "post"
    /\ evtCh' = Append(evtCh, Timeout(p))
    /\ ticker' = [ticker EXCEPT ![p] = "wait"]
    /\ UNCHANGED <<perioList, serve, main, srCh, closing, wanted>>

\* case <-ticker.C
Tick(p) ==
    /\ ticker[p] = "wait"
    /\ ticker' = [ticker EXCEPT ![p] = "post"]
    /\ UNCHANGED <<evtCh, perioList, serve, main, srCh, closing, wanted>>

TickerPosts(p) ==
    /\ ticker[p] = "post"
    /\ Post(Timeout(p))
    /\ ticker' = [ticker EXCEPT ![p] = "wait"]
    /\ UNCHANGED <<perioList, serve, main, srCh, closing, wanted>>

-----------------------------------------------------------------------------
(* Serve                                                                   *)

\* Serve takes an event of this type
Takes(type) ==
    /\ serve.at = "loop"
    /\ evtCh # <<>> /\ Head(evtCh).type = type
    /\ evtCh' = Tail(evtCh)
    /\ UNCHANGED <<main, srCh, closing, wanted>>

\* mutant: a URR whose period has a ticker already is not added
HandleAddOnlyFirst ==
    /\ Takes("ADD")
    /\ LET e == Head(evtCh) IN
       /\ perioList' = [perioList EXCEPT ![e.period] = IF @ = {} THEN {e.key} ELSE @]
       /\ ticker' = [ticker EXCEPT ![e.period] = IF @ = "none" THEN "wait" ELSE @]
    /\ UNCHANGED serve

\* TYPE_PERIO_ADD: a new group gets a ticker
HandleAdd ==
    /\ Takes("ADD")
    /\ LET e == Head(evtCh) IN
       /\ perioList' = [perioList EXCEPT ![e.period] = @ \cup {e.key}]
       /\ ticker' = [ticker EXCEPT ![e.period] = IF perioList[e.period] = {} THEN "wait" ELSE @]
    /\ UNCHANGED serve

\* mutant: the ticker of an empty group is left running
HandleDelLeaksTicker ==
    /\ Takes("DEL")
    /\ LET k == Head(evtCh).key IN
       perioList' = [p \in Periods |-> perioList[p] \ {k}]
    /\ UNCHANGED <<serve, ticker>>

\* mutant: the ticker of a period without group is stopped, too
HandleDelStopsNone ==
    /\ Takes("DEL")
    /\ LET k == Head(evtCh).key IN
       \E p \in Periods :
          /\ perioList' = [perioList EXCEPT ![p] = @ \ {k}]
          /\ serve' = IF perioList[p] \subseteq {k} THEN [at |-> "del", todo |-> <<p>>] ELSE serve
    /\ UNCHANGED ticker

\* TYPE_PERIO_DEL: the first group found, in map order, loses the URR; an
\* empty group its ticker
HandleDel ==
    /\ Takes("DEL")
    /\ LET k == Head(evtCh).key IN
       \/ /\ \A p \in Periods : k \notin perioList[p]
          /\ UNCHANGED <<perioList, serve>>
       \/ \E p \in Periods :
             /\ k \in perioList[p]
             /\ perioList' = [perioList EXCEPT ![p] = @ \ {k}]
             /\ serve' = IF perioList[p] = {k} THEN [at |-> "del", todo |-> <<p>>] ELSE serve
    /\ UNCHANGED ticker

\* TYPE_PERIO_TIMEOUT: no group, no reports or a failed query end it;
\* otherwise the sessions that have reports are notified in map order
HandleTimeout ==
    /\ Takes("TIMEOUT")
    /\ LET asked == {SeidOf[k] : k \in perioList[Head(evtCh).period]} IN
       \E got \in SUBSET asked : \E order \in SetToSeqs(got) :
          serve' = IF got = {} THEN serve ELSE [at |-> "notify", todo |-> order]
    /\ UNCHANGED <<perioList, ticker>>

\* NotifySessReport, which panics when main has closed the channel
NotifySessReport ==
    /\ serve.at = "notify"
    /\ \/ /\ main # Down
          /\ Len(srCh) < SrLen
          /\ srCh' = Append(srCh, Head(serve.todo))
          /\ serve' = IF Len(serve.todo) = 1 THEN Loop ELSE [serve EXCEPT !.todo = Tail(@)]
       \/ /\ main = Down
          /\ serve' = [at |-> "panicked", todo |-> <<>>]
          /\ UNCHANGED srCh
    /\ UNCHANGED <<evtCh, perioList, ticker, main, closing, wanted>>

\* TYPE_SERVER_CLOSE: every ticker is to be stopped, in map order
HandleClose ==
    /\ Takes("CLOSE")
    /\ \E order \in SetToSeqs({p \in Periods : perioList[p] # {}}) :
          serve' = [at |-> "close", todo |-> order]
    /\ UNCHANGED <<perioList, ticker>>

\* stopTicker: the rendezvous needs the ticker to be in its select
StopTicker ==
    /\ serve.at \in {"del", "close"} /\ serve.todo # <<>>
    /\ LET p == Head(serve.todo) IN
       /\ ticker[p] = "wait"
       /\ ticker' = [ticker EXCEPT ![p] = "none"]
       /\ perioList' = [perioList EXCEPT ![p] = {}]
    /\ serve' = IF serve.at = "del" THEN Loop ELSE [serve EXCEPT !.todo = Tail(@)]
    /\ UNCHANGED <<evtCh, main, srCh, closing, wanted>>

\* Serve returns and closes evtCh
ServeReturns ==
    /\ serve = [at |-> "close", todo |-> <<>>]
    /\ serve' = [at |-> "stopped", todo |-> <<>>]
    /\ UNCHANGED <<evtCh, perioList, ticker, main, srCh, closing, wanted>>

Serve ==
    \/ HandleAdd \/ HandleDel \/ HandleTimeout \/ HandleClose
    \/ NotifySessReport \/ StopTicker \/ ServeReturns

Next ==
    \/ \E k \in Keys, p \in Periods : CreateURR(k, p)
    \/ \E k \in Keys : RemoveURR(k)
    \/ MainPosts \/ MainServes \/ MainReturns
    \/ ShutdownStarts \/ ClosePosts
    \/ \E p \in Periods : Tick(p) \/ TickerPosts(p)
    \/ Serve

Spec == Init /\ [][Next]_vars

\* Serve runs when it can; a goroutine blocked on a full channel is served in
\* FIFO order, so no other sender overtakes it for ever; main reads srCh again
\* and again between requests.  Ticks, requests and the shutdown need not come.
Fairness ==
    /\ WF_vars(Serve)
    /\ SF_vars(MainPosts) /\ SF_vars(ClosePosts)
    /\ SF_vars(MainServes)
    /\ \A p \in Periods : SF_vars(TickerPosts(p))

FairSpec == Spec /\ Fairness

-----------------------------------------------------------------------------
(* Properties                                                              *)

\* A ticker goroutine lives exactly as long as its group has a URR: none is
\* leaked, none is started twice, and a rendezvous on stopCh always has a
\* partner - the empty group in question is the one Serve is stopping.
GroupsHaveTickers ==
    \A p \in Periods :
        ticker[p] # "none" <=>
            \/ perioList[p] # {}
            \/ serve.at = "del" /\ serve.todo = <<p>>

\* nothing is on its way for the URR
Settled(k) ==
    /\ main \notin {Del(k)} \cup {Add(k, p) : p \in Periods}
    /\ \A i \in 1 .. Len(evtCh) : evtCh[i] \notin {Del(k)} \cup {Add(k, p) : p \in Periods}

\* Until the shutdown a URR created with a period is in the group of that
\* period once its event is handled, however ADDs, DELs and TIMEOUTs of this
\* and of other URRs are interleaved.
TimersKept ==
    closing = "no" =>
        \A k \in Keys : Settled(k) /\ wanted[k] # None => k \in perioList[wanted[k]]

\* The two ways in which the goroutines wait for each other for ever, both with
\* evtCh full: Serve waits to stop a ticker that waits to post its tick to
\* Serve (stopTicker), or Serve waits for room in srCh that only main makes,
\* and main waits to post a request to Serve.
StopsPostingTicker ==
    /\ serve.at \in {"del", "close"} /\ serve.todo # <<>>
    /\ ticker[Head(serve.todo)] = "post"

NotifiesPostingMain ==
    /\ serve.at = "notify" /\ Len(srCh) = SrLen
    /\ main \in Requests

CyclicWait == Len(evtCh) = EvtLen /\ (StopsPostingTicker \/ NotifiesPostingMain)

\* main wants reports of the URR, and it is not in the group of its period
Waits(k) == wanted[k] # None /\ k \notin perioList[wanted[k]]

\* Before the shutdown no URR waits for ever to get into the group of its
\* period, however many ticks and requests compete for evtCh and however often
\* main changes its mind: AddPeriodReportTimer returns and Serve gets to its
\* event.  The two cyclic waits above, which the code does not exclude, are the
\* only ways in which this can fail.
TimerStarts ==
    \A k \in Keys : Waits(k) ~> (~ Waits(k) \/ closing # "no" \/ CyclicWait)

\* "Notify each goroutine and wait them stopped" (app.go:104): after Close the
\* server and all its tickers end.  stopTicker breaks it: Serve waits for a
\* ticker that waits for room in evtCh.
CloseCompletes ==
    closing = "posted" ~>
        \/ serve.at = "panicked"
        \/ serve.at = "stopped" /\ \A p \in Periods : ticker[p] = "none"
=============================================================================
