----------------------------- MODULE RxLifetime -----------------------------
(***************************************************************************)
(* How long the server must remember a request (transaction.go): an        *)
(* RxTransaction lives RetransTimeout * (MaxRetrans + 1), computed in      *)
(* uint8, from the moment the request is first processed.  While it lives, *)
(* a copy of the request is answered from msgBuf; once it is gone, a copy  *)
(* would be handled as a new request: a second session established, rules  *)
(* created twice.                                                          *)
(*                                                                         *)
(* The module follows one request in discrete time.  The peer sends it at  *)
(* time 0 and repeats it every PeerTimeout until it is answered or         *)
(* PeerRetries copies were sent in vain.  A copy may be lost, delayed or   *)
(* duplicated, but is processed within MaxDelay or not at all (network and *)
(* time spent in rcvCh together).  The rx timeout may be processed late.   *)
(***************************************************************************)
EXTENDS PfcpConfig

CONSTANTS
    RetransTimeout,   \* cfg.Pfcp.RetransTimeout, in ticks
    PeerTimeout,      \* the peer's retransmission interval
    PeerRetries,      \* how often the peer repeats the request
    MaxDelay,         \* longest time from sending a copy to processing it
    Horizon           \* bound: the model's clock stops here

ASSUME LifetimeConstants ==
    /\ RetransTimeout \in Nat
    /\ PeerTimeout \in Nat
    /\ PeerRetries \in Nat
    /\ MaxDelay \in Nat
    /\ Horizon \in Nat

VARIABLES
    now,          \* the clock
    sends,        \* copies sent by the peer; PeerRetries + 1 when it is done
    inflight,     \* send times of the copies that may still be processed
    rx,           \* the transaction is in rxTrans
    deadline,     \* when its timer expires
    dispatched    \* how often the request was handed to reqDispacher

rxVars == <<now, sends, inflight, rx, deadline, dispatched>>

\* mutant: no allowance for the delay of the last copy
RxLifeShort == RetransTimeout * MaxRetrans

\* NewRxTransaction: MaxRetrans + 1 is a uint8 addition
RxLife == RetransTimeout * ((MaxRetrans + 1) % 256)

RxTypeOK ==
    /\ now \in Nat
    /\ sends \in 0 .. PeerRetries + 1
    /\ inflight \in SUBSET Nat
    /\ rx \in BOOLEAN
    /\ deadline \in Nat
    /\ dispatched \in Nat

RxInit ==
    /\ now = 0
    /\ sends = 0
    /\ inflight = {}
    /\ rx = FALSE
    /\ deadline = 0
    /\ dispatched = 0

-----------------------------------------------------------------------------

\* the peer sends the request or repeats it
PeerSend ==
    /\ sends <= PeerRetries
    /\ now = sends * PeerTimeout
    /\ sends' = sends + 1
    /\ inflight' = inflight \cup {now}
    /\ UNCHANGED <<now, rx, deadline, dispatched>>

\* the response reached the peer
PeerAnswered ==
    /\ dispatched > 0
    /\ sends <= PeerRetries
    /\ sends' = PeerRetries + 1
    /\ UNCHANGED <<now, inflight, rx, deadline, dispatched>>

\* a copy is lost, or its last duplicate was processed
Vanish(c) ==
    /\ inflight' = inflight \ {c}
    /\ UNCHANGED <<now, sends, rx, deadline, dispatched>>

\* main processes a copy: a new transaction is dispatched, ...
RecvNew(c) ==
    /\ c \in inflight
    /\ ~rx
    /\ rx' = TRUE
    /\ deadline' = now + RxLife
    /\ dispatched' = dispatched + 1
    /\ UNCHANGED <<now, sends, inflight>>

\* ... a copy of a request already handled gets the stored response
RecvAgain(c) ==
    /\ c \in inflight
    /\ rx
    /\ inflight' = inflight \ {c}
    /\ UNCHANGED <<now, sends, rx, deadline, dispatched>>

\* RxTransaction.handleTimeout, at or after the deadline
RxTimeout ==
    /\ rx
    /\ deadline <= now
    /\ rx' = FALSE
    /\ UNCHANGED <<now, sends, inflight, deadline, dispatched>>

\* time passes, but not beyond a send that is due nor a copy's last moment
Tick ==
    /\ now < Horizon
    /\ sends <= PeerRetries => now < sends * PeerTimeout
    /\ \A c \in inflight : now < c + MaxDelay
    /\ now' = now + 1
    /\ UNCHANGED <<sends, inflight, rx, deadline, dispatched>>

RxNext ==
    \/ PeerSend
    \/ PeerAnswered
    \/ \E c \in inflight : Vanish(c) \/ RecvNew(c) \/ RecvAgain(c)
    \/ RxTimeout
    \/ Tick

RxSpec == RxInit /\ [][RxNext]_rxVars

-----------------------------------------------------------------------------
(* Properties                                                              *)

\* the last copy is processed before the transaction can be forgotten
PeerInTime == PeerRetries * PeerTimeout + MaxDelay < RxLife

\* "True - need to handle this req / False - req already handled" (recv):
\* a request is handed to its handler at most once, however often and however
\* late its copies arrive.
HandledOnce == dispatched <= 1
=============================================================================
