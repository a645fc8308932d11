------------------------------ MODULE WsServer ------------------------------
(***************************************************************************)
(* The live-update feed of the backend (backend/src/ws/ws_server.c): a ring *)
(* of the latest messages, written by whatever thread broadcasts and read  *)
(* by the one service thread, which sends each client the messages that    *)
(* follow its own position.                                                *)
(*                                                                         *)
(* A broadcast and each libwebsockets callback hold ws->lock, so each is   *)
(* one step; what follows the unlock (lws_cancel_service after a broadcast, *)
(* lws_callback_on_writable after a write) is a step of its own.           *)
(*                                                                         *)
(* libwebsockets is external and modelled from how the code uses it: a     *)
(* request to write sets a flag the next poll looks at, and a poll already *)
(* blocked does not see it until something ends that poll.                 *)
(*                                                                         *)
(* A message is its sequence number: what the slot stores next to it is    *)
(* its payload, which no other message shares.                             *)
(*                                                                         *)
(* A definition introduced as "Mistake:" is not part of the model: it is a *)
(* plausible error in the code of the definition that follows it, kept to  *)
(* show which property notices it.                                         *)
(***************************************************************************)
EXTENDS Integers, FiniteSets

CONSTANTS
    Clients, NoClient,
    Threads,          \* threads that broadcast: HTTP, scanner, ticker
    RING_CAPACITY,
    MaxSeq            \* bound: messages ever broadcast

ASSUME RingAssumption ==
    /\ NoClient \notin Clients
    /\ RING_CAPACITY \in Nat \ {0} /\ MaxSeq \in Nat

NoMessage == -1       \* a slot, or a client, that never had one

VARIABLES
    ring, next_seq, oldest_seq,
    sessions,         \* connected clients
    next_wanted,      \* per client: the seq it is waiting to send next
    cancelling,       \* threads between a broadcast's unlock and lws_cancel_service
    service,          \* service thread: "poll", "run", or "rearm"
    rearming,         \* the client a write left with more to send
    writable,         \* external: clients with a request to write
    polled,           \* external: those the current poll watches, then those ready
    woken,            \* external: lws_cancel_service has been called
    unseen            \* history: per client, the message after the last it was sent

lws  == <<writable, polled, woken>>
vars == <<ring, next_seq, oldest_seq, sessions, next_wanted, cancelling,
          service, rearming, lws, unseen>>

Slot(seq) == seq % RING_CAPACITY

Init ==
    /\ ring = [k \in 0 .. RING_CAPACITY - 1 |-> NoMessage]
    /\ next_seq = 0
    /\ oldest_seq = 0
    /\ sessions = {}
    /\ next_wanted = [c \in Clients |-> 0]
    /\ cancelling = {}
    /\ service = "run"
    /\ rearming = NoClient
    /\ writable = {}
    /\ polled = {}
    /\ woken = FALSE
    /\ unseen = [c \in Clients |-> 0]

-----------------------------------------------------------------------------
(* Mistake: off by one. *)
OldestOffByOne(seq) ==
    IF seq > oldest_seq + RING_CAPACITY THEN seq - RING_CAPACITY + 1 ELSE oldest_seq

(* The oldest message left once seq is written. *)
Oldest(seq) ==
    IF seq >= oldest_seq + RING_CAPACITY THEN seq - RING_CAPACITY + 1 ELSE oldest_seq

(* ws_server_broadcast: the new message takes the slot of the oldest once  *)
(* the ring is full, and every connected client is asked to write.         *)
Broadcast(t) ==
    /\ t \notin cancelling
    /\ next_seq < MaxSeq
    /\ ring' = [ring EXCEPT ![Slot(next_seq)] = next_seq]
    /\ next_seq' = next_seq + 1
    /\ oldest_seq' = Oldest(next_seq)
    /\ writable' = writable \cup sessions
    /\ cancelling' = cancelling \cup {t}
    /\ UNCHANGED <<sessions, next_wanted, service, rearming, polled, woken, unseen>>

(* Mistake: the blocked poll is left to its timeout. *)
CancelServiceNot(t) ==
    /\ t \in cancelling
    /\ cancelling' = cancelling \ {t}
    /\ UNCHANGED <<ring, next_seq, oldest_seq, sessions, next_wanted, service,
                   rearming, lws, unseen>>

CancelService(t) ==
    /\ t \in cancelling
    /\ cancelling' = cancelling \ {t}
    /\ woken' = TRUE
    /\ UNCHANGED <<ring, next_seq, oldest_seq, sessions, next_wanted, service,
                   rearming, writable, polled, unseen>>

-----------------------------------------------------------------------------
(* The callbacks, all on the service thread.                               *)

Established(c) ==
    /\ service = "run"
    /\ c \notin sessions
    /\ sessions' = sessions \cup {c}
    /\ next_wanted' = [next_wanted EXCEPT ![c] = next_seq]
    /\ unseen' = [unseen EXCEPT ![c] = next_seq]
    /\ UNCHANGED <<ring, next_seq, oldest_seq, cancelling, service, rearming, lws>>

(* Mistake: a connection is closed by another thread than the service's. *)
ClosedAnyTime(c) ==
    /\ c \in sessions
    /\ sessions' = sessions \ {c}
    /\ writable' = writable \ {c}
    /\ polled' = polled \ {c}
    /\ UNCHANGED <<ring, next_seq, oldest_seq, next_wanted, cancelling, service,
                   rearming, woken, unseen>>

(* The library forgets the connection's requests with the connection.      *)
Closed(c) ==
    /\ service = "run"
    /\ c \in sessions
    /\ sessions' = sessions \ {c}
    /\ writable' = writable \ {c}
    /\ polled' = polled \ {c}
    /\ UNCHANGED <<ring, next_seq, oldest_seq, next_wanted, cancelling, service,
                   rearming, woken, unseen>>

(* Mistake: a client that fell behind reads on where it was. *)
ResumeUnclamped(c) == next_wanted[c]

(* Where a client that fell behind the ring resumes. *)
Resume(c) == IF next_wanted[c] < oldest_seq THEN oldest_seq ELSE next_wanted[c]

CallbackTaken(c) ==
    /\ service = "run"
    /\ c \in polled
    /\ polled' = polled \ {c}

(* The library asks to write again, of its own accord, when it could send  *)
(* only a part of what it was given: the callback must expect to have      *)
(* nothing to write.                                                       *)
LibraryAsksAgain(c) == writable' \in {writable, writable \ {c}}

NothingToWrite(c) ==
    /\ CallbackTaken(c)
    /\ Resume(c) >= next_seq
    /\ next_wanted' = [next_wanted EXCEPT ![c] = Resume(c)]
    /\ writable' = writable \ {c}
    /\ UNCHANGED <<ring, next_seq, oldest_seq, sessions, cancelling, service,
                   rearming, woken, unseen>>

(* Mistake: off by one. *)
MorePendingOffByOne(c) == Resume(c) + 2 < next_seq

MorePending(c) == Resume(c) + 1 < next_seq

(* One message per callback; more_pending is read under the lock and acted *)
(* on after it, when a broadcast may have come between.                    *)
Write(c) ==
    /\ CallbackTaken(c)
    /\ Resume(c) < next_seq
    /\ unseen' = [unseen EXCEPT ![c] = ring[Slot(Resume(c))] + 1]
    /\ next_wanted' = [next_wanted EXCEPT ![c] = Resume(c) + 1]
    /\ LibraryAsksAgain(c)
    /\ IF MorePending(c)
       THEN service' = "rearm" /\ rearming' = c
       ELSE UNCHANGED <<service, rearming>>
    /\ UNCHANGED <<ring, next_seq, oldest_seq, sessions, cancelling, woken>>

(* Mistake: the request is not made. *)
RearmNot ==
    /\ service = "rearm"
    /\ rearming' = NoClient
    /\ service' = "run"
    /\ UNCHANGED <<ring, next_seq, oldest_seq, sessions, next_wanted, cancelling,
                   lws, unseen>>

Rearm ==
    /\ service = "rearm"
    /\ writable' = writable \cup {rearming}
    /\ rearming' = NoClient
    /\ service' = "run"
    /\ UNCHANGED <<ring, next_seq, oldest_seq, sessions, next_wanted, cancelling,
                   polled, woken, unseen>>

-----------------------------------------------------------------------------
(* service_thread: lws_service polls, then runs the callbacks that are due. *)

PollEnter ==
    /\ service = "run"
    /\ polled = {}
    /\ service' = "poll"
    /\ polled' = writable
    /\ UNCHANGED <<ring, next_seq, oldest_seq, sessions, next_wanted, cancelling,
                   rearming, writable, woken, unseen>>

(* Some watched sockets accept data, or lws_cancel_service was called.     *)
PollReturn ==
    /\ service = "poll"
    /\ service' = "run"
    /\ polled' \in SUBSET polled
    /\ polled' # {} \/ woken
    /\ woken' = FALSE
    /\ UNCHANGED <<ring, next_seq, oldest_seq, sessions, next_wanted, cancelling,
                   rearming, writable, unseen>>

PollTimeout ==
    /\ service = "poll"
    /\ service' = "run"
    /\ polled' = {}
    /\ UNCHANGED <<ring, next_seq, oldest_seq, sessions, next_wanted, cancelling,
                   rearming, writable, woken, unseen>>

Next ==
    \/ \E t \in Threads : Broadcast(t) \/ CancelService(t)
    \/ \E c \in Clients : Established(c)
    \/ \E c \in Clients : Closed(c)
    \/ \E c \in Clients : NothingToWrite(c)
    \/ \E c \in Clients : Write(c)
    \/ Rearm
    \/ PollEnter
    \/ PollReturn
    \/ PollTimeout

Spec == Init /\ [][Next]_vars

(* The threads keep running, and a client that stays connected drains its  *)
(* socket now and then.  Nothing is assumed of the one-second poll timeout. *)
Fairness ==
    /\ \A t \in Threads : WF_vars(CancelService(t))
    /\ WF_vars(Rearm) /\ WF_vars(PollEnter) /\ WF_vars(PollReturn)
    /\ \A c \in Clients : /\ WF_vars(NothingToWrite(c) \/ Write(c))
                          /\ SF_vars(PollReturn /\ c \in polled')

FairSpec == Spec /\ Fairness

-----------------------------------------------------------------------------
(* Properties.                                                             *)

(* Every variable in its range; requests to write are those of connected   *)
(* clients, so no callback or re-arm concerns a connection that is gone.   *)
TypeOK ==
    /\ ring \in [0 .. RING_CAPACITY - 1 -> Nat \cup {NoMessage}]
    /\ next_seq \in Nat /\ oldest_seq \in Nat
    /\ sessions \subseteq Clients
    /\ next_wanted \in [Clients -> Nat]
    /\ cancelling \subseteq Threads
    /\ service \in {"poll", "run", "rearm"}
    /\ rearming \in Clients \cup {NoClient}
    /\ service = "rearm" <=> rearming \in Clients
    /\ writable \subseteq sessions /\ polled \subseteq writable
    /\ rearming \in Clients => rearming \in sessions
    /\ woken \in BOOLEAN
    /\ unseen \in [Clients -> Nat]

(* Whatever a client may still be sent is in its slot: a message between   *)
(* oldest_seq and next_seq has not been overwritten, freed or displaced.   *)
SlotHoldsItsMessage ==
    /\ oldest_seq <= next_seq /\ next_seq <= oldest_seq + RING_CAPACITY
    /\ \A seq \in oldest_seq .. next_seq - 1 : ring[Slot(seq)] = seq

(* A connected client is sent, in order and once each, the messages        *)
(* broadcast since it connected; it misses only those that left the ring   *)
(* before its turn, and then resumes at the oldest that is left.           *)
SentInOrder ==
    [][\A c \in Clients : c \in sessions /\ unseen'[c] # unseen[c] =>
          \/ unseen'[c] = unseen[c] + 1
          \/ unseen[c] < oldest_seq /\ unseen'[c] = oldest_seq + 1]_vars

(* A client with messages to come is always asked to write, or about to    *)
(* be: no order of broadcasts and callbacks leaves one waiting for the     *)
(* next broadcast.                                                         *)
NoLostRequest ==
    \A c \in sessions : next_wanted[c] < next_seq => c \in writable \/ rearming = c

(* The service thread never sleeps on a request its poll does not watch,   *)
(* unless a lws_cancel_service is on its way: see the comment at the end   *)
(* of ws_server_broadcast.                                                 *)
NoRequestSleptOn ==
    service = "poll" /\ ~(writable \subseteq polled) => woken \/ cancelling # {}

(* Every client that stays connected is sent everything, in the end, with  *)
(* no help from the poll's timeout.                                        *)
ClientsCatchUp ==
    \A c \in Clients :
        [](c \in sessions => <>(c \notin sessions \/ next_wanted[c] = next_seq))
=============================================================================
