--------------------------- MODULE LiveViewProofs ---------------------------
(* Proofs about the live-update feed, and about the engine, the feed and    *)
(* the panels together.                                                     *)
EXTENDS LiveView, TLAPS

(* Proofs about the live-update feed, for any number of clients and threads *)
(* and any ring capacity.                                                   *)

(***************************************************************************)
(* Two different sequence numbers less than a ring apart have different    *)
(* slots, and a slot is an index of the ring (ws->ring[seq % RING_CAPACITY]). *)
(***************************************************************************)
LEMMA SlotInRing ==
    ASSUME NEW seq \in Nat
    PROVE  Slot(seq) \in 0 .. RING_CAPACITY - 1
BY RingAssumption DEF Slot

LEMMA SlotsDiffer ==
    ASSUME NEW a \in Nat, NEW b \in Nat, a < b, b < a + RING_CAPACITY
    PROVE  Slot(a) # Slot(b)
<1> DEFINE N == RING_CAPACITY
<1>1. N \in Nat /\ N > 0
  BY RingAssumption
<1>2. SUFFICES ASSUME a % N = b % N PROVE FALSE
  BY DEF Slot
<1> DEFINE p == a \div N
           q == b \div N
<1>3. p \in Int /\ q \in Int
  BY <1>1
<1>4. a = N * p + (a % N) /\ b = N * q + (b % N)
  BY <1>1
<1>5. b - a = N * (q - p)
  <2> HIDE DEF N, p, q
  <2>1. (b % N) \in Int /\ (a % N) \in Int
    BY <1>1
  <2>2. b - a = N * q - N * p
    BY <1>1, <1>2, <1>3, <1>4, <2>1
  <2> QED BY <1>1, <1>3, <2>2
<1>6. q - p >= 1
  <2> HIDE DEF N, p, q
  <2>1. N * (q - p) > 0
    BY <1>1, <1>3, <1>5
  <2> QED BY <1>1, <1>3, <2>1
<1>7. N * (q - p) >= N
  <2> HIDE DEF N, p, q
  <2> QED BY <1>1, <1>3, <1>6
<1> QED
  BY <1>1, <1>3, <1>5, <1>7

(* A message no older than the window is less than a ring behind its end.  *)
LEMMA WindowBound ==
    ASSUME NEW last \in Nat, NEW oldest \in Nat, NEW seq \in Nat, NEW size \in Nat,
           last + 1 <= oldest + size, oldest <= seq
    PROVE  last < seq + size
OBVIOUS

-----------------------------------------------------------------------------
(***************************************************************************)
(* Type correctness: every step of the threads and of the library keeps    *)
(* every variable in its range.                                            *)
(***************************************************************************)
THEOREM TypeCorrect == Spec => []TypeOK
<1>1. Init => TypeOK
  <2> SUFFICES ASSUME Init PROVE TypeOK
    OBVIOUS
  <2>1. ring \in [0 .. RING_CAPACITY - 1 -> Nat \cup {NoMessage}]
    BY Zenon DEF Init
  <2>2. next_wanted \in [Clients -> Nat] /\ unseen \in [Clients -> Nat]
    BY DEF Init
  <2>3. woken \in BOOLEAN
    BY Zenon DEF Init
  <2> QED
    BY <2>1, <2>2, <2>3, RingAssumption DEF Init, TypeOK
<1>2. TypeOK /\ [Next]_vars => TypeOK'
  <2> SUFFICES ASSUME TypeOK, [Next]_vars PROVE TypeOK'
    OBVIOUS
  <2> USE RingAssumption DEF TypeOK, lws
  <2>1. ASSUME NEW t \in Threads, Broadcast(t) PROVE TypeOK'
    <3>1. ring' \in [0 .. RING_CAPACITY - 1 -> Nat \cup {NoMessage}]
      BY <2>1 DEF Broadcast, Oldest
    <3>2. next_seq' \in Nat /\ oldest_seq' \in Nat
      BY <2>1 DEF Broadcast, Oldest
    <3> QED
      BY <2>1, <3>1, <3>2 DEF Broadcast, Oldest
  <2>2. ASSUME NEW t \in Threads, CancelService(t) PROVE TypeOK'
    BY <2>2 DEF CancelService
  <2>3. ASSUME NEW c \in Clients, Established(c) PROVE TypeOK'
    BY <2>3 DEF Established
  <2>4. ASSUME NEW c \in Clients, Closed(c) PROVE TypeOK'
    BY <2>4 DEF Closed
  <2>5. ASSUME NEW c \in Clients, NothingToWrite(c) PROVE TypeOK'
    BY <2>5 DEF NothingToWrite, CallbackTaken, Resume
  <2>6. ASSUME NEW c \in Clients, Write(c) PROVE TypeOK'
    <3>1. Resume(c) \in Nat
      BY DEF Resume
    <3>2. ring[Slot(Resume(c))] + 1 \in Nat
      <4>1. Slot(Resume(c)) \in 0 .. RING_CAPACITY - 1
        BY <3>1, SlotInRing
      <4>2. ring[Slot(Resume(c))] \in Nat \cup {NoMessage}
        BY <4>1
      <4> QED
        BY <4>2 DEF NoMessage
    <3>3. next_wanted' \in [Clients -> Nat] /\ unseen' \in [Clients -> Nat]
      BY <2>6, <3>1, <3>2 DEF Write, MorePending
    <3>4. c \in sessions /\ service = "run" /\ rearming = NoClient
      BY <2>6 DEF Write, MorePending, CallbackTaken, LibraryAsksAgain
    <3>5. /\ service' \in {"poll", "run", "rearm"}
          /\ rearming' \in Clients \cup {NoClient}
          /\ service' = "rearm" <=> rearming' \in Clients
          /\ rearming' \in Clients => rearming' \in sessions'
      BY <2>6, <3>4 DEF Write, MorePending
    <3> QED
      BY <2>6, <3>3, <3>5 DEF Write, MorePending, CallbackTaken, LibraryAsksAgain
  <2>7. ASSUME Rearm PROVE TypeOK'
    BY <2>7 DEF Rearm
  <2>8. ASSUME PollEnter PROVE TypeOK'
    BY <2>8 DEF PollEnter
  <2>9. ASSUME PollReturn PROVE TypeOK'
    BY <2>9 DEF PollReturn
  <2>10. ASSUME PollTimeout PROVE TypeOK'
    BY <2>10 DEF PollTimeout
  <2>11. ASSUME UNCHANGED vars PROVE TypeOK'
    BY <2>11 DEF vars
  <2> QED
    BY <2>1, <2>2, <2>3, <2>4, <2>5, <2>6, <2>7, <2>8, <2>9, <2>10, <2>11 DEF Next
<1> QED
  BY <1>1, <1>2, PTL DEF Spec

-----------------------------------------------------------------------------
(***************************************************************************)
(* Every message that may still be sent is in its slot, whatever the       *)
(* capacity: a broadcast overwrites the one slot whose message it retires. *)
(***************************************************************************)
THEOREM RingCorrect == Spec => []SlotHoldsItsMessage
<1>1. Init => SlotHoldsItsMessage
  BY RingAssumption DEF Init, SlotHoldsItsMessage
<1>2. TypeOK /\ SlotHoldsItsMessage /\ [Next]_vars => SlotHoldsItsMessage'
  <2> SUFFICES ASSUME TypeOK, SlotHoldsItsMessage, [Next]_vars
               PROVE  SlotHoldsItsMessage'
    OBVIOUS
  <2>1. ASSUME NEW t \in Threads, Broadcast(t) PROVE SlotHoldsItsMessage'
    <3>1. next_seq \in Nat /\ oldest_seq \in Nat
      BY DEF TypeOK
    <3>2. Slot(next_seq) \in 0 .. RING_CAPACITY - 1
      BY <3>1, SlotInRing
    <3>3. /\ oldest_seq <= oldest_seq'
          /\ oldest_seq' <= next_seq'
          /\ next_seq' <= oldest_seq' + RING_CAPACITY
          /\ next_seq' = next_seq + 1
      BY <2>1, <3>1, RingAssumption DEF Broadcast, Oldest, SlotHoldsItsMessage
    <3>4. ASSUME NEW seq \in oldest_seq' .. next_seq' - 1
          PROVE  ring'[Slot(seq)] = seq
      <4>a. oldest_seq' \in Nat
        BY <2>1, <3>1, RingAssumption DEF Broadcast, Oldest
      <4>b. seq \in Nat
        BY <2>1, <3>1, <4>a DEF Broadcast, Oldest
      <4>c. oldest_seq' <= seq
        BY <2>1, <3>1, <4>a DEF Broadcast, Oldest
      <4>1. ring' = [ring EXCEPT ![Slot(next_seq)] = next_seq]
        BY <2>1 DEF Broadcast, Oldest
      <4>2. CASE seq = next_seq
        BY <3>2, <4>1, <4>2 DEF TypeOK
      <4>3. CASE seq # next_seq
        <5>1. seq \in oldest_seq .. next_seq - 1 /\ seq < next_seq
          BY <3>1, <3>3, <4>a, <4>b, <4>c, <4>3
        <5>2. next_seq < seq + RING_CAPACITY
          <6>1. RING_CAPACITY \in Nat
            BY RingAssumption
          <6>2. next_seq + 1 <= oldest_seq' + RING_CAPACITY
            BY <3>3
          <6>3. next_seq \in Nat
            BY <3>1
          <6> QED
            BY <4>a, <4>b, <4>c, <6>1, <6>2, <6>3, WindowBound
        <5>3. Slot(seq) # Slot(next_seq)
          BY <3>1, <4>a, <4>b, <4>c, <5>1, <5>2, SlotsDiffer
        <5>4. Slot(seq) \in 0 .. RING_CAPACITY - 1
          BY <4>a, <4>b, <4>c, SlotInRing
        <5>5. ring[Slot(seq)] = seq
          BY <5>1 DEF SlotHoldsItsMessage
        <5> QED
          BY <4>1, <5>3, <5>4, <5>5 DEF TypeOK
      <4> QED
        BY <4>2, <4>3
    <3> QED
      BY <3>3, <3>4 DEF SlotHoldsItsMessage
  <2>2. ASSUME UNCHANGED <<ring, next_seq, oldest_seq>>
        PROVE  SlotHoldsItsMessage'
    BY <2>2 DEF SlotHoldsItsMessage
  <2> QED
    BY <2>1, <2>2 DEF Next, CancelService, Established, Closed, NothingToWrite,
                      Write, Rearm, PollEnter, PollReturn, PollTimeout, vars
<1> QED
  BY <1>1, <1>2, TypeCorrect, PTL DEF Spec

-----------------------------------------------------------------------------
(***************************************************************************)
(* A client's position is the message after the last it was sent, and      *)
(* never ahead of the ring, whose window is not empty after a broadcast.   *)
(***************************************************************************)
Positions ==
    /\ \A c \in sessions : unseen[c] = next_wanted[c] /\ next_wanted[c] <= next_seq
    /\ next_seq > 0 => oldest_seq < next_seq

LEMMA PositionsCorrect == Spec => []Positions
<1>1. Init => Positions
  BY DEF Init, Positions
<1>2. TypeOK /\ SlotHoldsItsMessage /\ Positions /\ [Next]_vars => Positions'
  <2> SUFFICES ASSUME TypeOK, SlotHoldsItsMessage, Positions, [Next]_vars
               PROVE  Positions'
    OBVIOUS
  <2> USE DEF Positions
  <2>1. ASSUME NEW t \in Threads, Broadcast(t) PROVE Positions'
    BY <2>1, RingAssumption DEF Broadcast, Oldest, TypeOK, SlotHoldsItsMessage
  <2>2. ASSUME NEW t \in Threads, CancelService(t) PROVE Positions'
    BY <2>2 DEF CancelService
  <2>3. ASSUME NEW c \in Clients, Established(c) PROVE Positions'
    BY <2>3 DEF Established, TypeOK
  <2>4. ASSUME NEW c \in Clients, Closed(c) PROVE Positions'
    BY <2>4 DEF Closed
  <2>5. ASSUME NEW c \in Clients, NothingToWrite(c) PROVE Positions'
    BY <2>5 DEF NothingToWrite, CallbackTaken, Resume, TypeOK, SlotHoldsItsMessage
  <2>6. ASSUME NEW c \in Clients, Write(c) PROVE Positions'
    <3>1. Resume(c) \in oldest_seq .. next_seq - 1 /\ Resume(c) \in Nat
      BY <2>6 DEF Write, MorePending, Resume, TypeOK
    <3>2. ring[Slot(Resume(c))] = Resume(c)
      BY <3>1 DEF SlotHoldsItsMessage
    <3> QED
      BY <2>6, <3>1, <3>2 DEF Write, MorePending, CallbackTaken, LibraryAsksAgain, TypeOK
  <2>7. ASSUME UNCHANGED <<sessions, unseen, next_wanted, next_seq, oldest_seq>>
        PROVE  Positions'
    BY <2>7
  <2> QED
    BY <2>1, <2>2, <2>3, <2>4, <2>5, <2>6, <2>7
       DEF Next, Rearm, PollEnter, PollReturn, PollTimeout, vars
<1> QED
  BY <1>1, <1>2, TypeCorrect, RingCorrect, PTL DEF Spec

(***************************************************************************)
(* What a client receives is in order, without repetition, and without a   *)
(* gap unless the ring overran it.                                         *)
(***************************************************************************)
THEOREM OrderCorrect == Spec => SentInOrder
<1> DEFINE Step == \A c \in Clients : c \in sessions /\ unseen'[c] # unseen[c] =>
                      \/ unseen'[c] = unseen[c] + 1
                      \/ unseen[c] < oldest_seq /\ unseen'[c] = oldest_seq + 1
<1>1. TypeOK /\ SlotHoldsItsMessage /\ Positions /\ [Next]_vars => [Step]_vars
  <2> SUFFICES ASSUME TypeOK, SlotHoldsItsMessage, Positions, Next PROVE Step
    BY DEF vars
  <2>1. ASSUME NEW c \in Clients, Established(c) PROVE Step
    BY <2>1 DEF Established, TypeOK
  <2>2. ASSUME NEW c \in Clients, Write(c) PROVE Step
    <3>1. Resume(c) \in oldest_seq .. next_seq - 1 /\ Resume(c) \in Nat
      BY <2>2 DEF Write, MorePending, Resume, TypeOK
    <3>2. ring[Slot(Resume(c))] = Resume(c)
      BY <3>1 DEF SlotHoldsItsMessage
    <3>3. c \in sessions /\ unseen[c] = next_wanted[c]
      BY <2>2 DEF Write, MorePending, CallbackTaken, LibraryAsksAgain, TypeOK, Positions
    <3>4. unseen' = [unseen EXCEPT ![c] = Resume(c) + 1]
      BY <2>2, <3>2 DEF Write, MorePending
    <3> QED
      BY <3>3, <3>4 DEF Resume, TypeOK
  <2>3. CASE UNCHANGED unseen
    BY <2>3
  <2> QED
    BY <2>1, <2>2, <2>3 DEF Next, Broadcast, Oldest, CancelService, Closed, NothingToWrite,
                            Rearm, PollEnter, PollReturn, PollTimeout
<1> QED
  BY <1>1, TypeCorrect, RingCorrect, PositionsCorrect, PTL DEF Spec, SentInOrder

-----------------------------------------------------------------------------
(***************************************************************************)
(* No order of broadcasts and callbacks loses a request to write: the      *)
(* flag a callback clears is set again by its own re-arm or by the         *)
(* broadcast that came in between.                                         *)
(***************************************************************************)
THEOREM RequestsCorrect == Spec => []NoLostRequest
<1>1. Init => NoLostRequest
  BY DEF Init, NoLostRequest
<1>2. TypeOK /\ NoLostRequest /\ [Next]_vars => NoLostRequest'
  <2> SUFFICES ASSUME TypeOK, NoLostRequest, [Next]_vars PROVE NoLostRequest'
    OBVIOUS
  <2> USE DEF NoLostRequest
  <2>1. ASSUME NEW t \in Threads, Broadcast(t) PROVE NoLostRequest'
    <3>1. sessions' = sessions /\ writable' = writable \cup sessions
      BY <2>1 DEF Broadcast, Oldest
    <3> QED
      BY <3>1
  <2>2. ASSUME NEW c \in Clients, Established(c) PROVE NoLostRequest'
    BY <2>2 DEF Established, TypeOK, lws
  <2>3. ASSUME NEW c \in Clients, Closed(c) PROVE NoLostRequest'
    BY <2>3 DEF Closed, TypeOK
  <2>4. ASSUME NEW c \in Clients, NothingToWrite(c) PROVE NoLostRequest'
    BY <2>4 DEF NothingToWrite, CallbackTaken, Resume, TypeOK
  <2>5. ASSUME NEW c \in Clients, Write(c) PROVE NoLostRequest'
    <3>1. Resume(c) \in Nat
      BY DEF Resume, TypeOK
    <3> QED
      BY <2>5, <3>1 DEF Write, MorePending, CallbackTaken, LibraryAsksAgain, TypeOK
  <2>6. ASSUME Rearm PROVE NoLostRequest'
    BY <2>6 DEF Rearm, TypeOK
  <2>7. ASSUME UNCHANGED <<sessions, next_wanted, next_seq, writable, rearming>>
        PROVE  NoLostRequest'
    BY <2>7
  <2> QED
    BY <2>1, <2>2, <2>3, <2>4, <2>5, <2>6, <2>7
       DEF Next, CancelService, PollEnter, PollReturn, PollTimeout, vars, lws
<1> QED
  BY <1>1, <1>2, TypeCorrect, PTL DEF Spec

(***************************************************************************)
(* The service thread never sleeps on a request without a wake-up on its   *)
(* way.                                                                    *)
(***************************************************************************)
THEOREM WakeupsCorrect == Spec => []NoRequestSleptOn
<1>1. Init => NoRequestSleptOn
  BY DEF Init, NoRequestSleptOn
<1>2. TypeOK /\ NoRequestSleptOn /\ [Next]_vars => NoRequestSleptOn'
  <2> SUFFICES ASSUME TypeOK, NoRequestSleptOn, [Next]_vars PROVE NoRequestSleptOn'
    OBVIOUS
  <2> USE DEF NoRequestSleptOn
  <2>1. ASSUME NEW t \in Threads, Broadcast(t) PROVE NoRequestSleptOn'
    BY <2>1 DEF Broadcast, Oldest
  <2>2. ASSUME NEW t \in Threads, CancelService(t) PROVE NoRequestSleptOn'
    BY <2>2 DEF CancelService
  <2>3. ASSUME PollEnter PROVE NoRequestSleptOn'
    BY <2>3 DEF PollEnter
  <2>4. ASSUME service' # "poll" PROVE NoRequestSleptOn'
    BY <2>4
  <2>5. ASSUME UNCHANGED vars PROVE NoRequestSleptOn'
    BY <2>5 DEF vars, lws
  <2> QED
    BY <2>1, <2>2, <2>3, <2>4, <2>5 DEF Next, Established, Closed, NothingToWrite,
       Write, CallbackTaken, LibraryAsksAgain, Rearm, PollReturn, PollTimeout
<1> QED
  BY <1>1, <1>2, TypeCorrect, PTL DEF Spec

-----------------------------------------------------------------------------
(* Proofs about the engine, the feed and the panels together, for any       *)
(* number of clients and threads and any ring capacity.                     *)

(***************************************************************************)
(* To the feed, the composition only broadcasts, connects and writes: what *)
(* is proved of the feed on its own holds in it.                           *)
(***************************************************************************)
LEMMA FeedStep == [LiveNext]_allVars => [Next]_vars
BY DEF LiveNext, Next, ChangeState, Announce, AnnounceError, StatusJson, Connect,
       Disconnect, Receive, Ask, Show, Feed, allVars

LEMMA FeedImplemented == LiveSpec => Spec
<1>1. LiveInit => Init
  BY DEF LiveInit
<1> QED
  BY <1>1, FeedStep, PTL DEF LiveSpec, Spec

-----------------------------------------------------------------------------
(***************************************************************************)
(* Every variable of the composition is in its range; only connected       *)
(* clients have a reason to look, and each message says something.         *)
(***************************************************************************)
LEMMA LiveTypeStep ==
    ASSUME LiveTypeOK, TypeOK', [LiveNext]_allVars
    PROVE  LiveTypeOK'
<1> USE DEF LiveTypeOK, panel, viewVars
<1>1. ASSUME NEW t \in Threads, ChangeState(t) PROVE LiveTypeOK'
  BY <1>1 DEF ChangeState, vars
<1>2. ASSUME NEW t \in Threads, Announce(t) PROVE LiveTypeOK'
  BY <1>2 DEF Announce, Broadcast
<1>3. ASSUME NEW t \in Threads, AnnounceError(t) PROVE LiveTypeOK'
  BY <1>3 DEF AnnounceError, Broadcast
<1>4. ASSUME NEW c \in Clients, StatusJson(c) PROVE LiveTypeOK'
  BY <1>4 DEF StatusJson, vars
<1>5. ASSUME NEW c \in Clients, Connect(c) PROVE LiveTypeOK'
  BY <1>5 DEF Connect, Established
<1>6. ASSUME NEW c \in Clients, Disconnect(c) PROVE LiveTypeOK'
  BY <1>6 DEF Disconnect, Closed, NoView
<1>7. ASSUME NEW c \in Clients, Receive(c) PROVE LiveTypeOK'
  BY <1>7 DEF Receive, Write, CallbackTaken, TypeOK
<1>8. ASSUME NEW c \in Clients, Ask(c) PROVE LiveTypeOK'
  BY <1>8 DEF Ask, vars
<1>9. ASSUME NEW c \in Clients, Show(c) PROVE LiveTypeOK'
  BY <1>9 DEF Show, vars
<1>10. ASSUME UNCHANGED <<next_seq, sessions, viewVars>> PROVE LiveTypeOK'
  BY <1>10
<1> QED
  BY <1>1, <1>2, <1>3, <1>4, <1>5, <1>6, <1>7, <1>8, <1>9, <1>10
     DEF LiveNext, Feed, CancelService, NothingToWrite, Rearm, PollEnter, PollReturn,
         PollTimeout, allVars, vars

THEOREM LiveTypeCorrect == LiveSpec => []LiveTypeOK
<1>1. LiveInit => LiveTypeOK
  <2> SUFFICES ASSUME LiveInit, TypeOK PROVE LiveTypeOK
    <3>1. Init => TypeOK
      <4> SUFFICES ASSUME Init PROVE TypeOK
        OBVIOUS
      <4>1. ring \in [0 .. RING_CAPACITY - 1 -> Nat \cup {NoMessage}]
        BY Zenon DEF Init
      <4>2. woken \in BOOLEAN
        BY Zenon DEF Init
      <4> QED
        BY <4>1, <4>2, RingAssumption DEF Init, TypeOK
    <3> QED
      BY <3>1 DEF LiveInit
  <2> QED
    BY DEF LiveInit, Init, LiveTypeOK, NoView
<1>2. TypeOK' /\ LiveTypeOK /\ [LiveNext]_allVars => LiveTypeOK'
  BY LiveTypeStep
<1> QED
  BY <1>1, <1>2, FeedImplemented, TypeCorrect, PTL DEF LiveSpec

-----------------------------------------------------------------------------
(***************************************************************************)
(* A client that does not show the current state is safe as long as a call *)
(* has yet to broadcast, news has yet to be sent, or it is about to look.  *)
(* The invariant needs the same of an answer that is already out of date   *)
(* when the panel receives it: showing it must not be the last word.       *)
(***************************************************************************)
ToldLater(c) == announcing # {} \/ NewsFor(c) \/ c \in dirty \/ c \in missed

(* News is lost to a client only by a write, which brings or skips it.     *)
LEMMA NewsKept ==
    ASSUME LiveTypeOK, NEW c \in Clients, NewsFor(c),
           UNCHANGED <<next_seq, kind>>, next_wanted'[c] = next_wanted[c]
    PROVE  NewsFor(c)'
BY DEF NewsFor, Changed

(* The message of a change is news to every connected client.              *)
LEMMA AnnouncedIsNews ==
    ASSUME LiveTypeOK, Positions, NEW t \in Threads, Announce(t), NEW c \in sessions
    PROVE  NewsFor(c)'
<1>1. /\ next_seq \in Nat /\ next_seq' = next_seq + 1
      /\ next_wanted'[c] = next_wanted[c]
      /\ next_wanted[c] \in Nat /\ next_wanted[c] <= next_seq
  BY DEF LiveTypeOK, TypeOK, Positions, Announce, Broadcast
<1>2. kind'[next_seq + 1] = "buffer_changed"
  BY <1>1 DEF LiveTypeOK, Announce
<1>3. next_seq \in next_wanted'[c] .. next_seq' - 1
  BY <1>1
<1> QED
  BY <1>2, <1>3 DEF NewsFor, Changed

(* An error broadcast in between takes no news away.                       *)
LEMMA ErrorKeepsNews ==
    ASSUME LiveTypeOK, NEW t \in Threads, AnnounceError(t), NEW c \in sessions, NewsFor(c)
    PROVE  NewsFor(c)'
<1>1. PICK seq \in next_wanted[c] .. next_seq - 1 : Changed(seq)
  BY DEF NewsFor
<1>2. /\ next_seq \in Nat /\ next_seq' = next_seq + 1 /\ next_wanted' = next_wanted
      /\ next_wanted[c] \in Nat
  BY DEF LiveTypeOK, TypeOK, AnnounceError, Broadcast
<1>3. seq \in Nat /\ seq + 1 \in 1 .. Len(kind)
  BY <1>1, <1>2 DEF LiveTypeOK
<1>4. kind'[seq + 1] = kind[seq + 1]
  BY <1>3 DEF LiveTypeOK, AnnounceError
<1>5. seq \in next_wanted'[c] .. next_seq' - 1
  BY <1>1, <1>2, <1>3
<1> QED
  BY <1>1, <1>4, <1>5 DEF NewsFor, Changed

(* A callback with nothing to write leaves the client's position alone: a  *)
(* client behind the ring always has something to be sent.                 *)
LEMMA NothingSkippedIdle ==
    ASSUME LiveTypeOK, SlotHoldsItsMessage, Positions, NEW c \in Clients,
           NothingToWrite(c)
    PROVE  next_wanted' = next_wanted
<1>1. next_seq \in Nat /\ oldest_seq \in Nat /\ next_wanted[c] \in Nat
  BY DEF LiveTypeOK, TypeOK
<1>2. Resume(c) = next_wanted[c]
  BY <1>1 DEF NothingToWrite, Resume, Positions, SlotHoldsItsMessage
<1> QED
  BY <1>2 DEF NothingToWrite, LiveTypeOK, TypeOK

(* What was on its way to the client a write serves still is, or the       *)
(* client has been told, or it is one that fell behind.                    *)
LEMMA ReceiveTells ==
    ASSUME LiveTypeOK, SlotHoldsItsMessage, NEW c \in Clients, Receive(c), ToldLater(c)
    PROVE  ToldLater(c)'
<1>1. Resume(c) \in oldest_seq .. next_seq - 1 /\ Resume(c) \in Nat
  BY DEF Receive, Write, Resume, LiveTypeOK, TypeOK
<1>2. unseen'[c] - 1 = Resume(c)
  <2>1. ring[Slot(Resume(c))] = Resume(c)
    BY <1>1 DEF SlotHoldsItsMessage
  <2>2. unseen'[c] = Resume(c) + 1
    BY <2>1 DEF Receive, Write, LiveTypeOK, TypeOK
  <2> QED
    BY <1>1, <2>2
<1>3. CASE Changed(Resume(c))
  BY <1>2, <1>3 DEF Receive, ToldLater
<1>4. CASE ~Changed(Resume(c))
  <2>1. /\ dirty' = dirty /\ announcing' = announcing
        /\ kind' = kind /\ next_seq' = next_seq
        /\ missed' = IF \E seq \in Skipped(c) : Changed(seq)
                     THEN missed \cup {c} ELSE missed
    BY <1>2, <1>4 DEF Receive, Write
  <2>2. CASE ~NewsFor(c)
    BY <2>1, <2>2 DEF ToldLater
  <2>3. CASE NewsFor(c)
    <3>1. PICK seq \in next_wanted[c] .. next_seq - 1 : Changed(seq)
      BY <2>3 DEF NewsFor
    <3>2. next_wanted[c] \in Nat /\ next_seq \in Nat /\ seq \in Nat
      BY <3>1 DEF LiveTypeOK, TypeOK
    <3>3. CASE seq < Resume(c)
      <4>1. seq \in Skipped(c)
        BY <1>1, <3>1, <3>2, <3>3 DEF Skipped
      <4> QED
        BY <2>1, <3>1, <4>1 DEF ToldLater
    <3>4. CASE seq > Resume(c)
      <4>1. next_wanted'[c] = Resume(c) + 1
        BY DEF Receive, Write, LiveTypeOK, TypeOK
      <4>2. seq \in next_wanted'[c] .. next_seq' - 1
        BY <1>1, <2>1, <3>1, <3>2, <3>4, <4>1
      <4> QED
        BY <2>1, <3>1, <4>2 DEF ToldLater, NewsFor, Changed
    <3> QED
      BY <1>1, <1>4, <3>1, <3>2, <3>3, <3>4
  <2> QED
    BY <2>2, <2>3
<1> QED
  BY <1>3, <1>4

(* A step that leaves the client's own panel alone keeps what is on its    *)
(* way to it.                                                              *)
LEMMA ToldLaterKept ==
    ASSUME LiveTypeOK, NEW c \in Clients, ToldLater(c),
           UNCHANGED <<next_seq, kind, announcing>>,
           next_wanted'[c] = next_wanted[c],
           c \in dirty => c \in dirty', c \in missed => c \in missed'
    PROVE  ToldLater(c)'
BY NewsKept DEF ToldLater

(* The inductive invariant, client by client. *)
Fresh(c) ==
    /\ view[c] # state => ToldLater(c) \/ reading[c] \in {Asked, state}
    /\ reading[c] \notin {NoRead, Asked, state} => ToldLater(c)

LEMMA FreshKept ==
    ASSUME LiveTypeOK, NEW c \in Clients, Fresh(c),
           UNCHANGED <<state, next_seq, kind, announcing>>,
           next_wanted'[c] = next_wanted[c],
           view'[c] = view[c], reading'[c] = reading[c],
           c \in dirty => c \in dirty', c \in missed => c \in missed'
    PROVE  Fresh(c)'
BY ToldLaterKept DEF Fresh

LEMMA FreshStep ==
    ASSUME LiveTypeOK, SlotHoldsItsMessage, Positions, \A c \in sessions : Fresh(c),
           [LiveNext]_allVars
    PROVE  \A c \in sessions' : Fresh(c)'
<1> SUFFICES ASSUME NEW c \in sessions' PROVE Fresh(c)'
  OBVIOUS
<1> USE DEF panel, viewVars
<1>a. sessions \subseteq Clients /\ sessions' \subseteq Clients
  BY DEF LiveTypeOK, TypeOK, LiveNext, Feed, ChangeState, Announce, AnnounceError,
         StatusJson, Connect, Disconnect, Receive, Ask, Show, Broadcast, Established,
         Closed, Write, CancelService, NothingToWrite, Rearm, PollEnter, PollReturn,
         PollTimeout, allVars, vars
<1>b. c \in Clients
  BY <1>a
<1>1. ASSUME NEW t \in Threads, ChangeState(t) PROVE Fresh(c)'
  BY <1>1 DEF ChangeState, Fresh, ToldLater
<1>2. ASSUME NEW t \in Threads, Announce(t) PROVE Fresh(c)'
  <2>1. c \in sessions
    BY <1>2 DEF Announce, Broadcast
  <2> QED
    BY <1>2, <2>1, AnnouncedIsNews DEF Fresh, ToldLater
<1>3. ASSUME NEW t \in Threads, AnnounceError(t) PROVE Fresh(c)'
  <2>1. c \in sessions /\ Fresh(c)
    BY <1>3 DEF AnnounceError, Broadcast
  <2>2. ToldLater(c) => ToldLater(c)'
    BY <1>3, <2>1, ErrorKeepsNews DEF ToldLater, AnnounceError
  <2> QED
    BY <1>3, <2>1, <2>2 DEF Fresh, AnnounceError
<1>4. ASSUME NEW d \in Clients, StatusJson(d) PROVE Fresh(c)'
  <2>1. c \in sessions /\ Fresh(c)
    BY <1>4 DEF StatusJson, vars
  <2>2. CASE c = d
    BY <1>4, <1>b, <2>2 DEF StatusJson, Fresh, LiveTypeOK
  <2>3. CASE c # d
    BY <1>4, <1>b, <2>1, <2>3, FreshKept DEF StatusJson, vars, LiveTypeOK
  <2> QED
    BY <2>2, <2>3
<1>5. ASSUME NEW d \in Clients, Connect(d) PROVE Fresh(c)'
  <2>1. CASE c = d
    BY <1>5, <2>1 DEF Connect, Fresh, ToldLater
  <2>2. CASE c # d
    BY <1>5, <1>b, <2>2, FreshKept DEF Connect, Established, LiveTypeOK, TypeOK
  <2> QED
    BY <2>1, <2>2
<1>6. ASSUME NEW d \in Clients, Disconnect(d) PROVE Fresh(c)'
  <2>1. c # d /\ c \in sessions
    BY <1>6 DEF Disconnect, Closed
  <2> QED
    BY <1>6, <1>b, <2>1, FreshKept DEF Disconnect, Closed, LiveTypeOK
<1>7. ASSUME NEW d \in Clients, Receive(d) PROVE Fresh(c)'
  <2>1. c \in sessions /\ Fresh(c)
    BY <1>7 DEF Receive, Write
  <2>2. UNCHANGED <<state, reading, view, announcing, kind, next_seq>>
    BY <1>7 DEF Receive, Write
  <2>3. CASE c = d
    BY <1>7, <2>1, <2>2, <2>3, ReceiveTells DEF Fresh
  <2>4. CASE c # d
    <3>1. next_wanted'[c] = next_wanted[c]
      BY <1>7, <1>b, <2>4 DEF Receive, Write, LiveTypeOK, TypeOK
    <3>2. (c \in dirty => c \in dirty') /\ (c \in missed => c \in missed')
      BY <1>7, <2>4 DEF Receive
    <3> QED
      BY <1>b, <2>1, <2>2, <3>1, <3>2, FreshKept
  <2> QED
    BY <2>3, <2>4
<1>8. ASSUME NEW d \in Clients, Ask(d) PROVE Fresh(c)'
  <2>1. c \in sessions /\ Fresh(c)
    BY <1>8 DEF Ask, vars
  <2>2. CASE c = d
    BY <1>8, <1>b, <2>2 DEF Ask, Fresh, LiveTypeOK
  <2>3. CASE c # d
    BY <1>8, <1>b, <2>1, <2>3, FreshKept DEF Ask, vars, LiveTypeOK
  <2> QED
    BY <2>2, <2>3
<1>9. ASSUME NEW d \in Clients, Show(d) PROVE Fresh(c)'
  <2>1. c \in sessions /\ Fresh(c)
    BY <1>9 DEF Show, vars
  <2>2. CASE c = d
    <3>1. view'[c] = reading[c] /\ reading'[c] = NoRead /\ state' = state
      BY <1>9, <1>b, <2>2 DEF Show, LiveTypeOK
    <3>2. ToldLater(c) => ToldLater(c)'
      BY <1>9, <1>b, ToldLaterKept DEF Show, vars
    <3> QED
      BY <1>9, <2>1, <2>2, <3>1, <3>2 DEF Fresh, Show
  <2>3. CASE c # d
    BY <1>9, <1>b, <2>1, <2>3, FreshKept DEF Show, vars, LiveTypeOK
  <2> QED
    BY <2>2, <2>3
<1>10. ASSUME NEW d \in Clients, NothingToWrite(d), UNCHANGED viewVars PROVE Fresh(c)'
  <2>1. c \in sessions /\ Fresh(c) /\ next_seq' = next_seq
    BY <1>10 DEF NothingToWrite
  <2>2. next_wanted' = next_wanted
    BY <1>10, NothingSkippedIdle
  <2> QED
    BY <1>10, <1>b, <2>1, <2>2, FreshKept
<1>11. ASSUME UNCHANGED <<next_seq, next_wanted, sessions, viewVars>> PROVE Fresh(c)'
  BY <1>11, <1>b, FreshKept
<1> QED
  BY <1>1, <1>2, <1>3, <1>4, <1>5, <1>6, <1>7, <1>8, <1>9, <1>10, <1>11
     DEF LiveNext, Feed, CancelService, Rearm, PollEnter, PollReturn, PollTimeout,
         allVars, vars

(***************************************************************************)
(* No interleaving of calls, broadcasts, writes and requests leaves a      *)
(* connected panel on an old state with nothing on its way to tell it,     *)
(* whatever the number of panels and the capacity of the ring.             *)
(***************************************************************************)
THEOREM PanelsCorrect == LiveSpec => []NoSilentStaleness
<1> DEFINE AllFresh == \A c \in sessions : Fresh(c)
<1>1. LiveInit => AllFresh
  BY DEF LiveInit, Init
<1>2. /\ LiveTypeOK /\ SlotHoldsItsMessage /\ Positions /\ AllFresh
      /\ [LiveNext]_allVars
      => AllFresh'
  BY FreshStep
<1>3. AllFresh => NoSilentStaleness
  BY DEF Fresh, ToldLater, NoSilentStaleness
<1> QED
  <2> HIDE DEF AllFresh
  <2> QED
    BY <1>1, <1>2, <1>3, FeedImplemented, LiveTypeCorrect, RingCorrect,
       PositionsCorrect, PTL DEF LiveSpec
=============================================================================
