------------------------------ MODULE LiveView ------------------------------
(***************************************************************************)
(* The engine, the feed and the panel together: a call changes the state   *)
(* the panel shows (backend/src/grammar/engine.c), then broadcasts that it *)
(* did, often after it has released e->lock; the feed brings the message   *)
(* (WsServer); the panel, for which it is only a reason to look again,     *)
(* asks for the state (grammar_engine_status_json) and shows it.           *)
(*                                                                         *)
(* The state is a version number.  The panel is external: it reads once    *)
(* when it has connected and again after each buffer_changed message.      *)
(***************************************************************************)
EXTENDS WsServer, Sequences

VARIABLES
    state,            \* version of work session, bin-sessions and buffer
    announcing,       \* threads that have changed it and not broadcast yet
    kind,             \* what each message broadcast so far says
    dirty,            \* external: clients that have a reason to look again
    reading,          \* external: per client, its request for the state
    view,             \* external: the version each client shows
    missed            \* history: clients whose last news of a change left the ring

panel    == <<dirty, reading, view, missed>>
viewVars == <<state, announcing, kind, panel>>
allVars  == <<vars, viewVars>>

NoView  == -1
NoRead  == -1         \* no request is under way
Asked   == -2         \* one that has not been answered

LiveInit ==
    /\ Init
    /\ state = 0
    /\ announcing = {}
    /\ kind = <<>>
    /\ dirty = {}
    /\ reading = [c \in Clients |-> NoRead]
    /\ view = [c \in Clients |-> NoView]
    /\ missed = {}

Changed(seq) == kind[seq + 1] = "buffer_changed"

-----------------------------------------------------------------------------
(* The engine.                                                             *)

(* Mistake: a call that forgets to broadcast. *)
ChangeStateQuietly(t) ==
    /\ t \notin announcing \cup cancelling
    /\ next_seq + Cardinality(announcing) < MaxSeq
    /\ state' = state + 1
    /\ UNCHANGED <<vars, announcing, kind, panel>>

(* Any call that changes what the status shows; the bound leaves it room   *)
(* for its message.                                                        *)
ChangeState(t) ==
    /\ t \notin announcing \cup cancelling
    /\ next_seq + Cardinality(announcing) < MaxSeq
    /\ state' = state + 1
    /\ announcing' = announcing \cup {t}
    /\ UNCHANGED <<vars, kind, panel>>

(* broadcast_buffer_changed.                                               *)
Announce(t) ==
    /\ t \in announcing
    /\ Broadcast(t)
    /\ announcing' = announcing \ {t}
    /\ kind' = Append(kind, "buffer_changed")
    /\ UNCHANGED <<state, panel>>

(* broadcast_error, of a scan or a removal that was refused.               *)
AnnounceError(t) ==
    /\ t \notin announcing
    /\ next_seq + Cardinality(announcing) < MaxSeq
    /\ Broadcast(t)
    /\ kind' = Append(kind, "error")
    /\ UNCHANGED <<state, announcing, panel>>

(* grammar_engine_status_json, under e->lock.                              *)
StatusJson(c) ==
    /\ reading[c] = Asked
    /\ reading' = [reading EXCEPT ![c] = state]
    /\ UNCHANGED <<vars, state, announcing, kind, dirty, view, missed>>

-----------------------------------------------------------------------------
(* A panel.                                                                *)

Connect(c) ==
    /\ Established(c)
    /\ dirty' = dirty \cup {c}
    /\ UNCHANGED <<state, announcing, kind, reading, view, missed>>

Disconnect(c) ==
    /\ Closed(c)
    /\ dirty' = dirty \ {c}
    /\ reading' = [reading EXCEPT ![c] = NoRead]
    /\ view' = [view EXCEPT ![c] = NoView]
    /\ missed' = missed \ {c}
    /\ UNCHANGED <<state, announcing, kind>>

Skipped(c) == next_wanted[c] .. Resume(c) - 1

Receive(c) ==
    /\ Write(c)
    /\ IF Changed(unseen'[c] - 1)
       THEN dirty' = dirty \cup {c} /\ missed' = missed \ {c}
       ELSE /\ UNCHANGED dirty
            /\ missed' = IF \E seq \in Skipped(c) : Changed(seq)
                         THEN missed \cup {c} ELSE missed
    /\ UNCHANGED <<state, announcing, kind, reading, view>>

Ask(c) ==
    /\ c \in dirty
    /\ reading[c] = NoRead
    /\ dirty' = dirty \ {c}
    /\ reading' = [reading EXCEPT ![c] = Asked]
    /\ UNCHANGED <<vars, state, announcing, kind, view, missed>>

Show(c) ==
    /\ reading[c] \notin {NoRead, Asked}
    /\ view' = [view EXCEPT ![c] = reading[c]]
    /\ reading' = [reading EXCEPT ![c] = NoRead]
    /\ UNCHANGED <<vars, state, announcing, kind, dirty, missed>>

Feed ==
    \/ \E t \in Threads : CancelService(t)
    \/ \E c \in Clients : NothingToWrite(c)
    \/ Rearm
    \/ PollEnter
    \/ PollReturn
    \/ PollTimeout

LiveNext ==
    \/ \E t \in Threads : ChangeState(t)
    \/ \E t \in Threads : Announce(t)
    \/ \E t \in Threads : AnnounceError(t)
    \/ \E c \in Clients : StatusJson(c)
    \/ \E c \in Clients : Connect(c)
    \/ \E c \in Clients : Disconnect(c)
    \/ \E c \in Clients : Receive(c)
    \/ \E c \in Clients : Ask(c)
    \/ \E c \in Clients : Show(c)
    \/ Feed /\ UNCHANGED viewVars

LiveSpec == LiveInit /\ [][LiveNext]_allVars

(* That of the feed; a call that has changed the state broadcasts; a panel *)
(* asks, is answered, and shows.                                           *)
LiveFairness ==
    /\ Fairness
    /\ \A t \in Threads : WF_allVars(Announce(t))
    /\ \A c \in Clients :
          WF_allVars(Ask(c)) /\ WF_allVars(StatusJson(c)) /\ WF_allVars(Show(c))

LiveFairSpec == LiveSpec /\ LiveFairness

-----------------------------------------------------------------------------
(* Properties.                                                             *)

LiveTypeOK ==
    /\ TypeOK
    /\ state \in Nat
    /\ announcing \subseteq Threads
    /\ kind \in Seq({"buffer_changed", "error"})
    /\ Len(kind) = next_seq
    /\ dirty \subseteq sessions /\ missed \subseteq sessions
    /\ reading \in [Clients -> Nat \cup {NoRead, Asked}]
    /\ view \in [Clients -> Nat \cup {NoView}]

(* A change that some client has yet to be told of. *)
NewsFor(c) == \E seq \in next_wanted[c] .. next_seq - 1 : Changed(seq)

(* No connected panel shows an old state with nothing on the way to tell   *)
(* it: the call that changed it has yet to broadcast, the message has yet  *)
(* to be sent, or the panel is about to look or being answered with the    *)
(* current state.  A state read in between two changes is always followed  *)
(* by the news of the second.  The one exception is a client that fell     *)
(* behind the ring and found only errors left in it.                       *)
NoSilentStaleness ==
    \A c \in sessions : view[c] # state =>
        \/ announcing # {} \/ NewsFor(c)
        \/ c \in dirty \/ reading[c] \in {Asked, state}
        \/ c \in missed

(* A panel that stays connected and keeps up shows, in the end, the state  *)
(* the engine is in.                                                       *)
ViewCatchesUp ==
    \A c \in Clients :
        [](c \in sessions =>
              <>(c \notin sessions \/ c \in missed \/ view[c] = state))
=============================================================================
