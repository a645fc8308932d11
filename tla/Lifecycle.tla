------------------------------ MODULE Lifecycle ------------------------------
(***************************************************************************)
(* The life of the process (backend/src/main.c): the parts main starts one *)
(* after the other, the threads they bring, and the stop of all of it on a *)
(* signal or on a part that does not start.                                *)
(*                                                                         *)
(* A thread is known by where it is: at the top of its loop, where it      *)
(* looks at its stop flag; waiting (for a key, a request, a second to      *)
(* pass); in the engine, holding e->lock; broadcasting, with or without    *)
(* e->lock, holding ws->lock.  What it does there is in GrammarEngine and  *)
(* WsServer.  The service thread's callbacks hold ws->lock.                *)
(*                                                                         *)
(* A definition introduced as "Mistake:" is not part of the model.         *)
(***************************************************************************)
EXTENDS Integers, Sequences

Parts    == {"db", "ws", "engine", "scanner", "http"}
Threads  == {"service", "ticker", "scanner", "http"}
Callers  == {"ticker", "scanner", "http"}    \* those that call the engine
Absent   == {"none", "done"}                 \* not started yet, or returned
HoldsEngine == {"engine", "engine_asks", "engine_broadcast"}
HoldsWs     == {"engine_broadcast", "broadcast", "callback"}

VARIABLES
    pc,               \* what main does next
    turn,             \* which part it stops next
    running,          \* g_running
    up,               \* the parts that exist: created and not yet freed
    at,               \* where each thread is
    stop              \* threads whose stop flag is set

vars == <<pc, turn, running, up, at, stop>>

Init ==
    /\ pc = "open_db"
    /\ turn = 1
    /\ running = TRUE
    /\ up = {}
    /\ at = [t \in Threads |-> "none"]
    /\ stop = {}

-----------------------------------------------------------------------------
(* main, from the start to the loop.                                       *)

(* A part without a thread of its own, or with a thread of the same step.  *)
Started(part, threads, next) ==
    /\ up' = up \cup {part}
    /\ at' = [t \in Threads |-> IF t \in threads THEN "top" ELSE at[t]]
    /\ pc' = next
    /\ UNCHANGED <<running, stop>>

Failed(next) ==
    /\ pc' = next
    /\ UNCHANGED <<running, up, at, stop>>

(* db_open does not close the handle of an sqlite3_open that has failed;   *)
(* what a part keeps when it fails to start is not seen here.              *)
OpenDb ==
    /\ pc = "open_db"
    /\ Started("db", {}, "start_ws") \/ Failed("exit")
    /\ UNCHANGED turn

StartWs ==
    /\ pc = "start_ws"
    /\ Started("ws", {"service"}, "create_engine") \/ Failed("close_db")
    /\ UNCHANGED turn

CreateEngine ==
    /\ pc = "create_engine"
    /\ Started("engine", {"ticker"}, "start_scanner")
    /\ UNCHANGED turn

(* Without a device, or with one that cannot be grabbed, there is no       *)
(* scanner thread; the debug endpoint then takes the scans (main.c:70).    *)
StartScanner ==
    /\ pc = "start_scanner"
    /\ Started("scanner", {"scanner"}, "start_http") \/ Failed("start_http")
    /\ UNCHANGED turn

(* Mistake: the scanner is forgotten when the last part fails. *)
FirstToCleanUpEngine == 3

(* Where the stops begin when the HTTP server does not start.              *)
FirstToCleanUp == 2

StartHttp ==
    /\ pc = "start_http"
    /\ \/ Started("http", {"http"}, "check") /\ UNCHANGED turn
       \/ Failed("stop") /\ turn' = FirstToCleanUp

Check ==
    /\ pc = "check"
    /\ pc' = IF running THEN "sleep" ELSE "stop"
    /\ UNCHANGED <<turn, running, up, at, stop>>

(* After a second, or cut short by a signal.                               *)
Sleep ==
    /\ pc = "sleep"
    /\ pc' = "check"
    /\ UNCHANGED <<turn, running, up, at, stop>>

Signal ==
    /\ running
    /\ running' = FALSE
    /\ UNCHANGED <<pc, turn, up, at, stop>>

-----------------------------------------------------------------------------
(* main, from the loop to the end: each part is told to stop, its thread   *)
(* joined, and the part freed.                                             *)

(* Mistake: the feed is stopped before those who broadcast. *)
StopWsFirst == <<"http", "ws", "scanner", "engine">>

StopOrder == <<"http", "scanner", "engine", "ws">>

ThreadOf == [part \in Parts |-> CASE part = "engine" -> "ticker"
                                  [] part = "ws" -> "service"
                                  [] OTHER -> part]

NextStop ==
    /\ turn' = turn + 1
    /\ pc' = IF turn = Len(StopOrder) THEN "close_db" ELSE "stop"

(* main stops a scanner only if there is one.                              *)
Skip ==
    /\ pc = "stop"
    /\ StopOrder[turn] \notin up
    /\ NextStop
    /\ UNCHANGED <<running, up, at, stop>>

RaiseFlag ==
    /\ pc = "stop"
    /\ StopOrder[turn] \in up
    /\ stop' = stop \cup {ThreadOf[StopOrder[turn]]}
    /\ pc' = "join"
    /\ UNCHANGED <<running, up, at, turn>>

Join ==
    /\ pc = "join"
    /\ at[ThreadOf[StopOrder[turn]]] = "done"
    /\ up' = up \ {StopOrder[turn]}
    /\ NextStop
    /\ UNCHANGED <<running, at, stop>>

CloseDb ==
    /\ pc = "close_db"
    /\ up' = up \ {"db"}
    /\ pc' = "exit"
    /\ UNCHANGED <<turn, running, at, stop>>

-----------------------------------------------------------------------------
(* The threads.                                                            *)

Moves(t, from, to) ==
    /\ at[t] = from
    /\ at' = [at EXCEPT ![t] = to]
    /\ UNCHANGED <<pc, turn, running, up, stop>>

(* The flag is looked at between two waits; MHD_stop_daemon likewise lets  *)
(* a request that is being handled finish.                                 *)
Top(t) == Moves(t, "top", IF t \in stop THEN "done" ELSE "wait")

(* No key, request or socket in time.  (The ticker always goes on.)        *)
NothingCame(t) == t # "ticker" /\ Moves(t, "wait", "top")

AskForEngine(t) == Moves(t, "wait", "asks")

(* Mistake: grammar_engine_destroy holds e->lock as other calls do. *)
EngineFreeUnlessDestroyed ==
    /\ \A t \in Threads : at[t] \notin HoldsEngine
    /\ ~(pc = "join" /\ StopOrder[turn] = "engine")

EngineFree == \A t \in Threads : at[t] \notin HoldsEngine

EnterEngine(t) == EngineFree /\ Moves(t, "asks", "engine")

(* The scanner reads on as long as there are events, without a look at its *)
(* flag.                                                                   *)
Loop(t) == IF t = "scanner" THEN "wait" ELSE "top"

LeaveEngine(t) == Moves(t, "engine", Loop(t))

AskForWs(t) == Moves(t, "engine", "engine_asks")

WsFree == \A t \in Threads : at[t] \notin HoldsWs

BroadcastInEngine(t) == WsFree /\ Moves(t, "engine_asks", "engine_broadcast")

(* (The ticker, which may broadcast twice, then does so as one.)           *)
EndBroadcastInEngine(t) == Moves(t, "engine_broadcast", Loop(t))

(* Many a call broadcasts after it has released e->lock; those of the      *)
(* scanner and the ticker never do.                                        *)
LeaveToBroadcast == Moves("http", "engine", "unlocked")
BroadcastAfter   == WsFree /\ Moves("http", "unlocked", "broadcast")
EndBroadcast     == Moves("http", "broadcast", "top")

(* The listings read the database without the engine.                      *)
ListRows == Moves("http", "wait", "listing")
EndList  == Moves("http", "listing", "top")

Callback    == WsFree /\ Moves("service", "wait", "callback")
EndCallback == Moves("service", "callback", "top")

MainStep ==
    \/ OpenDb \/ StartWs \/ CreateEngine \/ StartScanner \/ StartHttp
    \/ Check \/ Sleep
    \/ Skip \/ RaiseFlag \/ Join \/ CloseDb

(* The process is over.                                                    *)
Exited == pc = "exit" /\ UNCHANGED vars

Next ==
    \/ MainStep
    \/ Signal
    \/ \E t \in Threads : Top(t)
    \/ \E t \in Threads : NothingCame(t)
    \/ \E t \in Callers : AskForEngine(t)
    \/ \E t \in Callers : EnterEngine(t)
    \/ \E t \in Callers : LeaveEngine(t)
    \/ \E t \in Callers : AskForWs(t)
    \/ \E t \in Callers : BroadcastInEngine(t)
    \/ \E t \in Callers : EndBroadcastInEngine(t)
    \/ LeaveToBroadcast \/ BroadcastAfter \/ EndBroadcast
    \/ ListRows \/ EndList
    \/ Callback \/ EndCallback
    \/ Exited

Spec == Init /\ [][Next]_vars

(* Every thread gets its turn, and a lock is granted in the end to one who *)
(* waits for it.  A device pauses now and then: scan_loop comes to its     *)
(* flag only then.                                                         *)
Fairness ==
    /\ WF_vars(MainStep)
    /\ \A t \in Threads : WF_vars(Top(t)) /\ WF_vars(NothingCame(t))
    /\ SF_vars(NothingCame("scanner"))
    /\ WF_vars(AskForEngine("ticker"))
    /\ \A t \in Callers :
          /\ SF_vars(EnterEngine(t)) /\ WF_vars(LeaveEngine(t))
          /\ WF_vars(EndBroadcastInEngine(t))
    /\ SF_vars(\E t \in Callers : BroadcastInEngine(t))
    /\ SF_vars(BroadcastAfter) /\ WF_vars(EndBroadcast)
    /\ WF_vars(EndList) /\ WF_vars(EndCallback)

FairSpec == Spec /\ Fairness

-----------------------------------------------------------------------------
(* Properties.                                                             *)

(* What a thread uses where it is: its own part, for the flag at least; the *)
(* engine and the database it works on; the feed it broadcasts to.         *)
Uses(t) ==
    {part \in Parts : ThreadOf[part] = t /\ at[t] \notin Absent}
    \cup (IF at[t] \in HoldsEngine \cup {"asks"} THEN {"engine", "db"} ELSE {})
    \cup (IF at[t] \in HoldsWs \cup {"engine_asks"} THEN {"ws"} ELSE {})
    \cup (IF at[t] \in {"unlocked", "broadcast"} THEN {"engine", "ws"} ELSE {})
    \cup (IF at[t] = "listing" THEN {"db"} ELSE {})

(* No thread ever uses a part that is not there yet or has been freed, in  *)
(* whatever order parts fail to start, requests, scans and callbacks go on *)
(* and the signal comes.                                                   *)
UsesOnlyLive == \A t \in Threads : Uses(t) \subseteq up

(* When main returns everything it created has been freed and every thread *)
(* has returned, on the paths of a failed start as well.                   *)
NothingLeftRunning ==
    pc = "exit" => up = {} /\ \A t \in Threads : at[t] \in Absent

(* A signal ends the process, whenever it comes: before the loop, between  *)
(* the test of g_running and the sleep, or during a broadcast.             *)
SignalEndsProcess == ~running ~> pc = "exit"
=============================================================================
