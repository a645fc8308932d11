--------------------------- MODULE LifecycleProofs ---------------------------
(* Proofs about the life of the process: which parts exist at each place of *)
(* main, and what that means for the threads.                               *)
(*                                                                          *)
(* The parts form a stack, and main frees none of them before all that may  *)
(* use it: Stacked says so of the parts, Progress says how far main has got *)
(* with them, and Attended that a thread lives only as long as its part.    *)
EXTENDS Lifecycle, TLAPS

Waiting == {"top", "wait"}
AnyCall == {"asks", "engine", "engine_asks", "engine_broadcast"}
HttpCall == {"unlocked", "broadcast", "listing"}

(* Where each thread may be.                                                *)
Places(t) ==
    Absent \cup Waiting
    \cup (IF t = "service" THEN {"callback"} ELSE AnyCall)
    \cup (IF t = "http" THEN HttpCall ELSE {})

Starting == {"open_db", "start_ws", "create_engine", "start_scanner", "start_http"}
Stopping == {"stop", "join"}

PlacesOK ==
    /\ pc \in Starting \cup {"check", "sleep"} \cup Stopping \cup {"close_db", "exit"}
    /\ turn \in 1 .. 5
    /\ pc \in Stopping => turn \in 1 .. 4
    /\ pc \in Starting \cup {"check", "sleep"} => turn = 1
    /\ up \subseteq Parts
    /\ DOMAIN at = Threads
    /\ \A t \in Threads : at[t] \in Places(t)

(* A part is there only with those its threads call.                        *)
Stacked ==
    /\ up \cap {"scanner", "http"} # {} => "engine" \in up
    /\ "engine" \in up => "ws" \in up
    /\ "ws" \in up => "db" \in up

(* What main has started when it is about to start the next part, and what  *)
(* it has freed when it is about to free the next.                          *)
Progress ==
    /\ pc = "start_ws" => up = {"db"}
    /\ pc = "create_engine" => up = {"db", "ws"}
    /\ pc = "start_scanner" => up = {"db", "ws", "engine"}
    /\ pc = "start_http" => "engine" \in up
    /\ pc \in Starting => "http" \notin up
    /\ pc \in Stopping => \A k \in 1 .. turn - 1 : StopOrder[k] \notin up
    /\ pc = "close_db" => up = {"db"}
    /\ IF pc \in {"open_db", "exit"} THEN up = {} ELSE "db" \in up

Attended ==
    \A t \in Threads : at[t] \notin Absent =>
        \E part \in up : ThreadOf[part] = t

LifeInv == PlacesOK /\ Stacked /\ Progress /\ Attended

-----------------------------------------------------------------------------
(* A thread that lives may go to any of its places.                         *)
LEMMA MoveKeeps ==
    ASSUME LifeInv, NEW t \in Threads, NEW from, NEW to \in Places(t),
           from \notin Absent, Moves(t, from, to)
    PROVE  LifeInv'
<1>1. at' = [at EXCEPT ![t] = to] /\ at[t] \notin Absent
      /\ UNCHANGED <<pc, turn, running, up, stop>>
  BY DEF Moves
<1>2. PlacesOK'
  BY <1>1 DEF LifeInv, PlacesOK, Places
<1>3. Stacked' /\ Progress'
  BY <1>1 DEF LifeInv, Stacked, Progress
<1>4. Attended'
  BY <1>1 DEF LifeInv, Attended, PlacesOK
<1> QED
  BY <1>2, <1>3, <1>4 DEF LifeInv

LEMMA InitLife == Init => LifeInv
BY DEF Init, LifeInv, PlacesOK, Stacked, Progress, Attended, Starting,
       Stopping, Places, Absent, Threads

(* The five starts.                                                         *)
LEMMA StartsKeep ==
    ASSUME LifeInv, OpenDb \/ StartWs \/ CreateEngine \/ StartScanner \/ StartHttp
    PROVE  LifeInv'
<1> USE DEF LifeInv, Starting, Stopping, Started, Failed
<1>1. CASE OpenDb
  <2>1. PlacesOK'
    BY <1>1 DEF PlacesOK, OpenDb, Places, Waiting, Parts, Threads
  <2>2. Stacked' /\ Progress'
    BY <1>1 DEF OpenDb, Stacked, Progress
  <2>3. Attended'
    BY <1>1 DEF OpenDb, Attended
  <2> QED
    BY <2>1, <2>2, <2>3
<1>2. CASE StartWs
  <2>1. PlacesOK'
    BY <1>2 DEF PlacesOK, StartWs, Places, Waiting, Parts, Threads
  <2>2. Stacked' /\ Progress'
    BY <1>2 DEF StartWs, Stacked, Progress
  <2>3. Attended'
    BY <1>2 DEF StartWs, Attended, Absent, ThreadOf, Parts, Threads
  <2> QED
    BY <2>1, <2>2, <2>3
<1>3. CASE CreateEngine
  <2>1. PlacesOK'
    BY <1>3 DEF PlacesOK, CreateEngine, Places, Waiting, Parts, Threads
  <2>2. Stacked' /\ Progress'
    BY <1>3 DEF CreateEngine, Stacked, Progress
  <2>3. Attended'
    BY <1>3 DEF CreateEngine, Attended, Absent, ThreadOf, Parts, Threads
  <2> QED
    BY <2>1, <2>2, <2>3
<1>4. CASE StartScanner
  <2>1. PlacesOK'
    BY <1>4 DEF PlacesOK, StartScanner, Places, Waiting, Parts, Threads
  <2>2. Stacked' /\ Progress'
    BY <1>4 DEF StartScanner, Stacked, Progress
  <2>3. Attended'
    BY <1>4 DEF StartScanner, Attended, Absent, ThreadOf, Parts, Threads
  <2> QED
    BY <2>1, <2>2, <2>3
<1>5. CASE StartHttp
  <2>1. PlacesOK'
    <3>1. pc = "start_http" /\ turn = 1
      BY <1>5 DEF PlacesOK, StartHttp
    <3>2. CASE Started("http", {"http"}, "check") /\ UNCHANGED turn
      <4>1. \A t \in Threads : at'[t] \in Places(t)
        BY <3>2 DEF PlacesOK, Places, Waiting
      <4> QED
        BY <3>1, <3>2, <4>1 DEF PlacesOK, Parts
    <3>3. CASE Failed("stop") /\ turn' = FirstToCleanUp
      BY <3>1, <3>3 DEF PlacesOK, FirstToCleanUp
    <3> QED
      BY <1>5, <3>2, <3>3 DEF StartHttp
  <2>2. Stacked' /\ Progress'
    BY <1>5 DEF StartHttp, FirstToCleanUp, StopOrder, Stacked, Progress
  <2>3. Attended'
    BY <1>5 DEF StartHttp, Attended, Absent, ThreadOf, Parts, Threads
  <2> QED
    BY <2>1, <2>2, <2>3
<1> QED
  BY <1>1, <1>2, <1>3, <1>4, <1>5

LEMMA LoopKeeps ==
    ASSUME LifeInv, Check \/ Sleep \/ Signal
    PROVE  LifeInv'
BY DEF LifeInv, PlacesOK, Stacked, Progress, Attended, Check, Sleep, Signal,
       Starting, Stopping

(* The stops: what is left of the parts after the one of this turn.         *)
LEMMA Turns ==
    ASSUME PlacesOK, pc \in Stopping
    PROVE  /\ turn \in 1 .. 4 /\ Len(StopOrder) = 4
           /\ turn = 1 => StopOrder[turn] = "http"
           /\ turn = 2 => StopOrder[turn] = "scanner"
           /\ turn = 3 => StopOrder[turn] = "engine"
           /\ turn = 4 => StopOrder[turn] = "ws"
BY DEF PlacesOK, StopOrder

LEMMA NextStopKeeps ==
    ASSUME LifeInv, pc \in Stopping, NextStop, up' = up \ {StopOrder[turn]},
           UNCHANGED <<running, at, stop>>
    PROVE  PlacesOK' /\ Stacked' /\ Progress'
<1>0. PlacesOK /\ Stacked /\ Progress
  BY DEF LifeInv
<1>1. PlacesOK'
  <2>1. /\ pc' \in {"close_db", "stop"} /\ turn' \in 2 .. 5
        /\ pc' = "stop" => turn' \in 2 .. 4
    BY <1>0, Turns DEF NextStop
  <2>2. up' \subseteq Parts /\ at' = at
    BY <1>0 DEF PlacesOK
  <2> QED
    BY <1>0, <2>1, <2>2 DEF PlacesOK, Starting, Stopping
<1>2. Stacked'
  BY <1>0, Turns DEF Stacked, Progress, StopOrder
<1>3. Progress'
  <2>1. \A k \in 1 .. turn : StopOrder[k] \notin up'
    BY <1>0, Turns DEF Progress
  <2>2. "db" \in up'
    BY <1>0, Turns DEF Progress, Stopping
  <2>3. CASE turn = 4
    <3>1. pc' = "close_db"
      BY <2>3, Turns, <1>0 DEF NextStop
    <3>2. up' \subseteq {"db"}
      BY <2>1, <2>3, <1>0 DEF PlacesOK, Parts, StopOrder
    <3> QED
      BY <3>1, <3>2, <2>2 DEF Progress, Starting, Stopping
  <2>4. CASE turn # 4
    <3>1. pc' = "stop" /\ turn' = turn + 1 /\ turn \in 1 .. 3
      BY <2>4, Turns, <1>0 DEF NextStop
    <3> QED
      BY <3>1, <2>1, <2>2 DEF Progress, Starting, Stopping
  <2> QED
    BY <2>3, <2>4
<1> QED
  BY <1>1, <1>2, <1>3

LEMMA StopsKeep ==
    ASSUME LifeInv, Skip \/ RaiseFlag \/ Join \/ CloseDb
    PROVE  LifeInv'
<1>1. CASE Skip
  <2>1. up' = up \ {StopOrder[turn]} /\ pc \in Stopping
    BY <1>1 DEF Skip, Stopping
  <2>2. Attended'
    BY <1>1 DEF Skip, LifeInv, Attended
  <2> QED
    BY <1>1, <2>1, <2>2, NextStopKeeps DEF Skip, LifeInv
<1>2. CASE RaiseFlag
  BY <1>2 DEF RaiseFlag, LifeInv, PlacesOK, Stacked, Progress, Attended,
              Starting, Stopping
<1>3. CASE Join
  <2>1. pc \in Stopping
    BY <1>3 DEF Join, Stopping
  <2>2. Attended'
    <3> SUFFICES ASSUME NEW t \in Threads, at[t] \notin Absent
                 PROVE  \E part \in up' : ThreadOf[part] = t
      BY <1>3 DEF Join, Attended
    <3>1. PICK part \in up : ThreadOf[part] = t
      BY DEF LifeInv, Attended
    <3>2. part # StopOrder[turn]
      BY <1>3, <3>1 DEF Join, Absent
    <3> QED
      BY <1>3, <3>1, <3>2 DEF Join
  <2> QED
    BY <1>3, <2>1, <2>2, NextStopKeeps DEF Join, LifeInv
<1>4. CASE CloseDb
  <2>1. up = {"db"} /\ up' = {} /\ pc' = "exit" /\ at' = at /\ turn' = turn
    BY <1>4 DEF CloseDb, LifeInv, Progress
  <2>2. Attended'
    BY <2>1 DEF LifeInv, Attended, ThreadOf, Parts, Threads
  <2> QED
    BY <2>1, <2>2 DEF LifeInv, PlacesOK, Stacked, Progress, Starting, Stopping
<1> QED
  BY <1>1, <1>2, <1>3, <1>4

LEMMA ThreadsKeep ==
    ASSUME LifeInv, NEW t \in Threads,
           Top(t) \/ NothingCame(t)
    PROVE  LifeInv'
BY MoveKeeps DEF Top, NothingCame, Places, Absent, Waiting

LEMMA CallersKeep ==
    ASSUME LifeInv, NEW t \in Callers,
           \/ AskForEngine(t) \/ EnterEngine(t) \/ LeaveEngine(t)
           \/ AskForWs(t) \/ BroadcastInEngine(t) \/ EndBroadcastInEngine(t)
    PROVE  LifeInv'
<1>1. t \in Threads /\ AnyCall \cup Waiting \subseteq Places(t)
  BY DEF Callers, Threads, Places
<1>2. Loop(t) \in Waiting
  BY DEF Loop, Waiting
<1> QED
  BY <1>1, <1>2, MoveKeeps DEF AskForEngine, EnterEngine, LeaveEngine, AskForWs,
       BroadcastInEngine, EndBroadcastInEngine, AnyCall, Waiting, Absent

LEMMA HttpKeeps ==
    ASSUME LifeInv,
           LeaveToBroadcast \/ BroadcastAfter \/ EndBroadcast \/ ListRows \/ EndList
    PROVE  LifeInv'
<1>1. "http" \in Threads /\ HttpCall \cup Waiting \subseteq Places("http")
  BY DEF Threads, Places
<1> QED
  BY <1>1, MoveKeeps DEF LeaveToBroadcast, BroadcastAfter, EndBroadcast, ListRows, EndList,
       HttpCall, Waiting, Absent

LEMMA ServiceKeeps ==
    ASSUME LifeInv, Callback \/ EndCallback
    PROVE  LifeInv'
<1>1. "service" \in Threads /\ {"callback", "top"} \subseteq Places("service")
  BY DEF Threads, Places, Waiting
<1> QED
  BY <1>1, MoveKeeps DEF Callback, EndCallback, Absent

LEMMA LifeInvariant == Spec => []LifeInv
<1>1. LifeInv /\ [Next]_vars => LifeInv'
  <2> SUFFICES ASSUME LifeInv, [Next]_vars
               PROVE  LifeInv'
    OBVIOUS
  <2>1. CASE MainStep
    BY <2>1, StartsKeep, LoopKeeps, StopsKeep DEF MainStep
  <2>2. CASE UNCHANGED vars
    BY <2>2 DEF vars, LifeInv, PlacesOK, Stacked, Progress, Attended
  <2>3. CASE Exited
    BY <2>2, <2>3 DEF Exited
  <2> QED
    BY <2>1, <2>2, <2>3, LoopKeeps, ThreadsKeep, CallersKeep, HttpKeeps, ServiceKeeps
       DEF Next
<1> QED
  BY <1>1, InitLife, PTL DEF Spec

-----------------------------------------------------------------------------
(* No thread uses a part that is not there yet or has been freed: main      *)
(* starts and stops in an order that keeps, below every living thread, all  *)
(* that it calls.                                                           *)
THEOREM UseCorrect == Spec => []UsesOnlyLive
<1>1. LifeInv => UsesOnlyLive
  <2> SUFFICES ASSUME LifeInv, NEW t \in Threads
               PROVE  Uses(t) \subseteq up
    BY DEF UsesOnlyLive
  <2>1. CASE at[t] \in Absent
    BY <2>1 DEF Uses, Absent, HoldsEngine, HoldsWs
  <2>2. CASE at[t] \notin Absent
    <3>1. PICK part \in up : ThreadOf[part] = t
      BY <2>2 DEF LifeInv, Attended
    <3>2. part \in Parts
      BY DEF LifeInv, PlacesOK
    <3>3. \A other \in Parts : ThreadOf[other] = t => other = part
      BY <3>1, <3>2 DEF ThreadOf, Parts, Threads
    <3>4. {other \in Parts : ThreadOf[other] = t /\ at[t] \notin Absent} \subseteq up
      BY <3>1, <3>3
    <3>5. CASE t = "service"
      <4>1. at[t] \in Absent \cup Waiting \cup {"callback"}
        BY <3>5 DEF LifeInv, PlacesOK, Places
      <4>2. "ws" \in up
        BY <3>1, <3>2, <3>5 DEF ThreadOf, Parts
      <4> QED
        BY <3>4, <4>1, <4>2 DEF Uses, Absent, Waiting, HoldsEngine, HoldsWs
    <3>6. CASE t # "service"
      <4>1. part \in {"engine", "scanner", "http"}
        BY <3>1, <3>2, <3>6 DEF ThreadOf, Parts, Threads
      <4>2. {"engine", "ws", "db"} \subseteq up
        BY <3>1, <4>1 DEF LifeInv, Stacked
      <4> QED
        BY <3>4, <4>2 DEF Uses
    <3> QED
      BY <3>5, <3>6
  <2> QED
    BY <2>1, <2>2
<1> QED
  BY <1>1, LifeInvariant, PTL

(* When main returns nothing it created is left and no thread runs.         *)
THEOREM ExitCorrect == Spec => []NothingLeftRunning
<1>1. LifeInv => NothingLeftRunning
  BY DEF LifeInv, Progress, Attended, NothingLeftRunning
<1> QED
  BY <1>1, LifeInvariant, PTL
=============================================================================
