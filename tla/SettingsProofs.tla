--------------------------- MODULE SettingsProofs ---------------------------
(* Proofs about the setting, for any width of int, any numbers sent or       *)
(* written into the file by hand and any movement of the clock.              *)
EXTENDS Settings, TLAPS

(* Whatever long is sent or found, the cast makes an int of it.              *)
LEMMA IntOfType ==
    ASSUME NEW value \in Int
    PROVE  IntOf(value) \in -IntLimit .. IntLimit - 1
<1> DEFINE N == 2 * IntLimit
           x == value + IntLimit
<1>1. IntLimit \in Nat /\ N \in Nat \ {0} /\ x \in Int
  BY SettingsAssumption
<1> HIDE DEF N, x
<1>2. x % N \in 0 .. N - 1
  BY <1>1
<1> QED
  BY <1>1, <1>2, SettingsAssumption DEF IntOf, N, x

(* A positive int is its own cast: what config_save writes is loaded as it is. *)
LEMMA IntOfTimeout ==
    ASSUME NEW value \in Timeouts
    PROVE  IntOf(value) = value
<1> DEFINE N == 2 * IntLimit
           x == value + IntLimit
<1>1. IntLimit \in Nat /\ N \in Nat \ {0} /\ x \in 0 .. N - 1
  BY SettingsAssumption DEF Timeouts
<1> HIDE DEF N, x
<1>2. x % N = x
  BY <1>1
<1> QED
  BY <1>1, <1>2, SettingsAssumption DEF IntOf, N, x, Timeouts

(* A value the two checks let pass is a timeout.                             *)
LEMMA AcceptedType ==
    ASSUME NEW value \in Sent, Acceptable(value)
    PROVE  IntOf(value) \in Timeouts /\ IntOf(value) \in Nat \ {0}
<1>1. value \in Int
  BY SettingsAssumption
<1> QED
  BY <1>1, IntOfType, SettingsAssumption DEF Acceptable, Timeouts

(* The numbers a timeout may be.                                             *)
Possible == Timeouts \cup {IntOf(number) : number \in Edited}

LEMMA LoadOne ==
    ASSUME NEW number
    PROVE  Load({number}) = IntOf(number)
BY DEF Load

LEMMA LoadType ==
    ASSUME NEW content \in {{}} \cup {{number} : number \in Timeouts \cup Edited}
    PROVE  Load(content) \in Possible
<1>1. CASE content = {}
  BY <1>1, SettingsAssumption DEF Load, Possible, Timeouts
<1>2. ASSUME NEW number \in Timeouts, content = {number}
      PROVE  Load(content) \in Possible
  BY <1>2, LoadOne, IntOfTimeout DEF Possible
<1>3. ASSUME NEW number \in Edited, content = {number}
      PROVE  Load(content) \in Possible
  BY <1>3, LoadOne DEF Possible
<1> QED
  BY <1>1, <1>2, <1>3

(* A timeout is an int, also one that comes from an edited file.             *)
LEMMA PossibleType == Possible \subseteq -IntLimit .. IntLimit - 1
<1>1. Timeouts \subseteq -IntLimit .. IntLimit - 1
  BY SettingsAssumption DEF Timeouts
<1>2. \A number \in Edited : IntOf(number) \in -IntLimit .. IntLimit - 1
  BY IntOfType, SettingsAssumption
<1> QED
  BY <1>1, <1>2 DEF Possible

(* Ages stay whole numbers, however the clock moves.                         *)
LEMMA MovedType ==
    ASSUME NEW age \in Int, NEW d \in Int, NEW later \in Moved(age, d)
    PROVE  later \in Int
<1>1. Horizon \in Int
  BY SettingsAssumption DEF Horizon
<1>2. CASE age < Horizon \/ d >= 0
  BY <1>1, <1>2 DEF Moved, Capped
<1>3. CASE ~(age < Horizon \/ d >= 0)
  BY <1>1, <1>3 DEF Moved
<1> QED
  BY <1>2, <1>3

-----------------------------------------------------------------------------
(* TypeOK in two parts: all but the one truth value, and that.               *)
NumbersOK ==
    /\ timeout \in Possible
    /\ file \in {{}} \cup {{number} : number \in Timeouts \cup Edited}
    /\ accepted \in Nat
    /\ session \in {"none", "open", "frozen"}
    /\ removal_age \in Int
    /\ activity_age \in Int
    /\ clock_steps \in Nat

LEMMA TypeParts == TypeOK <=> NumbersOK /\ removal_open \in BOOLEAN
BY DEF TypeOK, NumbersOK, Possible

LEMMA InitType == Init => TypeOK
<1> SUFFICES ASSUME Init
             PROVE  TypeOK
  OBVIOUS
<1>1. file \in {{}} \cup {{number} : number \in Timeouts \cup Edited}
  BY DEF Init, Contents
<1>2. NumbersOK
  BY <1>1, LoadType DEF Init, NumbersOK, Nothing
<1>3. removal_open \in BOOLEAN
  BY DEF Init
<1> QED
  BY <1>2, <1>3, TypeParts

LEMMA ClockType ==
    ASSUME NumbersOK, NEW d \in Int, ClockMoves(d)
    PROVE  /\ removal_age' \in Int /\ activity_age' \in Int
           /\ UNCHANGED <<timeout, file, accepted, session>>
<1>1. removal_age' \in Moved(removal_age, d) \/ removal_age' = 0
  BY ZenonT(30) DEF ClockMoves
<1>2. activity_age' \in Moved(activity_age, d) \/ activity_age' = 0
  BY ZenonT(30) DEF ClockMoves
<1>3. UNCHANGED <<timeout, file, accepted, session>>
  BY DEF ClockMoves, setting
<1> QED
  BY <1>1, <1>2, <1>3, MovedType DEF NumbersOK

LEMMA StepNumbers == NumbersOK /\ [Next]_vars => NumbersOK'
<1> SUFFICES ASSUME NumbersOK, [Next]_vars
             PROVE  NumbersOK'
  OBVIOUS
<1> USE DEF NumbersOK, setting, removal, work
<1>1. ASSUME NEW value \in Sent, UpdateSetting(value)
      PROVE  NumbersOK'
  <2>1. IntOf(value) \in Timeouts /\ IntOf(value) \in Nat
    BY <1>1, AcceptedType DEF UpdateSetting
  <2>2. IntOf(value) \in Possible /\ {IntOf(value)} \in {{number} : number \in Timeouts \cup Edited}
    BY <2>1 DEF Possible
  <2> QED
    BY <1>1, <2>1, <2>2 DEF UpdateSetting, Saved, Nothing
<1>2. ASSUME NEW value \in Sent, CrashInSave(value)
      PROVE  NumbersOK'
  BY <1>2, LoadType DEF CrashInSave, Restarted, Nothing
<1>3. CASE Edit
  BY <1>3 DEF Edit, Contents, Nothing
<1>4. CASE Restart
  BY <1>4, LoadType DEF Restart, Restarted
<1>5. CASE OpenOrRestore
  BY <1>5 DEF OpenOrRestore
<1>6. CASE EndSession
  BY <1>6 DEF EndSession
<1>7. CASE Scan
  BY <1>7 DEF Scan
<1>8. CASE ToggleClose
  BY <1>8 DEF ToggleClose
<1>9. CASE OtherActivity
  BY <1>9 DEF OtherActivity
<1>10. CASE Tick
  BY <1>10, ClockType DEF Tick
<1>11. CASE SetClock
  <2>1. PICK d \in -MaxBack .. MaxAhead : ClockMoves(d)
    BY <1>11 DEF SetClock
  <2>2. d \in Int
    BY <2>1, SettingsAssumption
  <2> QED
    BY <1>11, <2>1, <2>2, ClockType DEF SetClock
<1>12. CASE Ticker
  <2>1. removal_age' \in {0, removal_age} /\ activity_age' \in {0, activity_age}
    BY <1>12, ZenonT(30) DEF Ticker
  <2>2. session' \in {"frozen", session} /\ UNCHANGED <<timeout, file, accepted, clock_steps>>
    BY <1>12, ZenonT(30) DEF Ticker
  <2> QED
    BY <2>1, <2>2
<1>13. CASE UNCHANGED vars
  BY <1>13 DEF vars
<1> QED
  BY <1>1, <1>2, <1>3, <1>4, <1>5, <1>6, <1>7, <1>8, <1>9, <1>10, <1>11, <1>12, <1>13
     DEF Next

LEMMA StepOpen == removal_open \in BOOLEAN /\ [Next]_vars => removal_open' \in BOOLEAN
<1> SUFFICES ASSUME removal_open \in BOOLEAN, [Next]_vars
             PROVE  removal_open' \in BOOLEAN
  OBVIOUS
<1>1. CASE Ticker
  <2>1. removal_open' = (removal_open /\ ~Expired)
    BY <1>1, Zenon DEF Ticker
  <2> QED
    BY <2>1, Zenon
<1>2. CASE Restart \/ EndSession \/ ToggleClose
  BY <1>2, Zenon DEF Restart, Restarted, EndSession, ToggleClose
<1>3. CASE Scan
  BY <1>3, Zenon DEF Scan
<1>4. ASSUME NEW value \in Sent, CrashInSave(value)
      PROVE  removal_open' \in BOOLEAN
  BY <1>4, Zenon DEF CrashInSave, Restarted
<1>5. ASSUME NEW value \in Sent, UpdateSetting(value)
      PROVE  removal_open' \in BOOLEAN
  BY <1>5, Zenon DEF UpdateSetting, removal
<1>6. CASE Edit \/ OpenOrRestore \/ OtherActivity
  BY <1>6, Zenon DEF Edit, OpenOrRestore, OtherActivity, removal
<1>7. CASE Tick \/ SetClock
  BY <1>7, Zenon DEF Tick, SetClock, ClockMoves
<1>8. CASE UNCHANGED vars
  BY <1>8, Zenon DEF vars, removal
<1> QED
  BY <1>1, <1>2, <1>3, <1>4, <1>5, <1>6, <1>7, <1>8, Zenon DEF Next

(* Types; the timeout above all.  It is a positive int, in memory and in the *)
(* file, whatever long a client sends, or else a number that was written     *)
(* into the file by hand.                                                    *)
THEOREM TypeCorrect == Spec => []TypeOK
<1>1. TypeOK /\ [Next]_vars => TypeOK'
  <2>1. TypeOK' <=> NumbersOK' /\ removal_open' \in BOOLEAN
    BY DEF TypeOK, NumbersOK, Possible
  <2> QED
    BY <2>1, TypeParts, StepNumbers, StepOpen
<1> QED
  BY <1>1, InitType, PTL DEF Spec

(* The timeout is an int, and if the numbers written into the file by hand   *)
(* are timeouts it is always positive: no request, crash or restart makes it *)
(* anything else.                                                            *)
THEOREM PositiveCorrect ==
    ASSUME \A number \in Edited : IntOf(number) > 0
    PROVE  Spec => [](timeout \in 1 .. IntLimit - 1)
<1>1. TypeOK => timeout \in 1 .. IntLimit - 1
  <2> SUFFICES ASSUME timeout \in Possible
               PROVE  timeout \in 1 .. IntLimit - 1
    BY DEF TypeOK, Possible
  <2>1. timeout \in -IntLimit .. IntLimit - 1
    BY PossibleType
  <2>2. timeout > 0
    BY SettingsAssumption DEF Possible, Timeouts
  <2> QED
    BY <2>1, <2>2, SettingsAssumption
<1> QED
  BY <1>1, TypeCorrect, PTL

(* A change that was answered 200 is in force in memory and will be after    *)
(* any restart or crash, until somebody tries to change it again.            *)
THEOREM AcceptedCorrect == Spec => []AcceptedIsInForce
<1>1. Init => AcceptedIsInForce
  BY DEF Init, AcceptedIsInForce
<1>2. AcceptedIsInForce /\ [Next]_vars => AcceptedIsInForce'
  <2> SUFFICES ASSUME AcceptedIsInForce, [Next]_vars
               PROVE  AcceptedIsInForce'
    OBVIOUS
  <2> USE DEF AcceptedIsInForce
  <2>1. ASSUME NEW value \in Sent, UpdateSetting(value)
        PROVE  AcceptedIsInForce'
    <3>1. IntOf(IntOf(value)) = IntOf(value)
      BY <2>1, AcceptedType, IntOfTimeout DEF UpdateSetting
    <3>2. Load({IntOf(value)}) = IntOf(value)
      BY <3>1, LoadOne
    <3> QED
      BY <2>1, <3>2 DEF UpdateSetting, Saved
  <2>2. ASSUME NEW value \in Sent, CrashInSave(value)
        PROVE  AcceptedIsInForce'
    BY <2>2 DEF CrashInSave
  <2>3. CASE Edit
    BY <2>3 DEF Edit
  <2>4. CASE Restart
    BY <2>4 DEF Restart, Restarted
  <2>5. CASE \/ OpenOrRestore \/ EndSession \/ Scan \/ ToggleClose \/ OtherActivity
             \/ Tick \/ SetClock \/ Ticker \/ UNCHANGED vars
    <3>1. UNCHANGED <<timeout, file, accepted>>
      BY <2>5, ZenonT(60) DEF OpenOrRestore, EndSession, Scan, ToggleClose, OtherActivity, Tick,
             SetClock, ClockMoves, Ticker, vars, setting
    <3> QED
      BY <3>1
  <2> QED
    BY <2>1, <2>2, <2>3, <2>4, <2>5 DEF Next
<1> QED
  BY <1>1, <1>2, PTL DEF Spec

-----------------------------------------------------------------------------
(* While nobody sets the clock, the session has been idle at most a second   *)
(* longer than the open removal: what is scanned into it is activity.        *)
AgesOK ==
    clock_steps = 0 /\ removal_open =>
        /\ removal_age >= 0
        /\ session = "open" => activity_age <= removal_age + 1

(* A second passes for both ages alike.                                      *)
LEMMA TickAges ==
    ASSUME NEW r \in Int, NEW a \in Int, r >= 0, a <= r + 1,
           NEW rr \in Moved(r, 1), NEW aa \in Moved(a, 1)
    PROVE  rr >= 0 /\ aa <= rr + 1
<1>1. Horizon \in Nat
  BY SettingsAssumption DEF Horizon
<1>2. rr = Capped(r + 1) /\ aa = Capped(a + 1)
  BY DEF Moved
<1> QED
  BY <1>1, <1>2 DEF Capped

LEMMA TickGrows ==
    ASSUME NEW r \in Int, r >= 0, NEW rr \in Moved(r, 1)
    PROVE  rr >= 0
<1>1. Horizon \in Nat
  BY SettingsAssumption DEF Horizon
<1> QED
  BY <1>1 DEF Moved, Capped

LEMMA StepAges == TypeOK /\ AgesOK /\ [Next]_vars => AgesOK'
<1> SUFFICES ASSUME TypeOK, AgesOK, [Next]_vars, clock_steps' = 0, removal_open'
             PROVE  /\ removal_age' >= 0
                    /\ session' = "open" => activity_age' <= removal_age' + 1
  BY DEF AgesOK
<1> DEFINE Goal == /\ removal_age' >= 0
                   /\ session' = "open" => activity_age' <= removal_age' + 1
<1>1. removal_age \in Int /\ activity_age \in Int /\ clock_steps \in Nat
  BY DEF TypeOK
<1>2. CASE UNCHANGED <<removal, work, clock_steps>>
  BY <1>2 DEF AgesOK, removal, work
<1>3. CASE OpenOrRestore \/ OtherActivity
  <2>1. UNCHANGED <<removal_open, removal_age, clock_steps>> /\ activity_age' = 0
    BY <1>3 DEF OpenOrRestore, OtherActivity, removal
  <2> QED
    BY <1>1, <2>1 DEF AgesOK
<1>4. CASE Scan
  BY <1>4 DEF Scan
<1>5. CASE Tick
  <2>1. UNCHANGED <<removal_open, session, clock_steps>>
    BY <1>5, Zenon DEF Tick, ClockMoves
  <2>2. removal_age' \in Moved(removal_age, 1)
    <3>1. removal_age' \in IF removal_open THEN Moved(removal_age, 1) ELSE {0}
      BY <1>5, Zenon DEF Tick, ClockMoves
    <3>2. removal_open
      BY <2>1, Zenon
    <3> QED
      BY <3>1, <3>2, Zenon
  <2>3. session' = "open" => activity_age' \in Moved(activity_age, 1)
    BY <1>5, <2>1, Zenon DEF Tick, ClockMoves
  <2>4. removal_age >= 0 /\ (session = "open" => activity_age <= removal_age + 1)
    BY <2>1 DEF AgesOK
  <2>5. removal_age' >= 0
    BY <1>1, <2>2, <2>4, TickGrows
  <2>6. CASE session' = "open"
    BY <1>1, <2>1, <2>2, <2>3, <2>4, <2>6, TickAges
  <2> QED
    BY <2>5, <2>6
<1>6. CASE SetClock
  BY <1>1, <1>6 DEF SetClock
<1>7. CASE Ticker
  <2>1. removal_open /\ ~Expired
    BY <1>7, Zenon DEF Ticker
  <2>2. removal_age' = removal_age /\ clock_steps' = clock_steps /\ session = "open"
    BY <1>7, <2>1, Zenon DEF Ticker
  <2>3. session' = "open" => activity_age' = activity_age
    BY <1>7 DEF Ticker
  <2> QED
    BY <2>1, <2>2, <2>3 DEF AgesOK
<1>8. CASE EndSession \/ ToggleClose \/ Restart \/ \E value \in Sent : CrashInSave(value)
  <2>1. ~removal_open'
    BY <1>8, Zenon DEF EndSession, ToggleClose, Restart, CrashInSave, Restarted
  <2> QED
    BY <2>1, Zenon
<1>9. CASE Edit \/ \E value \in Sent : UpdateSetting(value)
  BY <1>2, <1>9 DEF Edit, UpdateSetting
<1>10. CASE UNCHANGED vars
  BY <1>2, <1>10 DEF vars
<1> QED
  BY <1>3, <1>4, <1>5, <1>6, <1>7, <1>8, <1>9, <1>10 DEF Next

(* With a timeout shorter than the time after which a session freezes and a  *)
(* clock nobody sets, a freeze leaves no removal open, whatever changed the  *)
(* timeout or restored the session before.                                   *)
THEOREM FreezeCorrect == Spec => FreezeClosesFirst
<1>1. Init => AgesOK
  BY DEF Init, AgesOK
<1>2. TypeOK /\ AgesOK /\ [Next]_vars =>
        [session = "open" /\ session' = "frozen" /\ timeout < WorkSessionIdle
             /\ clock_steps = 0
         => ~removal_open']_vars
  <2> SUFFICES ASSUME TypeOK, AgesOK, [Next]_vars, session = "open", session' = "frozen",
                      timeout < WorkSessionIdle, clock_steps = 0, removal_open'
               PROVE  FALSE
    OBVIOUS
  <2>1. CASE Ticker
    <3>1. removal_open /\ ~Expired /\ Idle
      BY <2>1, Zenon DEF Ticker
    <3>2. activity_age <= removal_age + 1 /\ activity_age >= WorkSessionIdle
      BY <3>1 DEF AgesOK, Idle
    <3>3. ~(removal_age >= timeout)
      BY <3>1, Zenon DEF Expired
    <3>4. timeout \in Int /\ removal_age \in Int /\ activity_age \in Int
      <4>1. timeout \in Possible /\ removal_age \in Int /\ activity_age \in Int
        BY DEF TypeOK, Possible
      <4> QED
        BY <4>1, PossibleType, SettingsAssumption
    <3> QED
      BY <3>2, <3>3, <3>4, SettingsAssumption
  <2>2. CASE \/ \E value \in Sent : UpdateSetting(value) \/ CrashInSave(value)
             \/ Edit \/ Restart \/ Scan \/ ToggleClose \/ OtherActivity \/ Tick \/ SetClock
             \/ UNCHANGED vars
    <3>1. session' = session
      BY <2>2, ZenonT(60) DEF UpdateSetting, CrashInSave, Edit, Restart, Restarted, Scan,
             ToggleClose, OtherActivity, Tick, SetClock, ClockMoves, vars, work
    <3> QED
      BY <3>1
  <2>3. CASE OpenOrRestore \/ EndSession
    BY <2>3 DEF OpenOrRestore, EndSession
  <2> QED
    BY <2>1, <2>2, <2>3 DEF Next
<1>3. AgesOK /\ TypeOK /\ [Next]_vars => AgesOK'
  BY StepAges
<1> QED
  BY <1>1, <1>2, <1>3, TypeCorrect, PTL DEF Spec, FreezeClosesFirst
=============================================================================
