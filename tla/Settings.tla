------------------------------ MODULE Settings ------------------------------
(***************************************************************************)
(* The one setting of the server, scan_op_timeout_seconds: from the number *)
(* a client sends (backend/src/http/http_server.c) to memory               *)
(* (grammar_engine_update_setting), to the file and back at the next start *)
(* (backend/src/config/config.c), and what a change does to a removal that *)
(* is waiting for its timeout while the work session may fall idle         *)
(* (ticker_thread_fn).                                                     *)
(*                                                                         *)
(* A client sends a long, the file may say any long too, since it is meant *)
(* to be edited, and the engine keeps an int.  A call holds e->lock and is *)
(* one step, but the process may die within it, after the file has been    *)
(* truncated.  A call that is refused changes nothing and is no step.      *)
(*                                                                         *)
(* A definition introduced as "Mistake:" is not part of the model.         *)
(***************************************************************************)
EXTENDS Integers

CONSTANTS
    IntLimit,         \* INT_MAX + 1
    Sent,             \* the numbers clients send, of type long
    Edited,           \* the numbers an administrator writes into the file
    Default,          \* config_set_defaults
    WorkSessionIdle,  \* WORK_SESSION_IDLE_SECONDS
    MaxBack,          \* how far the wall clock may be set back
    MaxAhead,         \* how far it may be set forward
    MaxClockSteps     \* bound: how often it is set

ASSUME SettingsAssumption ==
    /\ IntLimit \in Nat \ {0}
    /\ Sent \subseteq Int /\ Edited \subseteq Int
    /\ Default \in 1 .. IntLimit - 1
    /\ WorkSessionIdle \in 1 .. IntLimit - 1
    /\ MaxBack \in Nat /\ MaxAhead \in Nat /\ MaxClockSteps \in Nat

Timeouts == 1 .. IntLimit - 1
Nothing  == 0             \* no value accepted, or the last attempt failed
Horizon  == IntLimit - 1  \* an age that reaches every limit there is

VARIABLES
    timeout,          \* e->config.scan_op_timeout_seconds
    file,             \* the number in the file at STOREGIZER_CONFIG_PATH, in a
                      \* set; {}: no file, an empty one, or no number in it
    accepted,         \* history: the value of the last change, if it was answered 200
    session,          \* the work session: "none", "open" or "frozen"
    removal_open,     \* a removal is open
    removal_age,      \* now - last_item_at, at most Horizon
    activity_age,     \* now - last_activity_at while the session is open
    clock_steps       \* how often the wall clock has been set

setting == <<timeout, file, accepted>>
removal == <<removal_open, removal_age>>
work    == <<session, activity_age>>
vars    == <<setting, removal, work, clock_steps>>

(* The cast of a long to int wraps, with the compilers in use.             *)
IntOf(value) == ((value + IntLimit) % (2 * IntLimit)) - IntLimit

(* config_load: json_int_field casts what it finds without a look, and     *)
(* falls back to the default if it finds nothing.                          *)
Load(content) ==
    IF content = {} THEN Default ELSE IntOf(CHOOSE number \in content : TRUE)

Contents == {{}} \cup {{number} : number \in Edited}

Init ==
    /\ file \in Contents
    /\ timeout = Load(file)
    /\ accepted = Nothing
    /\ session = "none"
    /\ removal_open = FALSE
    /\ removal_age = 0
    /\ activity_age = 0
    /\ clock_steps = 0

-----------------------------------------------------------------------------
(* Mistake: only the number that was sent is checked. *)
AcceptableAsSent(value) == value > 0

(* Checked by the HTTP handler as a long, by the engine as an int.         *)
Acceptable(value) == value > 0 /\ IntOf(value) > 0

(* Mistake: a file that could not be opened is not reported. *)
SavedAnyway(value) ==
    /\ accepted' = value
    /\ file' = {value} \/ UNCHANGED file

(* config_save, which fails if the file cannot be opened; memory has been  *)
(* changed by then.  (That writing to the opened file may fail is left     *)
(* out: the code does not look.)                                           *)
Saved(value) ==
    \/ file' = {value} /\ accepted' = value
    \/ UNCHANGED file /\ accepted' = Nothing

UpdateSetting(value) ==
    /\ Acceptable(value)
    /\ timeout' = IntOf(value)
    /\ Saved(IntOf(value))
    /\ UNCHANGED <<removal, work, clock_steps>>

(* The administrator writes or empties the file, whose change is looked at *)
(* when the server is started next, if no request has replaced it.         *)
Edit ==
    /\ file' \in Contents
    /\ accepted' = Nothing
    /\ UNCHANGED <<timeout, removal, work, clock_steps>>

(* grammar_engine_create: open or frozen, the session is re-attached.      *)
Restarted(content) ==
    /\ timeout' = Load(content)
    /\ removal_open' = FALSE
    /\ removal_age' = 0
    /\ activity_age' = 0
    /\ UNCHANGED session

Restart ==
    /\ Restarted(file)
    /\ UNCHANGED <<file, accepted, clock_steps>>

(* The process dies between the fopen that truncates and the write.        *)
CrashInSave(value) ==
    /\ Acceptable(value)
    /\ file' = {}
    /\ accepted' = Nothing
    /\ Restarted({})
    /\ UNCHANGED clock_steps

-----------------------------------------------------------------------------
(* The work session, and the removal the timeout is about.                 *)

(* Mistake: a restored session starts the clock of its removal again. *)
OpenOrRestoreTouches ==
    /\ session # "open"
    /\ session' = "open"
    /\ activity_age' = 0
    /\ removal_age' = 0
    /\ UNCHANGED <<setting, removal_open, clock_steps>>

(* open_session; restore_session.                                          *)
OpenOrRestore ==
    /\ session # "open"
    /\ session' = "open"
    /\ activity_age' = 0
    /\ UNCHANGED <<setting, removal, clock_steps>>

(* A commit folds the removal in, a rollback drops it.                     *)
EndSession ==
    /\ session # "none"
    /\ session' = "none"
    /\ removal_open' = FALSE
    /\ removal_age' = 0
    /\ activity_age' = 0
    /\ UNCHANGED <<setting, clock_steps>>

(* Mistake: only what the panel does counts as activity. *)
ScanIsNoActivity ==
    /\ session = "open"
    /\ removal_open' = TRUE
    /\ removal_age' = 0
    /\ UNCHANGED <<setting, work, clock_steps>>

(* A bin scan that opens the removal, or an item scanned into it.          *)
(* last_activity_at is written first: a second may begin in between.       *)
Scan ==
    /\ session = "open"
    /\ removal_open' = TRUE
    /\ removal_age' = 0
    /\ activity_age' \in {0, 1}
    /\ UNCHANGED <<setting, session, clock_steps>>

(* Its bin is scanned again, and it is closed.                             *)
ToggleClose ==
    /\ session = "open"
    /\ removal_open
    /\ removal_open' = FALSE
    /\ removal_age' = 0
    /\ activity_age' = 0
    /\ UNCHANGED <<setting, session, clock_steps>>

(* Other scans, refused ones too, and what the panel does.                 *)
OtherActivity ==
    /\ session = "open"
    /\ activity_age' = 0
    /\ UNCHANGED <<setting, removal, session, clock_steps>>

Capped(age) == IF age > Horizon THEN Horizon ELSE age

(* The ages that may show when the clock has moved by d: one that is       *)
(* capped may in truth be any larger number.                               *)
Moved(age, d) ==
    IF age < Horizon \/ d >= 0 THEN {Capped(age + d)} ELSE Horizon + d .. Horizon

ClockMoves(d) ==
    /\ removal_age' \in IF removal_open THEN Moved(removal_age, d) ELSE {0}
    /\ activity_age' \in IF session = "open" THEN Moved(activity_age, d) ELSE {0}
    /\ UNCHANGED <<setting, session, removal_open>>

Tick == ClockMoves(1) /\ UNCHANGED clock_steps

(* time(NULL) is the wall clock: somebody, or NTP, may set it.             *)
SetClock ==
    /\ clock_steps < MaxClockSteps
    /\ \E d \in -MaxBack .. MaxAhead : ClockMoves(d)
    /\ clock_steps' = clock_steps + 1

Expired == removal_open /\ removal_age >= timeout
Idle    == activity_age >= WorkSessionIdle

(* One pass of the ticker, which looks at an open session only: an expired *)
(* removal is closed, then an idle session is frozen with what is open.    *)
Ticker ==
    /\ session = "open"
    /\ Expired \/ Idle
    /\ removal_open' = (removal_open /\ ~Expired)
    /\ removal_age' = IF Expired THEN 0 ELSE removal_age
    /\ session' = IF Idle THEN "frozen" ELSE session
    /\ activity_age' = IF Idle THEN 0 ELSE activity_age
    /\ UNCHANGED <<setting, clock_steps>>

Next ==
    \/ \E value \in Sent : UpdateSetting(value)
    \/ \E value \in Sent : CrashInSave(value)
    \/ Edit
    \/ Restart
    \/ OpenOrRestore
    \/ EndSession
    \/ Scan
    \/ ToggleClose
    \/ OtherActivity
    \/ Tick
    \/ SetClock
    \/ Ticker

Spec == Init /\ [][Next]_vars

(* Time passes and the ticker thread keeps waking up.                      *)
Fairness == WF_vars(Tick) /\ WF_vars(Ticker)

FairSpec == Spec /\ Fairness

-----------------------------------------------------------------------------
(* Properties.                                                             *)

(* Types, and where the timeout comes from: in memory and in the file it   *)
(* is a positive int, whatever long a client sends and however it wraps,   *)
(* or it is what somebody wrote into the file by hand.  With one that is   *)
(* not positive every removal is closed by the next pass of the ticker: no *)
(* request can bring that about, though an edited file can.                *)
TypeOK ==
    /\ timeout \in Timeouts \cup {IntOf(number) : number \in Edited}
    /\ file \in {{}} \cup {{number} : number \in Timeouts \cup Edited}
    /\ accepted \in Nat
    /\ session \in {"none", "open", "frozen"}
    /\ removal_open \in BOOLEAN
    /\ removal_age \in Int
    /\ activity_age \in Int
    /\ clock_steps \in Nat

(* A change that was answered 200 is in force and stays so, through any    *)
(* number of restarts and crashes, until the next attempt to change it, by *)
(* a request or by editing the file.                                       *)
AcceptedIsInForce ==
    accepted # Nothing => timeout = accepted /\ Load(file) = accepted

(* A removal nobody scans anything into does not stay open, though the     *)
(* timeout is changed again and again meanwhile, to longer ones too, the   *)
(* clock is set back now and then, and the session is frozen and restored. *)
(* The one exception is a session that is left frozen for good.            *)
RemovalsTimeOut ==
    <>[]removal_open => <>[](session = "frozen") \/ []<><<Scan>>_vars

(* With a timeout shorter than the ten minutes after which a session       *)
(* freezes, and a clock nobody sets, a freeze leaves no removal open: it   *)
(* has expired by then, however timeout and session were changed before.   *)
FreezeClosesFirst ==
    [][session = "open" /\ session' = "frozen" /\ timeout < WorkSessionIdle
           /\ clock_steps = 0
       => ~removal_open']_vars
=============================================================================
