------------------------------- MODULE Scanner -------------------------------
(***************************************************************************)
(* The barcode scanner's thread (scan_loop of                              *)
(* backend/src/scanner/scanner_evdev.c): a keyboard that types each code   *)
(* and Enter, the kernel's queue of its key events, and the loop that puts *)
(* the code together again and hands it to the callback.                   *)
(*                                                                         *)
(* The device, the kernel and libevdev are external, modelled from how the *)
(* code uses them.  Characters are "a" .. in lower and "A" .. in upper     *)
(* case: a model of what keycode_to_lower and toupper do to a key, whose   *)
(* table is left out with the keys it ignores.  Starting and stopping the  *)
(* thread is in Lifecycle.                                                 *)
(*                                                                         *)
(* A definition introduced as "Mistake:" is not part of the model.         *)
(***************************************************************************)
EXTENDS Integers, SequencesExt

CONSTANTS
    Codes,            \* what is printed on labels: non-empty sequences of characters
    BARCODE_MAX,
    QueueSize,        \* events the kernel keeps for a reader
    MaxCodes          \* bound: codes ever scanned

Keys       == {"a", "b"}
Characters == Keys \cup {"A", "B"}

ASSUME ScannerAssumption ==
    /\ \A code \in Codes : code \in Seq(Characters) /\ code # <<>>
    /\ BARCODE_MAX \in Nat \ {0}
    /\ QueueSize \in Nat \ {0, 1}
    /\ MaxCodes \in Nat

Upper(ch) == CASE ch = "a" -> "A" [] ch = "b" -> "B" [] OTHER -> ch
Lower(ch) == CASE ch = "A" -> "a" [] ch = "B" -> "b" [] OTHER -> ch

(* Key events: 1 is a press, 0 a release, 2 the kernel's own repetition.   *)
Key(name, value) == [key |-> name, value |-> value]
SYN_DROPPED      == Key("dropped", 0)

VARIABLES
    scanned,          \* history: the codes scanned so far
    typing,           \* external: the key of the last one that the device is at
    queue,            \* external: the kernel's event queue
    overrun,          \* history: events have been lost
    barcode,          \* the code being put together, len characters
    shift_held,
    delivered         \* history: the codes given to the callback

vars == <<scanned, typing, queue, overrun, barcode, shift_held, delivered>>

(* The device is at the n-th key of a code, of whose events it has sent    *)
(* some; or it is idle.                                                    *)
AtKey(n, sent) == [key |-> n, sent |-> sent]
Idle           == AtKey(0, 0)

Init ==
    /\ scanned = <<>>
    /\ typing = Idle
    /\ queue = <<>>
    /\ overrun = FALSE
    /\ barcode = <<>>
    /\ shift_held = 0
    /\ delivered = <<>>

-----------------------------------------------------------------------------
(* The device and the kernel.                                              *)

Press(ch) ==
    IF ch = Lower(ch)
    THEN <<Key(ch, 1), Key(ch, 0)>>
    ELSE <<Key("shift", 1), Key(Lower(ch), 1), Key(Lower(ch), 0), Key("shift", 0)>>

(* The events of the n-th key of a code, Enter after the last character.   *)
Stroke(code, n) ==
    IF n <= Len(code) THEN Press(code[n]) ELSE <<Key("enter", 1), Key("enter", 0)>>

ScanCode(code) ==
    /\ typing = Idle
    /\ Len(scanned) < MaxCodes
    /\ scanned' = Append(scanned, code)
    /\ typing' = AtKey(1, 0)
    /\ UNCHANGED <<queue, overrun, barcode, shift_held, delivered>>

(* When the queue is full the kernel empties it, keeping the newest event  *)
(* and a mark.                                                             *)
Queued(event) ==
    IF Len(queue) < QueueSize
    THEN queue' = Append(queue, event) /\ UNCHANGED overrun
    ELSE queue' = <<SYN_DROPPED, event>> /\ overrun' = TRUE

Typing == typing.key # 0
Typed  == Stroke(Last(scanned), typing.key)

NextKey ==
    IF typing.key <= Len(Last(scanned)) THEN AtKey(typing.key + 1, 0) ELSE Idle

SendKey ==
    /\ Typing
    /\ Queued(Typed[typing.sent + 1])
    /\ typing' = IF typing.sent + 1 < Len(Typed)
                 THEN AtKey(typing.key, typing.sent + 1) ELSE NextKey
    /\ UNCHANGED <<scanned, barcode, shift_held, delivered>>

(* A key held for long repeats.                                            *)
RepeatKey ==
    /\ Typing
    /\ LET released == Typed[typing.sent + 1] IN
          /\ released.value = 0
          /\ queue # <<>> /\ Last(queue) = Key(released.key, 1)
          /\ Len(queue) < QueueSize
          /\ queue' = Append(queue, Key(released.key, 2))
    /\ UNCHANGED <<scanned, typing, overrun, barcode, shift_held, delivered>>

-----------------------------------------------------------------------------
(* One libevdev_next_event and the turn of scan_loop it brings about.      *)

Reading(key) == queue # <<>> /\ Head(queue).key = key /\ queue' = Tail(queue)

(* Mistake: the release of a shift key is taken for a key-up like others. *)
ReadShiftPress ==
    /\ Reading("shift")
    /\ shift_held' = IF Head(queue).value = 1 THEN 1 ELSE shift_held
    /\ UNCHANGED <<scanned, typing, overrun, barcode, delivered>>

ReadShift ==
    /\ Reading("shift")
    /\ shift_held' = IF Head(queue).value \in {0, 1} THEN Head(queue).value
                                                     ELSE shift_held
    /\ UNCHANGED <<scanned, typing, overrun, barcode, delivered>>

(* Mistake: a code that fills the buffer is dropped for one that was cut. *)
ReadEnterNotFull ==
    /\ Reading("enter")
    /\ IF Head(queue).value = 1 /\ Len(barcode) \in 1 .. BARCODE_MAX - 1
       THEN delivered' = Append(delivered, barcode) /\ barcode' = <<>>
       ELSE UNCHANGED <<delivered, barcode>>
    /\ UNCHANGED <<scanned, typing, overrun, shift_held>>

ReadEnter ==
    /\ Reading("enter")
    /\ IF Head(queue).value = 1 /\ barcode # <<>>
       THEN delivered' = Append(delivered, barcode) /\ barcode' = <<>>
       ELSE UNCHANGED <<delivered, barcode>>
    /\ UNCHANGED <<scanned, typing, overrun, shift_held>>

(* Mistake: whatever is not a release is a press. *)
CountsRepeated(event) == event.value # 0

Counts(event) == event.value = 1

Room == Len(barcode) < BARCODE_MAX

ReadCharacter(ch) ==
    /\ Reading(ch)
    /\ barcode' = IF Counts(Head(queue)) /\ Room
                  THEN Append(barcode, IF shift_held = 1 THEN Upper(ch) ELSE ch)
                  ELSE barcode
    /\ UNCHANGED <<scanned, typing, overrun, shift_held, delivered>>

(* The mark makes the inner loop end as an empty queue does; the next call *)
(* discards what libevdev had already read of the events behind it.        *)
ReadDropped ==
    /\ queue # <<>> /\ Head(queue) = SYN_DROPPED
    /\ \E k \in 1 .. Len(queue) : queue' = SubSeq(queue, k + 1, Len(queue))
    /\ UNCHANGED <<scanned, typing, overrun, barcode, shift_held, delivered>>

Next ==
    \/ \E code \in Codes : ScanCode(code)
    \/ SendKey
    \/ RepeatKey
    \/ ReadShift
    \/ ReadEnter
    \/ \E ch \in Keys : ReadCharacter(ch)
    \/ ReadDropped

Spec == Init /\ [][Next]_vars

(* The thread reads whatever is there; nothing is assumed of the device.   *)
FairSpec ==
    Spec /\ WF_vars(ReadShift \/ ReadEnter \/ ReadDropped
                       \/ \E ch \in Keys : ReadCharacter(ch))

-----------------------------------------------------------------------------
(* Properties.                                                             *)

Cut(code) == SubSeq(code, 1, IF Len(code) < BARCODE_MAX THEN Len(code) ELSE BARCODE_MAX)

(* As long as the thread keeps up with the device, it delivers the codes   *)
(* as they were scanned, in that order and once each, upper and lower case *)
(* told apart and repetitions ignored; only what exceeds BARCODE_MAX goes. *)
DeliveredAsScanned ==
    ~overrun => IsPrefix(delivered, [k \in DOMAIN scanned |-> Cut(scanned[k])])

(* The places of the characters of some codes, and their order.            *)
Places(codes) == UNION {{c} \X DOMAIN codes[c] : c \in DOMAIN codes}

Before(x, y) == x[1] < y[1] \/ (x[1] = y[1] /\ x[2] < y[2])

Letter(codes, x) == Lower(codes[x[1]][x[2]])

LettersWithin(codes, others) ==
    \E from \in [Places(codes) -> Places(others)] :
        /\ \A x \in Places(codes) : Letter(codes, x) = Letter(others, from[x])
        /\ \A x, y \in Places(codes) : Before(x, y) => Before(from[x], from[y])

(* Whatever the kernel drops, nothing is delivered that was not scanned,   *)
(* out of order or twice: losses only leave characters out, run two codes  *)
(* together, or change the case of a letter (the release of a shift key    *)
(* may be among them).                                                     *)
NothingInvented == LettersWithin(Append(delivered, barcode), scanned)

(* A code whose events were all sent without a loss does get delivered.    *)
EveryCodeArrives ==
    [](~Typing => <>(overrun \/ Typing \/ Len(delivered) = Len(scanned)))
=============================================================================
