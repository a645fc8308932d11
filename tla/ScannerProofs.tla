---------------------------- MODULE ScannerProofs ----------------------------
(* Proofs about the scanner's thread, for any codes, lengths of the buffer  *)
(* and of the kernel's queue.                                               *)
EXTENDS Scanner, WellFoundedInduction, TLAPS

Code == Last(scanned)

Events == [key : Keys \cup {"shift", "enter", "dropped"}, value : 0 .. 2]

(* The typing device is at a key of the last code, within its events.       *)
TypingType ==
    \/ typing = Idle
    \/ /\ scanned # <<>>
       /\ \E n \in 1 .. Len(Code) + 1, m \in Nat :
             typing = AtKey(n, m) /\ m < Len(Stroke(Code, n))

TypeInv ==
    /\ scanned \in Seq(Codes)
    /\ TypingType
    /\ queue \in Seq(Events)
    /\ barcode \in Seq(Characters)
    /\ Len(barcode) <= BARCODE_MAX
    /\ shift_held \in {0, 1}
    /\ delivered \in Seq(Seq(Characters))

-----------------------------------------------------------------------------
(* Characters, keys and strokes.                                            *)

LEMMA CaseOfKey ==
    /\ \A ch \in Characters : Lower(ch) \in Keys
    /\ \A ch \in Keys : ch \in Characters /\ Upper(ch) \in Characters
    /\ \A ch \in Keys : Lower(ch) = ch /\ Lower(Upper(ch)) = ch
    /\ \A ch \in Characters : ch # Lower(ch) => Upper(Lower(ch)) = ch
    /\ "shift" \notin Keys /\ "enter" \notin Keys /\ "dropped" \notin Keys
BY DEF Characters, Keys, Lower, Upper

LEMMA CodeType ==
    ASSUME NEW code \in Codes
    PROVE  /\ code \in Seq(Characters) /\ Len(code) \in Nat \ {0}
           /\ DOMAIN code = 1 .. Len(code)
           /\ \A k \in 1 .. Len(code) : code[k] \in Characters
BY ScannerAssumption

LEMMA LastType ==
    ASSUME TypeInv, scanned # <<>>
    PROVE  /\ Code \in Codes /\ Len(scanned) \in Nat \ {0}
           /\ Code = scanned[Len(scanned)]
BY DEF TypeInv, Code, Last

(* The events of a key, one by one: with shift around it for a capital.     *)
Small(code, n, m, e) ==
    /\ n <= Len(code) /\ code[n] = Lower(code[n])
    /\ Len(Stroke(code, n)) = 2
    /\ (m = 1 /\ e = Key(code[n], 1)) \/ (m = 2 /\ e = Key(code[n], 0))

Capital(code, n, m, e) ==
    /\ n <= Len(code) /\ code[n] # Lower(code[n])
    /\ Len(Stroke(code, n)) = 4
    /\ \/ m = 1 /\ e = Key("shift", 1)
       \/ m = 2 /\ e = Key(Lower(code[n]), 1)
       \/ m = 3 /\ e = Key(Lower(code[n]), 0)
       \/ m = 4 /\ e = Key("shift", 0)

Enter(code, n, m, e) ==
    /\ n = Len(code) + 1
    /\ Len(Stroke(code, n)) = 2
    /\ (m = 1 /\ e = Key("enter", 1)) \/ (m = 2 /\ e = Key("enter", 0))

LEMMA StrokeEvents ==
    ASSUME NEW code \in Codes, NEW n \in 1 .. Len(code) + 1,
           NEW m \in 1 .. Len(Stroke(code, n))
    PROVE  \/ Small(code, n, m, Stroke(code, n)[m])
           \/ Capital(code, n, m, Stroke(code, n)[m])
           \/ Enter(code, n, m, Stroke(code, n)[m])
<1>1. Len(code) \in Nat
  BY CodeType
<1>2. CASE n <= Len(code) /\ code[n] = Lower(code[n])
  <2>1. Stroke(code, n) = <<Key(code[n], 1), Key(code[n], 0)>>
    BY <1>2 DEF Stroke, Press
  <2>2. Len(Stroke(code, n)) = 2 /\ m \in 1 .. 2
    BY <2>1
  <2> QED
    BY <1>2, <2>1, <2>2 DEF Small
<1>3. CASE n <= Len(code) /\ code[n] # Lower(code[n])
  <2>1. Stroke(code, n) = <<Key("shift", 1), Key(Lower(code[n]), 1),
                            Key(Lower(code[n]), 0), Key("shift", 0)>>
    BY <1>3 DEF Stroke, Press
  <2>2. Len(Stroke(code, n)) = 4 /\ m \in 1 .. 4
    BY <2>1
  <2> QED
    BY <1>3, <2>1, <2>2 DEF Capital
<1>4. CASE n = Len(code) + 1
  <2>1. Stroke(code, n) = <<Key("enter", 1), Key("enter", 0)>>
    BY <1>1, <1>4 DEF Stroke
  <2>2. Len(Stroke(code, n)) = 2 /\ m \in 1 .. 2
    BY <2>1
  <2> QED
    BY <1>4, <2>1, <2>2 DEF Enter
<1> QED
  BY <1>1, <1>2, <1>3, <1>4

LEMMA KeyFields ==
    ASSUME NEW k, NEW v
    PROVE  Key(k, v).key = k /\ Key(k, v).value = v
BY DEF Key

LEMMA EventType ==
    ASSUME NEW k \in Keys \cup {"shift", "enter"}, NEW v \in 0 .. 2
    PROVE  Key(k, v) \in Events /\ Key(k, v).key # "dropped"
BY CaseOfKey DEF Key, Events

LEMMA StrokeType ==
    ASSUME NEW code \in Codes, NEW n \in 1 .. Len(code) + 1,
           NEW m \in 1 .. Len(Stroke(code, n))
    PROVE  \E k \in Keys \cup {"shift", "enter"}, v \in 0 .. 1 :
              Stroke(code, n)[m] = Key(k, v)
<1>1. n <= Len(code) => code[n] \in Characters /\ Lower(code[n]) \in Keys
  BY CodeType, CaseOfKey
<1>2. CASE Small(code, n, m, Stroke(code, n)[m])
  BY <1>1, <1>2 DEF Small
<1>3. CASE Capital(code, n, m, Stroke(code, n)[m])
  BY <1>1, <1>3 DEF Capital
<1>4. CASE Enter(code, n, m, Stroke(code, n)[m])
  BY <1>4 DEF Enter
<1> QED
  BY <1>2, <1>3, <1>4, StrokeEvents

(* A stroke has at least two events, so that the device sends one next.     *)
LEMMA TypingNow ==
    ASSUME TypeInv, Typing
    PROVE  /\ scanned # <<>> /\ Code \in Codes
           /\ typing.key \in 1 .. Len(Code) + 1 /\ typing.sent \in Nat
           /\ typing = AtKey(typing.key, typing.sent)
           /\ Typed = Stroke(Code, typing.key)
           /\ typing.sent + 1 \in 1 .. Len(Typed)
<1>1. typing # Idle
  BY DEF Typing, Idle, AtKey
<1>2. scanned # <<>>
  BY <1>1 DEF TypeInv, TypingType
<1>3. Code \in Codes
  BY <1>2, LastType
<1>4. PICK n \in 1 .. Len(Code) + 1, m \in Nat :
             typing = AtKey(n, m) /\ m < Len(Stroke(Code, n))
  BY <1>1 DEF TypeInv, TypingType
<1>5. typing.key = n /\ typing.sent = m
  BY <1>4 DEF AtKey
<1>6. Len(Stroke(Code, n)) \in Nat
  <2>1. Stroke(Code, n) \in Seq(Events)
    <3>1. n <= Len(Code) => Code[n] \in Characters /\ Lower(Code[n]) \in Keys
      BY <1>3, CodeType, CaseOfKey
    <3>2. n <= Len(Code) /\ Code[n] = Lower(Code[n])  =>
             Key(Code[n], 1) \in Events /\ Key(Code[n], 0) \in Events
      BY <3>1, EventType
    <3>3. /\ Key("shift", 1) \in Events /\ Key("shift", 0) \in Events
          /\ Key("enter", 1) \in Events /\ Key("enter", 0) \in Events
      BY EventType
    <3>4. n <= Len(Code) =>
             Key(Lower(Code[n]), 1) \in Events /\ Key(Lower(Code[n]), 0) \in Events
      BY <3>1, EventType
    <3> QED
      BY <3>2, <3>3, <3>4 DEF Stroke, Press
  <2> QED
    BY <2>1
<1> QED
  BY <1>2, <1>3, <1>4, <1>5, <1>6 DEF Typed, Code

LEMMA StrokeLength ==
    ASSUME NEW code \in Codes, NEW n \in 1 .. Len(code) + 1
    PROVE  Len(Stroke(code, n)) \in {2, 4}
BY DEF Stroke, Press

-----------------------------------------------------------------------------
(* TypeInv is inductive.                                                    *)

LEMMA EventsQueued ==
    ASSUME TypeInv, NEW k \in Keys \cup {"shift", "enter"}, NEW v \in 0 .. 2,
           Queued(Key(k, v))
    PROVE  queue' \in Seq(Events)
<1>1. Key(k, v) \in Events
  BY EventType
<1>2. SYN_DROPPED \in Events
  BY DEF SYN_DROPPED, Key, Events
<1>3. queue' = Append(queue, Key(k, v)) \/ queue' = <<SYN_DROPPED, Key(k, v)>>
  BY DEF Queued
<1>4. queue \in Seq(Events)
  BY DEF TypeInv
<1>5. \A e \in Events : Append(queue, e) \in Seq(Events)
  BY <1>4
<1>6. \A d, e \in Events : <<d, e>> \in Seq(Events)
  OBVIOUS
<1> QED
  BY <1>1, <1>2, <1>3, <1>5, <1>6

LEMMA TypingStep ==
    ASSUME TypeInv, SendKey
    PROVE  TypingType'
<1>1. /\ scanned # <<>> /\ Code \in Codes /\ Len(Code) \in Nat
      /\ typing.key \in 1 .. Len(Code) + 1 /\ typing.sent \in Nat
      /\ Typed = Stroke(Code, typing.key) /\ scanned' = scanned /\ Code' = Code
  BY TypingNow, CodeType DEF SendKey, Code
<1>2. CASE typing.sent + 1 < Len(Typed)
  <2>1. typing' = AtKey(typing.key, typing.sent + 1)
    BY <1>2 DEF SendKey
  <2> QED
    BY <1>1, <1>2, <2>1 DEF TypingType
<1>3. CASE ~(typing.sent + 1 < Len(Typed)) /\ typing.key <= Len(Code)
  <2>1. typing' = AtKey(typing.key + 1, 0)
    BY <1>3 DEF SendKey, NextKey, Code
  <2>2. typing.key + 1 \in 1 .. Len(Code) + 1
    BY <1>1, <1>3
  <2>3. 0 < Len(Stroke(Code, typing.key + 1))
    <3>1. Len(Stroke(Code, typing.key + 1)) \in {2, 4}
      BY <1>1, <2>2, StrokeLength
    <3> QED
      BY <3>1
  <2> QED
    BY <1>1, <2>1, <2>2, <2>3 DEF TypingType
<1>4. CASE ~(typing.sent + 1 < Len(Typed)) /\ ~(typing.key <= Len(Code))
  BY <1>4 DEF SendKey, NextKey, Code, TypingType
<1> QED
  BY <1>2, <1>3, <1>4

LEMMA TypeInit == Init => TypeInv
BY ScannerAssumption DEF Init, TypeInv, TypingType

LEMMA TypeStep == TypeInv /\ [Next]_vars => TypeInv'
<1> SUFFICES ASSUME TypeInv, [Next]_vars PROVE TypeInv'
  OBVIOUS
<1>1. CASE UNCHANGED vars
  BY <1>1 DEF vars, TypeInv, TypingType, Code
<1>2. ASSUME NEW code \in Codes, ScanCode(code) PROVE TypeInv'
  <2>1. scanned' \in Seq(Codes) /\ scanned' # <<>> /\ Code' = code
    BY <1>2 DEF ScanCode, TypeInv, Code, Last
  <2>2. 1 \in 1 .. Len(code) + 1 /\ 0 < Len(Stroke(code, 1))
    <3>1. 1 \in 1 .. Len(code) + 1
      BY CodeType
    <3>2. Len(Stroke(code, 1)) \in {2, 4}
      BY <3>1, StrokeLength
    <3> QED
      BY <3>1, <3>2
  <2>3. TypingType'
    BY <1>2, <2>1, <2>2 DEF ScanCode, TypingType
  <2> QED
    BY <1>2, <2>1, <2>3 DEF ScanCode, TypeInv
<1>3. CASE SendKey
  <2>1. PICK k \in Keys \cup {"shift", "enter"}, v \in 0 .. 1 :
           Typed[typing.sent + 1] = Key(k, v)
    BY <1>3, TypingNow, StrokeType DEF SendKey
  <2>2. queue' \in Seq(Events)
    BY <1>3, <2>1, EventsQueued DEF SendKey
  <2> QED
    BY <1>3, <2>2, TypingStep DEF SendKey, TypeInv
<1>4. CASE RepeatKey
  <2>1. PICK k \in Keys \cup {"shift", "enter"}, v \in 0 .. 1 :
           Typed[typing.sent + 1] = Key(k, v)
    BY <1>4, TypingNow, StrokeType DEF RepeatKey
  <2>2. queue' = Append(queue, Key(k, 2))
    BY <1>4, <2>1, KeyFields DEF RepeatKey
  <2>3. queue' \in Seq(Events)
    BY <2>2, EventType DEF TypeInv
  <2> QED
    BY <1>4, <2>3 DEF RepeatKey, TypeInv, TypingType, Code
<1>5. ASSUME NEW key, Reading(key)
      PROVE  queue' \in Seq(Events) /\ Head(queue) \in Events
  BY <1>5 DEF Reading, TypeInv
<1>6. CASE ReadShift
  <2>1. shift_held' \in {0, 1}
    BY <1>5, <1>6 DEF ReadShift, TypeInv
  <2> QED
    BY <1>5, <1>6, <2>1 DEF ReadShift, TypeInv, TypingType, Code
<1>7. CASE ReadEnter
  <2>1. /\ barcode' \in Seq(Characters) /\ Len(barcode') <= BARCODE_MAX
        /\ delivered' \in Seq(Seq(Characters))
    <3>1. /\ barcode \in Seq(Characters) /\ Len(barcode) <= BARCODE_MAX
          /\ delivered \in Seq(Seq(Characters))
      BY DEF TypeInv
    <3>2. <<>> \in Seq(Characters) /\ Len(<<>>) <= BARCODE_MAX
      BY ScannerAssumption
    <3>3. Append(delivered, barcode) \in Seq(Seq(Characters))
      BY <3>1
    <3>4. \/ delivered' = Append(delivered, barcode) /\ barcode' = <<>>
          \/ delivered' = delivered /\ barcode' = barcode
      BY <1>7 DEF ReadEnter
    <3> QED
      BY <3>1, <3>2, <3>3, <3>4
  <2> QED
    BY <1>5, <1>7, <2>1 DEF ReadEnter, TypeInv, TypingType, Code
<1>8. ASSUME NEW ch \in Keys, ReadCharacter(ch) PROVE TypeInv'
  <2>1. barcode' \in Seq(Characters) /\ Len(barcode') <= BARCODE_MAX
    BY <1>8, CaseOfKey, ScannerAssumption DEF ReadCharacter, TypeInv, Room
  <2> QED
    BY <1>5, <1>8, <2>1 DEF ReadCharacter, TypeInv, TypingType, Code
<1>9. CASE ReadDropped
  <2>1. queue' \in Seq(Events)
    BY <1>9 DEF ReadDropped, TypeInv
  <2> QED
    BY <1>9, <2>1 DEF ReadDropped, TypeInv, TypingType, Code
<1> QED
  BY <1>1, <1>2, <1>3, <1>4, <1>6, <1>7, <1>8, <1>9 DEF Next

LEMMA TypeInvariant == Spec => []TypeInv
BY TypeInit, TypeStep, PTL DEF Spec

-----------------------------------------------------------------------------
(* What an event makes of the reader's state, and the state the reader has  *)
(* to be in once it has read all that the device sent: sent events of the   *)
(* n-th key of code (no key, 0, when the device is idle).                   *)

ShiftAfter(shift, e) ==
    IF e.key = "shift" /\ e.value \in {0, 1} THEN e.value ELSE shift

BarcodeAfter(bar, shift, e) ==
    IF e.key \in Keys /\ e.value = 1 /\ Len(bar) < BARCODE_MAX
    THEN Append(bar, IF shift = 1 THEN Upper(e.key) ELSE e.key)
    ELSE IF e.key = "enter" /\ e.value = 1 THEN <<>> ELSE bar

DeliveredAfter(del, bar, e) ==
    IF e.key = "enter" /\ e.value = 1 /\ bar # <<>> THEN Append(del, bar) ELSE del

Fits(n) == IF n < BARCODE_MAX THEN n ELSE BARCODE_MAX

FirstOf(code, n) == [k \in 1 .. Fits(n) |-> code[k]]

PressAt(ch) == IF ch = Lower(ch) THEN 1 ELSE 2

ShiftAt(code, n, sent) ==
    IF n # 0 /\ n <= Len(code) /\ sent # 0 /\ code[n] # Lower(code[n]) THEN 1 ELSE 0

StruckAt(code, n, sent) ==
    IF n <= Len(code) /\ sent >= PressAt(code[n]) THEN n ELSE n - 1

EndedAt(code, n, sent) == n = 0 \/ (n = Len(code) + 1 /\ sent = 1)

BarcodeAt(code, n, sent) ==
    IF EndedAt(code, n, sent) THEN <<>> ELSE FirstOf(code, StruckAt(code, n, sent))

LEMMA FirstOfType ==
    ASSUME NEW code \in Codes, NEW n \in 0 .. Len(code)
    PROVE  /\ FirstOf(code, n) \in Seq(Characters)
           /\ Len(FirstOf(code, n)) = Fits(n)
           /\ Fits(n) \in 0 .. n
           /\ \A k \in 1 .. Fits(n) : FirstOf(code, n)[k] = code[k]
<1>1. Fits(n) \in Nat /\ Fits(n) <= n /\ Len(code) \in Nat
  BY CodeType, ScannerAssumption DEF Fits
<1>2. \A k \in 1 .. Fits(n) : code[k] \in Characters
  BY <1>1, CodeType
<1>3. FirstOf(code, n) \in [1 .. Fits(n) -> Characters]
  BY <1>2 DEF FirstOf
<1> QED
  BY <1>1, <1>3 DEF FirstOf

LEMMA FirstOfNext ==
    ASSUME NEW code \in Codes, NEW n \in 0 .. Len(code) - 1
    PROVE  FirstOf(code, n + 1) =
               IF Len(FirstOf(code, n)) < BARCODE_MAX
               THEN Append(FirstOf(code, n), code[n + 1]) ELSE FirstOf(code, n)
<1>1. n \in 0 .. Len(code) /\ n + 1 \in 0 .. Len(code) /\ n \in Nat
  BY CodeType
<1>2. Len(FirstOf(code, n)) = Fits(n)
  BY <1>1, FirstOfType
<1>3. CASE n < BARCODE_MAX
  <2>1. Fits(n) = n /\ Fits(n + 1) = n + 1
    BY <1>1, <1>3, ScannerAssumption DEF Fits
  <2>2. FirstOf(code, n) \in [1 .. n -> Characters]
        /\ FirstOf(code, n + 1) \in [1 .. n + 1 -> Characters]
    BY <1>1, <2>1, CodeType DEF FirstOf
  <2>3. FirstOf(code, n) \in Seq(Characters) /\ FirstOf(code, n + 1) \in Seq(Characters)
        /\ Len(FirstOf(code, n)) = n /\ Len(FirstOf(code, n + 1)) = n + 1
    BY <1>1, <2>1, FirstOfType
  <2>4. code[n + 1] \in Characters
    BY <1>1, CodeType
  <2>5. \A k \in 1 .. n + 1 :
           FirstOf(code, n + 1)[k] = Append(FirstOf(code, n), code[n + 1])[k]
    <3>1. \A k \in 1 .. n + 1 : FirstOf(code, n + 1)[k] = code[k]
      BY <1>1, <2>1, FirstOfType
    <3>2. \A k \in 1 .. n : FirstOf(code, n)[k] = code[k]
      BY <1>1, <2>1, FirstOfType
    <3> QED
      BY <1>1, <2>3, <3>1, <3>2
  <2>6. Append(FirstOf(code, n), code[n + 1]) \in Seq(Characters)
        /\ Len(Append(FirstOf(code, n), code[n + 1])) = n + 1
    BY <2>3, <2>4
  <2>7. FirstOf(code, n + 1) = Append(FirstOf(code, n), code[n + 1])
    BY <2>3, <2>5, <2>6
  <2> QED
    BY <1>2, <1>3, <2>1, <2>7
<1>4. CASE ~(n < BARCODE_MAX)
  <2>1. Fits(n) = BARCODE_MAX /\ Fits(n + 1) = BARCODE_MAX
    BY <1>1, <1>4, ScannerAssumption DEF Fits
  <2>2. ~(Len(FirstOf(code, n)) < BARCODE_MAX)
    BY <1>2, <2>1, ScannerAssumption
  <2> QED
    BY <2>1, <2>2 DEF FirstOf
<1> QED
  BY <1>3, <1>4

LEMMA CutIsFirst ==
    ASSUME NEW code \in Codes
    PROVE  /\ Cut(code) = FirstOf(code, Len(code))
           /\ Cut(code) # <<>> /\ Cut(code) \in Seq(Characters)
<1>1. Len(code) \in 0 .. Len(code) /\ Len(code) \in Nat \ {0}
  BY CodeType
<1>2. Fits(Len(code)) \in 1 .. Len(code)
  BY <1>1, ScannerAssumption DEF Fits
<1>3. Cut(code) = SubSeq(code, 1, Fits(Len(code)))
  BY DEF Cut, Fits
<1>4. code \in Seq(Characters)
  BY CodeType
<1>5. /\ Cut(code) \in Seq(Characters) /\ Len(Cut(code)) = Fits(Len(code))
      /\ \A k \in 1 .. Fits(Len(code)) : Cut(code)[k] = code[k]
  BY <1>1, <1>2, <1>3, <1>4
<1>6. FirstOf(code, Len(code)) = Cut(code)
  BY <1>1, <1>5, FirstOfType
<1> QED
  BY <1>2, <1>5, <1>6

(* The device after one more event of the n-th key.                         *)
NextAt(code, n, sent, n2, sent2) ==
    \/ sent + 1 < Len(Stroke(code, n)) /\ n2 = n /\ sent2 = sent + 1
    \/ /\ sent + 1 = Len(Stroke(code, n)) /\ n <= Len(code)
       /\ n2 = n + 1 /\ sent2 = 0
    \/ sent + 1 = Len(Stroke(code, n)) /\ n = Len(code) + 1 /\ n2 = 0 /\ sent2 = 0

EndsCode(e) == e.key = "enter" /\ e.value = 1

Follows(code, n, sent, n2, sent2, e) ==
    /\ ShiftAt(code, n2, sent2) = ShiftAfter(ShiftAt(code, n, sent), e)
    /\ BarcodeAt(code, n2, sent2) =
          BarcodeAfter(BarcodeAt(code, n, sent), ShiftAt(code, n, sent), e)
    /\ EndsCode(e) => /\ BarcodeAt(code, n, sent) = Cut(code)
                      /\ ~EndedAt(code, n, sent) /\ EndedAt(code, n2, sent2)
    /\ ~EndsCode(e) => (EndedAt(code, n, sent) <=> EndedAt(code, n2, sent2))

LEMMA AfterSmall ==
    ASSUME NEW code \in Codes, NEW n \in 1 .. Len(code) + 1, NEW sent \in Nat,
           NEW n2, NEW sent2, NextAt(code, n, sent, n2, sent2),
           NEW e, Small(code, n, sent + 1, e)
    PROVE  Follows(code, n, sent, n2, sent2, e)
<1>1. /\ Len(code) \in Nat /\ n \in 1 .. Len(code) /\ code[n] = Lower(code[n])
      /\ code[n] \in Keys
  BY CodeType, CaseOfKey DEF Small
<1>2. code[n] # "shift" /\ code[n] # "enter" /\ PressAt(code[n]) = 1
  BY <1>1, CaseOfKey DEF PressAt
<1>3. Len(Stroke(code, n)) = 2
  BY DEF Small
<1>4. CASE sent = 0 /\ e = Key(code[n], 1)
  <2>1. n2 = n /\ sent2 = 1 /\ n \in Nat \ {0}
    BY <1>1, <1>3, <1>4 DEF NextAt
  <2>2. e.key = code[n] /\ e.value = 1
    BY <1>4, KeyFields
  <2>3. ~EndedAt(code, n, sent) /\ ~EndedAt(code, n2, sent2)
    BY <1>1, <1>4, <2>1 DEF EndedAt
  <2>4. StruckAt(code, n, sent) = n - 1 /\ StruckAt(code, n2, sent2) = n
    BY <1>1, <1>2, <1>4, <2>1 DEF StruckAt
  <2>5. ShiftAt(code, n, sent) = 0 /\ ShiftAt(code, n2, sent2) = 0
    BY <1>1, <1>4, <2>1 DEF ShiftAt
  <2>6. BarcodeAt(code, n, sent) = FirstOf(code, n - 1)
        /\ BarcodeAt(code, n2, sent2) = FirstOf(code, n)
    BY <2>3, <2>4 DEF BarcodeAt
  <2>7. FirstOf(code, n) =
               IF Len(FirstOf(code, n - 1)) < BARCODE_MAX
               THEN Append(FirstOf(code, n - 1), code[n]) ELSE FirstOf(code, n - 1)
    <3>1. n - 1 \in 0 .. Len(code) - 1 /\ (n - 1) + 1 = n
      BY <1>1
    <3> QED
      BY <3>1, FirstOfNext
  <2>8. ~EndsCode(e)
    BY <1>2, <2>2 DEF EndsCode
  <2> QED
    BY <1>1, <1>2, <2>2, <2>3, <2>5, <2>6, <2>7, <2>8
       DEF Follows, ShiftAfter, BarcodeAfter
<1>5. CASE sent = 1 /\ e = Key(code[n], 0)
  <2>1. n2 = n + 1 /\ sent2 = 0 /\ n \in Nat \ {0}
    BY <1>1, <1>3, <1>5 DEF NextAt
  <2>2. e.key = code[n] /\ e.value = 0
    BY <1>5, KeyFields
  <2>3. ~EndedAt(code, n, sent) /\ ~EndedAt(code, n2, sent2)
    BY <1>1, <1>5, <2>1 DEF EndedAt
  <2>4. StruckAt(code, n, sent) = n /\ StruckAt(code, n2, sent2) = n
    BY <1>1, <1>2, <1>5, <2>1 DEF StruckAt, PressAt
  <2>5. ShiftAt(code, n, sent) = 0 /\ ShiftAt(code, n2, sent2) = 0
    BY <1>1, <1>5, <2>1 DEF ShiftAt
  <2>6. BarcodeAt(code, n, sent) = FirstOf(code, n)
        /\ BarcodeAt(code, n2, sent2) = FirstOf(code, n)
    BY <2>3, <2>4 DEF BarcodeAt
  <2> QED
    BY <1>2, <2>2, <2>3, <2>5, <2>6
       DEF Follows, ShiftAfter, BarcodeAfter, EndsCode
<1> QED
  BY <1>4, <1>5 DEF Small

LEMMA AfterCapital ==
    ASSUME NEW code \in Codes, NEW n \in 1 .. Len(code) + 1, NEW sent \in Nat,
           NEW n2, NEW sent2, NextAt(code, n, sent, n2, sent2),
           NEW e, Capital(code, n, sent + 1, e)
    PROVE  Follows(code, n, sent, n2, sent2, e)
<1> DEFINE key == Lower(code[n])
<1>1. /\ Len(code) \in Nat /\ n \in 1 .. Len(code) /\ code[n] # key
      /\ key \in Keys /\ Upper(key) = code[n]
  BY CodeType, CaseOfKey DEF Capital
<1>2. key # "shift" /\ key # "enter" /\ PressAt(code[n]) = 2 /\ "shift" # "enter"
  BY <1>1, CaseOfKey DEF PressAt
<1>3. Len(Stroke(code, n)) = 4
  BY DEF Capital
<1>4. ~EndedAt(code, n, sent)
  BY <1>1 DEF EndedAt
<1>5. sent < 3 => n2 = n /\ sent2 = sent + 1 /\ ~EndedAt(code, n2, sent2)
  BY <1>1, <1>3 DEF NextAt, EndedAt
<1>6. sent = 3 => n2 = n + 1 /\ sent2 = 0 /\ ~EndedAt(code, n2, sent2)
  BY <1>1, <1>3 DEF NextAt, EndedAt
<1>7. /\ sent < 2 => StruckAt(code, n, sent) = n - 1
      /\ ~(sent < 2) => StruckAt(code, n, sent) = n
      /\ ShiftAt(code, n, sent) = IF sent = 0 THEN 0 ELSE 1
  BY <1>1, <1>2 DEF StruckAt, ShiftAt
<1>8. /\ StruckAt(code, n + 1, 0) = n
      /\ ShiftAt(code, n + 1, 0) = 0
  BY <1>1 DEF StruckAt, ShiftAt, PressAt
<1>9. BarcodeAt(code, n, sent) = FirstOf(code, StruckAt(code, n, sent))
  BY <1>4 DEF BarcodeAt
<1>10. sent \in 0 .. 3 => BarcodeAt(code, n2, sent2) = FirstOf(code, StruckAt(code, n2, sent2))
  BY <1>5, <1>6 DEF BarcodeAt
<1>11. sent < 3 =>
       /\ sent + 1 < 2 => StruckAt(code, n2, sent2) = n - 1
       /\ ~(sent + 1 < 2) => StruckAt(code, n2, sent2) = n
       /\ ShiftAt(code, n2, sent2) = 1
  BY <1>1, <1>2, <1>5 DEF StruckAt, ShiftAt
<1>12. CASE sent = 0 /\ e = Key("shift", 1)
  <2>1. e.key = "shift" /\ e.value = 1
    BY <1>12, KeyFields
  <2>2. BarcodeAt(code, n, sent) = FirstOf(code, n - 1)
        /\ BarcodeAt(code, n2, sent2) = FirstOf(code, n - 1)
    BY <1>7, <1>9, <1>10, <1>11, <1>12
  <2>3. ShiftAt(code, n, sent) = 0 /\ ShiftAt(code, n2, sent2) = 1
    BY <1>7, <1>11, <1>12
  <2> QED
    BY <1>2, <1>4, <1>5, <1>12, <2>1, <2>2, <2>3, CaseOfKey
       DEF Follows, ShiftAfter, BarcodeAfter, EndsCode
<1>13. CASE sent = 1 /\ e = Key(key, 1)
  <2>1. e.key = key /\ e.value = 1
    BY <1>13, KeyFields
  <2>2. BarcodeAt(code, n, sent) = FirstOf(code, n - 1)
        /\ BarcodeAt(code, n2, sent2) = FirstOf(code, n)
    BY <1>7, <1>9, <1>10, <1>11, <1>13
  <2>3. ShiftAt(code, n, sent) = 1 /\ ShiftAt(code, n2, sent2) = 1
    BY <1>7, <1>11, <1>13
  <2>4. FirstOf(code, n) =
               IF Len(FirstOf(code, n - 1)) < BARCODE_MAX
               THEN Append(FirstOf(code, n - 1), code[n]) ELSE FirstOf(code, n - 1)
    <3>1. n - 1 \in 0 .. Len(code) - 1 /\ (n - 1) + 1 = n
      BY <1>1
    <3> QED
      BY <3>1, FirstOfNext
  <2> HIDE DEF key
  <2> QED
    BY <1>1, <1>2, <1>4, <1>5, <1>13, <2>1, <2>2, <2>3, <2>4
       DEF Follows, ShiftAfter, BarcodeAfter, EndsCode
<1>14. CASE sent = 2 /\ e = Key(key, 0)
  <2>1. e.key = key /\ e.value = 0
    BY <1>14, KeyFields
  <2>2. BarcodeAt(code, n, sent) = FirstOf(code, n)
        /\ BarcodeAt(code, n2, sent2) = FirstOf(code, n)
    BY <1>7, <1>9, <1>10, <1>11, <1>14
  <2>3. ShiftAt(code, n, sent) = 1 /\ ShiftAt(code, n2, sent2) = 1
    BY <1>7, <1>11, <1>14
  <2> HIDE DEF key
  <2> QED
    BY <1>2, <1>4, <1>5, <1>14, <2>1, <2>2, <2>3
       DEF Follows, ShiftAfter, BarcodeAfter, EndsCode
<1>15. CASE sent = 3 /\ e = Key("shift", 0)
  <2>1. e.key = "shift" /\ e.value = 0
    BY <1>15, KeyFields
  <2>2. BarcodeAt(code, n, sent) = FirstOf(code, n)
        /\ BarcodeAt(code, n2, sent2) = FirstOf(code, n)
    BY <1>6, <1>7, <1>8, <1>9, <1>10, <1>15
  <2>3. ShiftAt(code, n2, sent2) = 0
    BY <1>6, <1>8, <1>15
  <2> QED
    BY <1>2, <1>4, <1>6, <1>15, <2>1, <2>2, <2>3, CaseOfKey
       DEF Follows, ShiftAfter, BarcodeAfter, EndsCode
<1>16. \/ sent = 0 /\ e = Key("shift", 1)
       \/ sent = 1 /\ e = Key(key, 1)
       \/ sent = 2 /\ e = Key(key, 0)
       \/ sent = 3 /\ e = Key("shift", 0)
  BY DEF Capital
<1> QED
  BY <1>12, <1>13, <1>14, <1>15, <1>16

LEMMA AfterEnter ==
    ASSUME NEW code \in Codes, NEW n \in 1 .. Len(code) + 1, NEW sent \in Nat,
           NEW n2, NEW sent2, NextAt(code, n, sent, n2, sent2),
           NEW e, Enter(code, n, sent + 1, e)
    PROVE  Follows(code, n, sent, n2, sent2, e)
<1>1. /\ Len(code) \in Nat /\ n = Len(code) + 1 /\ Len(Stroke(code, n)) = 2
      /\ n # 0 /\ ~(n <= Len(code))
  BY CodeType DEF Enter
<1>2. \A m : ShiftAt(code, n, m) = 0
  BY <1>1 DEF ShiftAt
<1>3. CASE sent = 0 /\ e = Key("enter", 1)
  <2>1. n2 = n /\ sent2 = 1
    BY <1>1, <1>3 DEF NextAt
  <2>2. e.key = "enter" /\ e.value = 1
    BY <1>3, KeyFields
  <2>3. ~EndedAt(code, n, sent) /\ EndedAt(code, n2, sent2)
    BY <1>1, <1>3, <2>1 DEF EndedAt
  <2>4. StruckAt(code, n, sent) = Len(code)
    BY <1>1 DEF StruckAt
  <2>5. BarcodeAt(code, n, sent) = Cut(code) /\ BarcodeAt(code, n2, sent2) = <<>>
    BY <2>3, <2>4, CutIsFirst DEF BarcodeAt
  <2> QED
    BY <1>2, <2>1, <2>2, <2>3, <2>5, CaseOfKey
       DEF Follows, ShiftAfter, BarcodeAfter, EndsCode
<1>4. CASE sent = 1 /\ e = Key("enter", 0)
  <2>1. n2 = 0 /\ sent2 = 0
    <3>1. sent = 1 /\ Len(Stroke(code, n)) = 2
      BY <1>1, <1>4
    <3>2. ~(sent + 1 < Len(Stroke(code, n)))
      BY <3>1
    <3> QED
      BY <1>1, <3>2 DEF NextAt
  <2>2. e.key = "enter" /\ e.value = 0
    BY <1>4, KeyFields
  <2>3. EndedAt(code, n, sent) /\ EndedAt(code, n2, sent2)
    BY <1>1, <1>4, <2>1 DEF EndedAt
  <2>4. BarcodeAt(code, n, sent) = <<>> /\ BarcodeAt(code, n2, sent2) = <<>>
    BY <2>3 DEF BarcodeAt
  <2>5. ShiftAt(code, n2, sent2) = 0
    BY <2>1 DEF ShiftAt
  <2> QED
    BY <1>2, <2>2, <2>3, <2>4, <2>5, CaseOfKey
       DEF Follows, ShiftAfter, BarcodeAfter, EndsCode
<1> QED
  BY <1>1, <1>3, <1>4 DEF Enter

(* The event sent next takes the reader's state from one to the other.      *)
LEMMA AfterEvent ==
    ASSUME NEW code \in Codes, NEW n \in 1 .. Len(code) + 1, NEW sent \in Nat,
           sent + 1 \in 1 .. Len(Stroke(code, n)),
           NEW n2, NEW sent2, NextAt(code, n, sent, n2, sent2)
    PROVE  Follows(code, n, sent, n2, sent2, Stroke(code, n)[sent + 1])
BY StrokeEvents, AfterSmall, AfterCapital, AfterEnter

-----------------------------------------------------------------------------
(* Without a loss, the reader gets from where it is, over the events that   *)
(* are queued, to the state that the device's place stands for.             *)

TypedShift   == ShiftAt(Code, typing.key, typing.sent)
TypedBarcode == BarcodeAt(Code, typing.key, typing.sent)

(* The codes whose Enter was sent.                                          *)
Done ==
    IF EndedAt(Code, typing.key, typing.sent) THEN Len(scanned) ELSE Len(scanned) - 1

TypedDelivered == [c \in 1 .. Done |-> Cut(scanned[c])]

Run(events, shift, bar, del) ==
    /\ shift \in [0 .. Len(events) -> {0, 1}]
    /\ bar \in [0 .. Len(events) -> Seq(Characters)]
    /\ del \in [0 .. Len(events) -> Seq(Seq(Characters))]
    /\ \A n \in 1 .. Len(events) :
          /\ shift[n] = ShiftAfter(shift[n - 1], events[n])
          /\ bar[n] = BarcodeAfter(bar[n - 1], shift[n - 1], events[n])
          /\ del[n] = DeliveredAfter(del[n - 1], bar[n - 1], events[n])

CatchesUp ==
    \E shift, bar, del :
        /\ Run(queue, shift, bar, del)
        /\ shift[0] = shift_held /\ bar[0] = barcode /\ del[0] = delivered
        /\ shift[Len(queue)] = TypedShift
        /\ bar[Len(queue)] = TypedBarcode
        /\ del[Len(queue)] = TypedDelivered

NoMark == \A n \in 1 .. Len(queue) : queue[n].key # "dropped"

Lossless == overrun \/ (NoMark /\ CatchesUp)

(* One more event at the end of the queue.                                  *)
LEMMA RunLonger ==
    ASSUME TypeInv, NEW e \in Events, NEW shift, NEW bar, NEW del,
           Run(queue, shift, bar, del)
    PROVE  LET n == Len(queue)
               s2 == ShiftAfter(shift[n], e)
               b2 == BarcodeAfter(bar[n], shift[n], e)
               d2 == DeliveredAfter(del[n], bar[n], e)
           IN \E shift2, bar2, del2 :
                 /\ Run(Append(queue, e), shift2, bar2, del2)
                 /\ shift2[0] = shift[0] /\ bar2[0] = bar[0] /\ del2[0] = del[0]
                 /\ shift2[n + 1] = s2 /\ bar2[n + 1] = b2 /\ del2[n + 1] = d2
<1> DEFINE n == Len(queue)
           s2 == ShiftAfter(shift[n], e)
           b2 == BarcodeAfter(bar[n], shift[n], e)
           d2 == DeliveredAfter(del[n], bar[n], e)
           shift2 == [k \in 0 .. n + 1 |-> IF k = n + 1 THEN s2 ELSE shift[k]]
           bar2 == [k \in 0 .. n + 1 |-> IF k = n + 1 THEN b2 ELSE bar[k]]
           del2 == [k \in 0 .. n + 1 |-> IF k = n + 1 THEN d2 ELSE del[k]]
           longer == Append(queue, e)
<1>1. /\ queue \in Seq(Events) /\ n \in Nat /\ longer \in Seq(Events)
      /\ Len(longer) = n + 1 /\ longer[n + 1] = e
      /\ \A k \in 1 .. n : longer[k] = queue[k]
  BY DEF TypeInv
<1>2. /\ shift \in [0 .. n -> {0, 1}] /\ bar \in [0 .. n -> Seq(Characters)]
      /\ del \in [0 .. n -> Seq(Seq(Characters))]
      /\ \A k \in 1 .. n :
          /\ shift[k] = ShiftAfter(shift[k - 1], queue[k])
          /\ bar[k] = BarcodeAfter(bar[k - 1], shift[k - 1], queue[k])
          /\ del[k] = DeliveredAfter(del[k - 1], bar[k - 1], queue[k])
  BY DEF Run
<1>3. shift[n] \in {0, 1} /\ bar[n] \in Seq(Characters) /\ del[n] \in Seq(Seq(Characters))
  BY <1>1, <1>2
<1>4. s2 \in {0, 1}
  BY <1>3 DEF ShiftAfter, Events
<1>5. b2 \in Seq(Characters)
  <2>1. e.key \in Keys =>
           (IF shift[n] = 1 THEN Upper(e.key) ELSE e.key) \in Characters
    BY CaseOfKey
  <2>2. <<>> \in Seq(Characters)
    OBVIOUS
  <2> QED
    BY <1>3, <2>1, <2>2 DEF BarcodeAfter
<1>6. d2 \in Seq(Seq(Characters))
  BY <1>3 DEF DeliveredAfter
<1> HIDE DEF n, s2, b2, d2, longer
<1>7. /\ shift2 \in [0 .. n + 1 -> {0, 1}] /\ bar2 \in [0 .. n + 1 -> Seq(Characters)]
      /\ del2 \in [0 .. n + 1 -> Seq(Seq(Characters))]
  <2>1. \A k \in 0 .. n + 1 : k # n + 1 => k \in 0 .. n
    BY <1>1
  <2> QED
    BY <1>2, <1>4, <1>5, <1>6, <2>1
<1>8. /\ shift2[n + 1] = s2 /\ bar2[n + 1] = b2 /\ del2[n + 1] = d2
      /\ \A k \in 0 .. n : shift2[k] = shift[k] /\ bar2[k] = bar[k] /\ del2[k] = del[k]
  BY <1>1
<1> HIDE DEF shift2, bar2, del2
<1>9. ASSUME NEW k \in 1 .. n + 1
      PROVE  /\ shift2[k] = ShiftAfter(shift2[k - 1], longer[k])
             /\ bar2[k] = BarcodeAfter(bar2[k - 1], shift2[k - 1], longer[k])
             /\ del2[k] = DeliveredAfter(del2[k - 1], bar2[k - 1], longer[k])
  <2>1. CASE k = n + 1
    <3>1. k - 1 = n /\ n \in 0 .. n
      BY <1>1, <2>1
    <3> QED
      BY <1>1, <1>8, <2>1, <3>1 DEF s2, b2, d2
  <2>2. CASE k # n + 1
    <3>1. k \in 1 .. n /\ k \in 0 .. n /\ k - 1 \in 0 .. n
      BY <1>1, <2>2
    <3> QED
      BY <1>1, <1>2, <1>8, <3>1
  <2> QED
    BY <2>1, <2>2
<1>10. Run(longer, shift2, bar2, del2)
  BY <1>1, <1>7, <1>9 DEF Run
<1>11. shift2[0] = shift[0] /\ bar2[0] = bar[0] /\ del2[0] = del[0]
  BY <1>1, <1>8
<1> QED
  BY <1>8, <1>10, <1>11 DEF n, s2, b2, d2, longer

(* One event less at its head.                                              *)
LEMMA RunShorter ==
    ASSUME NEW events \in Seq(Events), events # <<>>, NEW shift, NEW bar, NEW del,
           Run(events, shift, bar, del)
    PROVE  \E shift2, bar2, del2 :
              /\ Run(Tail(events), shift2, bar2, del2)
              /\ shift2[0] = shift[1] /\ bar2[0] = bar[1] /\ del2[0] = del[1]
              /\ shift2[Len(Tail(events))] = shift[Len(events)]
              /\ bar2[Len(Tail(events))] = bar[Len(events)]
              /\ del2[Len(Tail(events))] = del[Len(events)]
<1> DEFINE n == Len(Tail(events))
           shift2 == [k \in 0 .. n |-> shift[k + 1]]
           bar2 == [k \in 0 .. n |-> bar[k + 1]]
           del2 == [k \in 0 .. n |-> del[k + 1]]
           rest == Tail(events)
<1>1. /\ Len(events) = n + 1 /\ n \in Nat /\ rest \in Seq(Events)
      /\ \A k \in 1 .. n : rest[k] = events[k + 1]
  OBVIOUS
<1> HIDE DEF n, rest
<1>2. /\ shift \in [0 .. n + 1 -> {0, 1}] /\ bar \in [0 .. n + 1 -> Seq(Characters)]
      /\ del \in [0 .. n + 1 -> Seq(Seq(Characters))]
      /\ \A k \in 1 .. n + 1 :
          /\ shift[k] = ShiftAfter(shift[k - 1], events[k])
          /\ bar[k] = BarcodeAfter(bar[k - 1], shift[k - 1], events[k])
          /\ del[k] = DeliveredAfter(del[k - 1], bar[k - 1], events[k])
  BY <1>1 DEF Run
<1>3. \A k \in 0 .. n : k + 1 \in 0 .. n + 1
  BY <1>1
<1>4. /\ shift2 \in [0 .. n -> {0, 1}] /\ bar2 \in [0 .. n -> Seq(Characters)]
      /\ del2 \in [0 .. n -> Seq(Seq(Characters))]
  BY <1>2, <1>3
<1>5. \A k \in 0 .. n :
         shift2[k] = shift[k + 1] /\ bar2[k] = bar[k + 1] /\ del2[k] = del[k + 1]
  OBVIOUS
<1> HIDE DEF shift2, bar2, del2
<1>6. ASSUME NEW k \in 1 .. n
      PROVE  /\ shift2[k] = ShiftAfter(shift2[k - 1], rest[k])
             /\ bar2[k] = BarcodeAfter(bar2[k - 1], shift2[k - 1], rest[k])
             /\ del2[k] = DeliveredAfter(del2[k - 1], bar2[k - 1], rest[k])
  <2>1. /\ k \in 0 .. n /\ k - 1 \in 0 .. n /\ k + 1 \in 1 .. n + 1
        /\ (k - 1) + 1 = k /\ (k + 1) - 1 = k
    BY <1>1
  <2>2. /\ shift2[k] = shift[k + 1] /\ shift2[k - 1] = shift[k]
        /\ bar2[k] = bar[k + 1] /\ bar2[k - 1] = bar[k]
        /\ del2[k] = del[k + 1] /\ del2[k - 1] = del[k]
    <3>1. /\ shift2[k - 1] = shift[(k - 1) + 1] /\ bar2[k - 1] = bar[(k - 1) + 1]
          /\ del2[k - 1] = del[(k - 1) + 1]
      BY <1>5, <2>1
    <3> QED
      BY <1>5, <2>1, <3>1
  <2>3. /\ shift[k + 1] = ShiftAfter(shift[k], events[k + 1])
        /\ bar[k + 1] = BarcodeAfter(bar[k], shift[k], events[k + 1])
        /\ del[k + 1] = DeliveredAfter(del[k], bar[k], events[k + 1])
    <3>1. /\ shift[k + 1] = ShiftAfter(shift[(k + 1) - 1], events[k + 1])
          /\ bar[k + 1] = BarcodeAfter(bar[(k + 1) - 1], shift[(k + 1) - 1], events[k + 1])
          /\ del[k + 1] = DeliveredAfter(del[(k + 1) - 1], bar[(k + 1) - 1], events[k + 1])
      BY <1>2, <2>1
    <3> QED
      BY <2>1, <3>1
  <2>4. rest[k] = events[k + 1]
    BY <1>1
  <2> QED
    BY <2>2, <2>3, <2>4
<1>7. Run(rest, shift2, bar2, del2)
  BY <1>4, <1>6 DEF Run, n, rest
<1>8. /\ shift2[0] = shift[1] /\ bar2[0] = bar[1] /\ del2[0] = del[1]
      /\ shift2[n] = shift[Len(events)] /\ bar2[n] = bar[Len(events)]
      /\ del2[n] = del[Len(events)]
  BY <1>1, <1>5
<1> QED
  BY <1>7, <1>8 DEF n, rest

-----------------------------------------------------------------------------
(* The device's step, and Lossless.                                         *)

LEMMA SendsNext ==
    ASSUME TypeInv, SendKey
    PROVE  NextAt(Code, typing.key, typing.sent, typing'.key, typing'.sent)
<1>1. /\ Code \in Codes /\ typing.key \in 1 .. Len(Code) + 1 /\ typing.sent \in Nat
      /\ Typed = Stroke(Code, typing.key)
      /\ typing.sent + 1 \in 1 .. Len(Typed)
  BY TypingNow DEF SendKey
<1>2. Len(Code) \in Nat /\ Len(Stroke(Code, typing.key)) \in {2, 4}
  BY <1>1, CodeType, StrokeLength
<1>3. CASE typing.sent + 1 < Len(Typed)
  <2>1. typing'.key = typing.key /\ typing'.sent = typing.sent + 1
    BY <1>3 DEF SendKey, AtKey
  <2> QED
    BY <1>1, <1>3, <2>1 DEF NextAt
<1>4. CASE ~(typing.sent + 1 < Len(Typed))
  <2>1. typing.sent + 1 = Len(Stroke(Code, typing.key)) /\ typing' = NextKey
    BY <1>1, <1>2, <1>4 DEF SendKey
  <2>2. CASE typing.key <= Len(Code)
    <3>1. typing'.key = typing.key + 1 /\ typing'.sent = 0
      BY <2>1, <2>2 DEF NextKey, Code, AtKey
    <3> QED
      BY <2>1, <2>2, <3>1 DEF NextAt
  <2>3. CASE ~(typing.key <= Len(Code))
    <3>1. typing'.key = 0 /\ typing'.sent = 0
      BY <2>1, <2>3 DEF NextKey, Code, Idle, AtKey
    <3>2. typing.key = Len(Code) + 1
      BY <1>1, <1>2, <2>3
    <3> QED
      BY <2>1, <3>1, <3>2 DEF NextAt
  <2> QED
    BY <2>2, <2>3
<1> QED
  BY <1>3, <1>4

(* The codes cut, one after the other.                                      *)
CutTo(codes, n) == [c \in 1 .. n |-> Cut(codes[c])]

LEMMA CutToType ==
    ASSUME NEW codes \in Seq(Codes), NEW n \in 0 .. Len(codes)
    PROVE  /\ CutTo(codes, n) \in Seq(Seq(Characters)) /\ Len(CutTo(codes, n)) = n
           /\ \A c \in 1 .. n : CutTo(codes, n)[c] = Cut(codes[c])
<1>1. \A c \in 1 .. n : Cut(codes[c]) \in Seq(Characters)
  <2>1. \A c \in 1 .. n : codes[c] \in Codes
    OBVIOUS
  <2> QED
    BY <2>1, CutIsFirst
<1>2. CutTo(codes, n) \in [1 .. n -> Seq(Characters)]
  BY <1>1 DEF CutTo
<1> QED
  BY <1>2 DEF CutTo

LEMMA CutToNext ==
    ASSUME NEW codes \in Seq(Codes), NEW n \in 1 .. Len(codes)
    PROVE  CutTo(codes, n) = Append(CutTo(codes, n - 1), Cut(codes[n]))
<1> DEFINE long == CutTo(codes, n)
           short == CutTo(codes, n - 1)
<1>1. n \in Nat \ {0} /\ n - 1 \in 0 .. Len(codes) /\ n \in 0 .. Len(codes)
  OBVIOUS
<1>2. /\ long \in Seq(Seq(Characters)) /\ Len(long) = n
      /\ \A c \in 1 .. n : long[c] = Cut(codes[c])
  BY <1>1, CutToType
<1>3. /\ short \in Seq(Seq(Characters)) /\ Len(short) = n - 1
      /\ \A c \in 1 .. n - 1 : short[c] = Cut(codes[c])
  BY <1>1, CutToType
<1>4. Cut(codes[n]) \in Seq(Characters)
  BY CutIsFirst
<1> HIDE DEF long, short
<1>5. /\ Append(short, Cut(codes[n])) \in Seq(Seq(Characters))
      /\ Len(Append(short, Cut(codes[n]))) = n
  BY <1>1, <1>3, <1>4
<1>6. \A c \in 1 .. n : long[c] = Append(short, Cut(codes[n]))[c]
  BY <1>1, <1>2, <1>3, <1>4
<1>7. long = Append(short, Cut(codes[n]))
  BY <1>2, <1>5, <1>6
<1> QED
  BY <1>7 DEF long, short

LEMMA DoneType ==
    ASSUME TypeInv
    PROVE  /\ TypedDelivered = CutTo(scanned, Done)
           /\ Done \in 0 .. Len(scanned)
<1>1. scanned \in Seq(Codes) /\ Len(scanned) \in Nat
  BY DEF TypeInv
<1>2. CASE typing = Idle
  <2>1. typing.key = 0
    BY <1>2 DEF Idle, AtKey
  <2>2. Done = Len(scanned)
    BY <2>1 DEF Done, EndedAt
  <2> QED
    BY <1>1, <2>2 DEF TypedDelivered, CutTo
<1>3. CASE scanned # <<>>
  <2>1. Len(scanned) \in Nat \ {0}
    BY <1>3, LastType
  <2> QED
    BY <2>1 DEF TypedDelivered, CutTo, Done
<1> QED
  BY <1>2, <1>3 DEF TypeInv, TypingType

LEMMA TypedAfter ==
    ASSUME TypeInv, SendKey
    PROVE  LET e == Typed[typing.sent + 1]
           IN  /\ TypedShift' = ShiftAfter(TypedShift, e)
               /\ TypedBarcode' = BarcodeAfter(TypedBarcode, TypedShift, e)
               /\ TypedDelivered' = DeliveredAfter(TypedDelivered, TypedBarcode, e)
<1> DEFINE e == Typed[typing.sent + 1]
<1>1. /\ Code \in Codes /\ typing.key \in 1 .. Len(Code) + 1 /\ typing.sent \in Nat
      /\ Typed = Stroke(Code, typing.key) /\ scanned # <<>>
      /\ typing.sent + 1 \in 1 .. Len(Stroke(Code, typing.key))
  BY TypingNow DEF SendKey
<1>2. Follows(Code, typing.key, typing.sent, typing'.key, typing'.sent, e)
  BY <1>1, SendsNext, AfterEvent
<1>3. scanned' = scanned /\ Code' = Code
  BY DEF SendKey, Code
<1>4. /\ Len(scanned) \in Nat \ {0} /\ Code = scanned[Len(scanned)]
      /\ scanned \in Seq(Codes)
  BY <1>1, LastType DEF TypeInv
<1> HIDE DEF e
<1>5. /\ TypedShift' = ShiftAfter(TypedShift, e)
      /\ TypedBarcode' = BarcodeAfter(TypedBarcode, TypedShift, e)
  BY <1>2, <1>3 DEF TypedShift, TypedBarcode, Follows
<1>6. CASE EndsCode(e)
  <2>1. Done = Len(scanned) - 1 /\ Done' = Len(scanned) /\ TypedBarcode = Cut(Code)
    BY <1>2, <1>3, <1>6 DEF Follows, Done, TypedBarcode
  <2>2. TypedDelivered = CutTo(scanned, Len(scanned) - 1)
        /\ TypedDelivered' = CutTo(scanned, Len(scanned))
    BY <1>3, <2>1 DEF TypedDelivered, CutTo
  <2>3. TypedBarcode # <<>>
    BY <1>1, <2>1, CutIsFirst
  <2>4. CutTo(scanned, Len(scanned)) =
           Append(CutTo(scanned, Len(scanned) - 1), Cut(scanned[Len(scanned)]))
    BY <1>4, CutToNext
  <2> QED
    BY <1>4, <1>5, <1>6, <2>1, <2>2, <2>3, <2>4 DEF e, EndsCode, DeliveredAfter
<1>7. CASE ~EndsCode(e)
  <2>1. Done' = Done
    BY <1>2, <1>3, <1>7 DEF Follows, Done
  <2>2. TypedDelivered' = TypedDelivered
    BY <1>3, <2>1 DEF TypedDelivered
  <2> QED
    BY <1>5, <1>7, <2>2 DEF e, EndsCode, DeliveredAfter
<1> QED
  BY <1>6, <1>7

(* An event queued after the others: the reader catches up with it too.     *)
LEMMA QueuedOne ==
    ASSUME TypeInv, NEW e \in Events, e.key # "dropped", NoMark, CatchesUp,
           queue' = Append(queue, e),
           UNCHANGED <<shift_held, barcode, delivered>>,
           TypedShift' = ShiftAfter(TypedShift, e),
           TypedBarcode' = BarcodeAfter(TypedBarcode, TypedShift, e),
           TypedDelivered' = DeliveredAfter(TypedDelivered, TypedBarcode, e)
    PROVE  NoMark' /\ CatchesUp'
<1>1. PICK shift, bar, del :
        /\ Run(queue, shift, bar, del)
        /\ shift[0] = shift_held /\ bar[0] = barcode /\ del[0] = delivered
        /\ shift[Len(queue)] = TypedShift
        /\ bar[Len(queue)] = TypedBarcode
        /\ del[Len(queue)] = TypedDelivered
  BY DEF CatchesUp
<1>2. PICK shift2, bar2, del2 :
        /\ Run(Append(queue, e), shift2, bar2, del2)
        /\ shift2[0] = shift[0] /\ bar2[0] = bar[0] /\ del2[0] = del[0]
        /\ shift2[Len(queue) + 1] = ShiftAfter(shift[Len(queue)], e)
        /\ bar2[Len(queue) + 1] = BarcodeAfter(bar[Len(queue)], shift[Len(queue)], e)
        /\ del2[Len(queue) + 1] = DeliveredAfter(del[Len(queue)], bar[Len(queue)], e)
  BY <1>1, RunLonger
<1>3. /\ Len(queue) \in Nat /\ Len(queue') = Len(queue) + 1
      /\ queue'[Len(queue) + 1] = e
      /\ \A n \in 1 .. Len(queue) : queue'[n] = queue[n]
  BY DEF TypeInv
<1>4. CatchesUp'
  <2>1. /\ Run(queue', shift2, bar2, del2)
        /\ shift2[0] = shift_held' /\ bar2[0] = barcode' /\ del2[0] = delivered'
        /\ shift2[Len(queue')] = TypedShift'
        /\ bar2[Len(queue')] = TypedBarcode'
        /\ del2[Len(queue')] = TypedDelivered'
    BY <1>1, <1>2, <1>3
  <2> QED
    BY <2>1 DEF CatchesUp
<1>5. NoMark'
  BY <1>3 DEF NoMark
<1> QED
  BY <1>4, <1>5

(* An event read, by whatever action.                                       *)
LEMMA ReadOne ==
    ASSUME TypeInv, queue # <<>>, NoMark, CatchesUp, queue' = Tail(queue),
           UNCHANGED <<scanned, typing>>,
           shift_held' = ShiftAfter(shift_held, Head(queue)),
           barcode' = BarcodeAfter(barcode, shift_held, Head(queue)),
           delivered' = DeliveredAfter(delivered, barcode, Head(queue))
    PROVE  NoMark' /\ CatchesUp'
<1>1. PICK shift, bar, del :
        /\ Run(queue, shift, bar, del)
        /\ shift[0] = shift_held /\ bar[0] = barcode /\ del[0] = delivered
        /\ shift[Len(queue)] = TypedShift
        /\ bar[Len(queue)] = TypedBarcode
        /\ del[Len(queue)] = TypedDelivered
  BY DEF CatchesUp
<1>2. queue \in Seq(Events) /\ Head(queue) = queue[1] /\ Len(queue) \in Nat \ {0}
  BY DEF TypeInv
<1>3. PICK shift2, bar2, del2 :
        /\ Run(Tail(queue), shift2, bar2, del2)
        /\ shift2[0] = shift[1] /\ bar2[0] = bar[1] /\ del2[0] = del[1]
        /\ shift2[Len(Tail(queue))] = shift[Len(queue)]
        /\ bar2[Len(Tail(queue))] = bar[Len(queue)]
        /\ del2[Len(Tail(queue))] = del[Len(queue)]
  BY <1>1, <1>2, RunShorter
<1>4. /\ shift[1] = ShiftAfter(shift[0], queue[1])
      /\ bar[1] = BarcodeAfter(bar[0], shift[0], queue[1])
      /\ del[1] = DeliveredAfter(del[0], bar[0], queue[1])
  <2>1. 1 \in 1 .. Len(queue) /\ 1 - 1 = 0
    BY <1>2
  <2>2. /\ shift[1] = ShiftAfter(shift[1 - 1], queue[1])
        /\ bar[1] = BarcodeAfter(bar[1 - 1], shift[1 - 1], queue[1])
        /\ del[1] = DeliveredAfter(del[1 - 1], bar[1 - 1], queue[1])
    BY <1>1, <2>1 DEF Run
  <2> QED
    BY <2>1, <2>2
<1>5. CatchesUp'
  <2>1. TypedShift' = TypedShift /\ TypedBarcode' = TypedBarcode
        /\ TypedDelivered' = TypedDelivered
    BY DEF TypedShift, TypedBarcode, TypedDelivered, Done, Code
  <2>2. /\ Run(queue', shift2, bar2, del2)
        /\ shift2[0] = shift_held' /\ bar2[0] = barcode' /\ del2[0] = delivered'
        /\ shift2[Len(queue')] = TypedShift'
        /\ bar2[Len(queue')] = TypedBarcode'
        /\ del2[Len(queue')] = TypedDelivered'
    BY <1>1, <1>2, <1>3, <1>4, <2>1
  <2> QED
    BY <2>2 DEF CatchesUp
<1>6. NoMark'
  <2>1. \A n \in 1 .. Len(queue') : queue'[n] = queue[n + 1] /\ n + 1 \in 1 .. Len(queue)
    BY <1>2
  <2> QED
    BY <2>1 DEF NoMark
<1> QED
  BY <1>5, <1>6

-----------------------------------------------------------------------------
(* Lossless is inductive.                                                   *)

LEMMA LosslessInit == Init => Lossless
<1> SUFFICES ASSUME Init PROVE NoMark /\ CatchesUp
  BY DEF Lossless
<1>1. /\ queue = <<>> /\ scanned = <<>> /\ typing.key = 0 /\ typing.sent = 0
      /\ shift_held = 0 /\ barcode = <<>> /\ delivered = <<>>
  BY DEF Init, Idle, AtKey
<1>2. NoMark
  BY <1>1 DEF NoMark
<1>3. TypedShift = 0 /\ TypedBarcode = <<>>
  BY <1>1 DEF TypedShift, TypedBarcode, ShiftAt, BarcodeAt, EndedAt
<1>4. TypedDelivered = <<>>
  <2>1. TypeInv /\ Done = 0
    BY <1>1, TypeInit DEF Done, EndedAt
  <2>2. TypedDelivered = CutTo(scanned, 0) /\ scanned \in Seq(Codes)
    BY <2>1, DoneType DEF TypeInv
  <2>3. 0 \in 0 .. Len(scanned)
    BY <1>1
  <2>4. TypedDelivered \in Seq(Seq(Characters)) /\ Len(TypedDelivered) = 0
    BY <2>2, <2>3, CutToType
  <2> QED
    BY <2>4
<1> DEFINE shift == [n \in 0 .. 0 |-> 0]
           bar == [n \in 0 .. 0 |-> <<>>]
           del == [n \in 0 .. 0 |-> <<>>]
<1>5. Run(queue, shift, bar, del)
  <2>1. Len(queue) = 0
    BY <1>1
  <2>2. /\ shift \in [0 .. 0 -> {0, 1}] /\ bar \in [0 .. 0 -> Seq(Characters)]
        /\ del \in [0 .. 0 -> Seq(Seq(Characters))]
    OBVIOUS
  <2> HIDE DEF shift, bar, del
  <2> QED
    BY <2>1, <2>2 DEF Run
<1>6. shift[0] = 0 /\ bar[0] = <<>> /\ del[0] = <<>> /\ Len(queue) = 0
  BY <1>1
<1> HIDE DEF shift, bar, del
<1>7. CatchesUp
  BY <1>1, <1>3, <1>4, <1>5, <1>6 DEF CatchesUp
<1> QED
  BY <1>2, <1>7

(* An action that leaves the reader and the queue alone, and moves the      *)
(* device between places that stand for the same.                           *)
LEMMA StaysCaughtUp ==
    ASSUME NoMark, CatchesUp, UNCHANGED <<queue, shift_held, barcode, delivered>>,
           TypedShift' = TypedShift, TypedBarcode' = TypedBarcode,
           TypedDelivered' = TypedDelivered
    PROVE  NoMark' /\ CatchesUp'
BY DEF NoMark, CatchesUp

LEMMA LosslessStep ==
    ASSUME TypeInv, Lossless, [Next]_vars
    PROVE  Lossless'
<1>1. CASE overrun
  <2>1. overrun'
    BY <1>1, Zenon DEF vars, Next, ScanCode, SendKey, Queued, RepeatKey, ReadShift,
                ReadEnter, ReadCharacter, ReadDropped
  <2> QED
    BY <2>1, Zenon DEF Lossless
<1>2. CASE ~overrun
  <2> USE <1>2
  <2>1. NoMark /\ CatchesUp
    BY Zenon DEF Lossless
  <2> SUFFICES ASSUME ~overrun' PROVE NoMark' /\ CatchesUp'
    BY Zenon DEF Lossless
  <2>2. CASE UNCHANGED vars
    BY <2>1, <2>2, StaysCaughtUp
       DEF vars, TypedShift, TypedBarcode, TypedDelivered, Done, Code
  <2>3. ASSUME NEW code \in Codes, ScanCode(code) PROVE NoMark' /\ CatchesUp'
    <3>1. /\ typing.key = 0 /\ typing.sent = 0 /\ typing'.key = 1 /\ typing'.sent = 0
          /\ scanned \in Seq(Codes) /\ scanned' = Append(scanned, code)
      BY <2>3 DEF ScanCode, Idle, AtKey, TypeInv
    <3>2. Code' = code /\ Len(code) \in Nat \ {0}
      BY <3>1, CodeType DEF Code, Last
    <3>3. TypedShift = 0 /\ TypedBarcode = <<>> /\ Done = Len(scanned)
      BY <3>1 DEF TypedShift, TypedBarcode, Done, ShiftAt, BarcodeAt, EndedAt
    <3>4. TypedShift' = 0
      BY <3>1, <3>2 DEF TypedShift, ShiftAt
    <3>5. ~EndedAt(code, 1, 0) /\ StruckAt(code, 1, 0) = 0
      BY <3>2 DEF EndedAt, StruckAt, PressAt
    <3>6. TypedBarcode' = <<>>
      <4>1. TypedBarcode' = FirstOf(code, 0)
        BY <3>1, <3>2, <3>5 DEF TypedBarcode, BarcodeAt
      <4>2. 0 \in 0 .. Len(code)
        BY <3>2
      <4>3. FirstOf(code, 0) \in Seq(Characters) /\ Len(FirstOf(code, 0)) \in 0 .. 0
        BY <4>2, FirstOfType
      <4> QED
        BY <4>1, <4>3
    <3>7. Done' = Done
      BY <3>1, <3>2, <3>3, <3>5 DEF Done
    <3>8. TypedDelivered' = TypedDelivered
      <4>1. Len(scanned) \in Nat /\ \A c \in 1 .. Len(scanned) : scanned'[c] = scanned[c]
        BY <3>1
      <4> QED
        BY <3>3, <3>7, <4>1 DEF TypedDelivered
    <3> QED
      BY <2>1, <2>3, <3>3, <3>4, <3>6, <3>8, StaysCaughtUp DEF ScanCode
  <2>4. CASE SendKey
    <3>1. PICK k \in Keys \cup {"shift", "enter"}, v \in 0 .. 1 :
             Typed[typing.sent + 1] = Key(k, v)
      <4>1. Typing
        BY <2>4 DEF SendKey
      <4>2. /\ Code \in Codes /\ typing.key \in 1 .. Len(Code) + 1
            /\ Typed = Stroke(Code, typing.key)
            /\ typing.sent + 1 \in 1 .. Len(Stroke(Code, typing.key))
        BY <4>1, TypingNow
      <4> QED
        BY <4>2, StrokeType
    <3>2. Key(k, v) \in Events /\ Key(k, v).key # "dropped"
      BY EventType
    <3>3. queue' = Append(queue, Key(k, v))
      BY <2>4, <3>1, Zenon DEF SendKey, Queued
    <3>4. /\ TypedShift' = ShiftAfter(TypedShift, Key(k, v))
          /\ TypedBarcode' = BarcodeAfter(TypedBarcode, TypedShift, Key(k, v))
          /\ TypedDelivered' = DeliveredAfter(TypedDelivered, TypedBarcode, Key(k, v))
      BY <2>4, <3>1, TypedAfter
    <3>5. UNCHANGED <<shift_held, barcode, delivered>>
      BY <2>4 DEF SendKey
    <3> QED
      BY <2>1, <3>2, <3>3, <3>4, <3>5, QueuedOne
  <2>5. CASE RepeatKey
    <3>1. PICK k \in Keys \cup {"shift", "enter"}, v \in 0 .. 1 :
             Typed[typing.sent + 1] = Key(k, v)
      <4>1. Typing
        BY <2>5 DEF RepeatKey
      <4>2. /\ Code \in Codes /\ typing.key \in 1 .. Len(Code) + 1
            /\ Typed = Stroke(Code, typing.key)
            /\ typing.sent + 1 \in 1 .. Len(Stroke(Code, typing.key))
        BY <4>1, TypingNow
      <4> QED
        BY <4>2, StrokeType
    <3> DEFINE e == Key(k, 2)
    <3>2. e \in Events /\ e.key # "dropped" /\ e.value = 2
      BY EventType, KeyFields
    <3>3. queue' = Append(queue, e) /\ UNCHANGED <<shift_held, barcode, delivered>>
      BY <2>5, <3>1, KeyFields DEF RepeatKey
    <3> HIDE DEF e
    <3>4. /\ TypedShift' = TypedShift /\ TypedBarcode' = TypedBarcode
          /\ TypedDelivered' = TypedDelivered
      BY <2>5 DEF RepeatKey, TypedShift, TypedBarcode, TypedDelivered, Done, Code
    <3>5. /\ ShiftAfter(TypedShift, e) = TypedShift
          /\ BarcodeAfter(TypedBarcode, TypedShift, e) = TypedBarcode
          /\ DeliveredAfter(TypedDelivered, TypedBarcode, e) = TypedDelivered
      BY <3>2 DEF ShiftAfter, BarcodeAfter, DeliveredAfter
    <3> QED
      BY <2>1, <3>2, <3>3, <3>4, <3>5, QueuedOne
  <2>6. CASE ReadShift
    <3>1. /\ queue # <<>> /\ Head(queue).key = "shift" /\ queue' = Tail(queue)
          /\ UNCHANGED <<scanned, typing>>
      BY <2>6 DEF ReadShift, Reading
    <3>2. /\ shift_held' = ShiftAfter(shift_held, Head(queue))
          /\ barcode' = BarcodeAfter(barcode, shift_held, Head(queue))
          /\ delivered' = DeliveredAfter(delivered, barcode, Head(queue))
      BY <2>6, <3>1, CaseOfKey
         DEF ReadShift, ShiftAfter, BarcodeAfter, DeliveredAfter
    <3> QED
      BY <2>1, <3>1, <3>2, ReadOne
  <2>7. CASE ReadEnter
    <3>1. /\ queue # <<>> /\ Head(queue).key = "enter" /\ queue' = Tail(queue)
          /\ UNCHANGED <<scanned, typing, shift_held>>
          /\ \/ /\ Head(queue).value = 1 /\ barcode # <<>>
                /\ delivered' = Append(delivered, barcode) /\ barcode' = <<>>
             \/ /\ ~(Head(queue).value = 1 /\ barcode # <<>>)
                /\ delivered' = delivered /\ barcode' = barcode
      BY <2>7 DEF ReadEnter, Reading
    <3>2. /\ shift_held' = ShiftAfter(shift_held, Head(queue))
          /\ barcode' = BarcodeAfter(barcode, shift_held, Head(queue))
          /\ delivered' = DeliveredAfter(delivered, barcode, Head(queue))
      BY <3>1, CaseOfKey DEF ShiftAfter, BarcodeAfter, DeliveredAfter
    <3> QED
      BY <2>1, <3>1, <3>2, ReadOne
  <2>8. ASSUME NEW ch \in Keys, ReadCharacter(ch) PROVE NoMark' /\ CatchesUp'
    <3>1. /\ queue # <<>> /\ Head(queue).key = ch /\ queue' = Tail(queue)
          /\ UNCHANGED <<scanned, typing, shift_held, delivered>>
          /\ ch # "shift" /\ ch # "enter"
      BY <2>8, CaseOfKey DEF ReadCharacter, Reading
    <3>2. /\ shift_held' = ShiftAfter(shift_held, Head(queue))
          /\ barcode' = BarcodeAfter(barcode, shift_held, Head(queue))
          /\ delivered' = DeliveredAfter(delivered, barcode, Head(queue))
      BY <2>8, <3>1
         DEF ReadCharacter, Counts, Room, ShiftAfter, BarcodeAfter, DeliveredAfter
    <3> QED
      BY <2>1, <3>1, <3>2, ReadOne
  <2>9. CASE ReadDropped
    <3>1. queue # <<>> /\ Head(queue) = SYN_DROPPED
      BY <2>9 DEF ReadDropped
    <3>2. 1 \in 1 .. Len(queue) /\ queue[1].key = "dropped"
      <4>1. queue[1] = SYN_DROPPED /\ 1 \in 1 .. Len(queue)
        BY <3>1 DEF TypeInv
      <4> QED
        BY <4>1, KeyFields DEF SYN_DROPPED
    <3> QED
      BY <2>1, <3>2 DEF NoMark
  <2> QED
    BY <2>2, <2>3, <2>4, <2>5, <2>6, <2>7, <2>8, <2>9 DEF Next
<1> QED
  BY <1>1, <1>2

-----------------------------------------------------------------------------
(* What was delivered stays the beginning of what will be.                  *)

Begins(s, t) == Len(s) <= Len(t) /\ \A k \in 1 .. Len(s) : t[k] = s[k]

(* A set of natural numbers has a least one.                                *)
LEMMA LeastNat ==
    ASSUME NEW S \in SUBSET Nat, S # {}
    PROVE  \E n \in S : \A m \in S : n <= m
<1> DEFINE R == OpToRel(<, Nat)
<1>1. IsWellFoundedOn(R, Nat)
  BY NatLessThanWellFounded
<1>2. \A x, y \in Nat : x < y => <<x, y>> \in R
  BY DEF OpToRel
<1> HIDE DEF R
<1>3. PICK n \in S : \A m \in S : ~(<<m, n>> \in R)
  BY <1>1, WFMin
<1>4. \A m \in S : ~(m < n)
  BY <1>2, <1>3
<1> QED
  BY <1>3, <1>4

LEMMA RunGrows ==
    ASSUME NEW events \in Seq(Events), NEW shift, NEW bar, NEW del,
           Run(events, shift, bar, del), NEW last \in 0 .. Len(events)
    PROVE  Begins(del[0], del[last])
<1> DEFINE wrong == {n \in 0 .. Len(events) : ~Begins(del[0], del[n])}
<1>1. SUFFICES ASSUME wrong # {} PROVE FALSE
  OBVIOUS
<1>2. wrong \in SUBSET Nat /\ Len(events) \in Nat
  OBVIOUS
<1>3. PICK n \in wrong : \A m \in wrong : n <= m
  <2> HIDE DEF wrong
  <2> QED
    BY <1>1, <1>2, LeastNat
<1>4. /\ \A k \in 0 .. Len(events) : del[k] \in Seq(Seq(Characters))
      /\ \A k \in 0 .. Len(events) : bar[k] \in Seq(Characters)
  BY DEF Run
<1>5. n # 0
  <2>1. Begins(del[0], del[0])
    <3>1. del[0] \in Seq(Seq(Characters))
      BY <1>2, <1>4
    <3> QED
      BY <3>1 DEF Begins
  <2> QED
    BY <1>3, <2>1
<1>6. n \in 1 .. Len(events) /\ n - 1 \in 0 .. Len(events) /\ 0 \in 0 .. Len(events)
      /\ ~Begins(del[0], del[n])
  BY <1>2, <1>3, <1>5
<1>7. Begins(del[0], del[n - 1])
  <2>1. n - 1 \notin wrong
    BY <1>3, <1>6
  <2> QED
    BY <1>6, <2>1
<1> HIDE DEF wrong
<1>8. del[n] = del[n - 1] \/ del[n] = Append(del[n - 1], bar[n - 1])
  BY <1>6 DEF Run, DeliveredAfter
<1>9. del[0] \in Seq(Seq(Characters)) /\ del[n - 1] \in Seq(Seq(Characters))
      /\ bar[n - 1] \in Seq(Characters)
  BY <1>4, <1>6
<1>10. Begins(del[0], Append(del[n - 1], bar[n - 1]))
  <2> DEFINE more == Append(del[n - 1], bar[n - 1])
  <2>1. /\ Len(more) = Len(del[n - 1]) + 1
        /\ \A k \in 1 .. Len(del[n - 1]) : more[k] = del[n - 1][k]
        /\ Len(del[n - 1]) \in Nat /\ Len(del[0]) \in Nat
    BY <1>9
  <2> HIDE DEF more
  <2>2. Begins(del[0], more)
    BY <1>7, <2>1 DEF Begins
  <2> QED
    BY <2>2 DEF more
<1> QED
  BY <1>6, <1>7, <1>8, <1>10

LEMMA SameSequence ==
    ASSUME NEW S, NEW s \in Seq(S), NEW t \in Seq(S),
           Len(s) = Len(t) /\ \A k \in 1 .. Len(s) : s[k] = t[k]
    PROVE  s = t
OBVIOUS

LEMMA LosslessDelivers == TypeInv /\ Lossless => DeliveredAsScanned
<1> SUFFICES ASSUME TypeInv, Lossless, ~overrun
             PROVE  IsPrefix(delivered, [k \in DOMAIN scanned |-> Cut(scanned[k])])
  BY Zenon DEF DeliveredAsScanned
<1>1. CatchesUp
  BY Zenon DEF Lossless
<1>2. PICK shift, bar, del :
        /\ Run(queue, shift, bar, del)
        /\ del[0] = delivered /\ del[Len(queue)] = TypedDelivered
  BY <1>1 DEF CatchesUp
<1>3. queue \in Seq(Events) /\ Len(queue) \in 0 .. Len(queue) /\ scanned \in Seq(Codes)
      /\ delivered \in Seq(Seq(Characters))
  BY DEF TypeInv
<1>4. Begins(delivered, TypedDelivered)
  BY <1>2, <1>3, RunGrows
<1>5. TypedDelivered = CutTo(scanned, Done) /\ Done \in 0 .. Len(scanned)
  BY DoneType
<1> DEFINE all == [k \in DOMAIN scanned |-> Cut(scanned[k])]
<1>6. all = CutTo(scanned, Len(scanned)) /\ Len(scanned) \in 0 .. Len(scanned)
  BY <1>3 DEF CutTo
<1>7. /\ all \in Seq(Seq(Characters)) /\ Len(all) = Len(scanned)
      /\ \A k \in 1 .. Len(scanned) : all[k] = Cut(scanned[k])
  BY <1>3, <1>6, CutToType
<1>8. /\ TypedDelivered \in Seq(Seq(Characters)) /\ Len(TypedDelivered) = Done
      /\ \A k \in 1 .. Done : TypedDelivered[k] = Cut(scanned[k])
  BY <1>3, <1>5, CutToType
<1> HIDE DEF all
<1>9. Len(delivered) <= Len(all) /\ \A k \in 1 .. Len(delivered) : all[k] = delivered[k]
  BY <1>3, <1>4, <1>5, <1>7, <1>8 DEF Begins
<1>10. SubSeq(delivered, 1, Len(delivered)) = SubSeq(all, 1, Len(delivered))
  <2> DEFINE one == SubSeq(delivered, 1, Len(delivered))
             two == SubSeq(all, 1, Len(delivered))
  <2>1. /\ one \in Seq(Seq(Characters)) /\ Len(one) = Len(delivered)
        /\ \A k \in 1 .. Len(delivered) : one[k] = delivered[k]
    BY <1>3
  <2>2. /\ two \in Seq(Seq(Characters)) /\ Len(two) = Len(delivered)
        /\ \A k \in 1 .. Len(delivered) : two[k] = all[k]
    BY <1>3, <1>7, <1>9
  <2> HIDE DEF one, two
  <2>3. Len(one) = Len(two) /\ \A k \in 1 .. Len(one) : one[k] = two[k]
    BY <1>9, <2>1, <2>2
  <2>4. one = two
    BY <2>1, <2>2, <2>3, SameSequence
  <2> QED
    BY <2>4 DEF one, two
<1>11. IsPrefix(delivered, all)
  BY <1>9, <1>10 DEF IsPrefix
<1> QED
  BY <1>11 DEF all

(* As long as the kernel loses nothing, the callback gets the codes that    *)
(* were scanned, cut to the buffer and otherwise unchanged, in their order  *)
(* and once each: for any codes, buffer and kernel queue.                   *)
THEOREM DeliveredCorrect == Spec => []DeliveredAsScanned
<1>1. Init => Lossless
  BY LosslessInit
<1>2. TypeInv /\ Lossless /\ [Next]_vars => Lossless'
  BY LosslessStep
<1>3. TypeInv /\ Lossless => DeliveredAsScanned
  BY LosslessDelivers
<1> QED
  BY <1>1, <1>2, <1>3, TypeInvariant, PTL DEF Spec

-----------------------------------------------------------------------------
(* Nothing is invented, whatever is lost: every character that was          *)
(* delivered or is in the buffer, and every press that is queued, comes     *)
(* from a place of the scanned codes whose press the device has sent, in    *)
(* the order of these places, those of the queue after the others.          *)

Now == Append(delivered, barcode)

Struck == StruckAt(Code, typing.key, typing.sent)

Sent == {x \in Places(scanned) : x[1] < Len(scanned) \/ ~Typing \/ x[2] <= Struck}

IsPress(e) == e.key \in Keys /\ e.value = 1

Presses(events) == {n \in 1 .. Len(events) : IsPress(events[n])}

Trace(now, events, codes, sent, from, at) ==
    /\ from \in [Places(now) -> sent]
    /\ at \in [Presses(events) -> sent]
    /\ \A x \in Places(now) : Letter(now, x) = Letter(codes, from[x])
    /\ \A n \in Presses(events) : events[n].key = Letter(codes, at[n])
    /\ \A x, y \in Places(now) : Before(x, y) => Before(from[x], from[y])
    /\ \A x \in Places(now), n \in Presses(events) : Before(from[x], at[n])
    /\ \A m, n \in Presses(events) : m < n => Before(at[m], at[n])

Traceable(now, events, codes, sent) ==
    \E from, at : Trace(now, events, codes, sent, from, at)

Traced == Traceable(Now, queue, scanned, Sent)

Texts == Seq(Seq(Characters))

LEMMA PlacesOf ==
    ASSUME NEW codes \in Texts
    PROVE  /\ \A x : x \in Places(codes) <=>
                       \E c \in 1 .. Len(codes) : \E d \in 1 .. Len(codes[c]) : x = <<c, d>>
           /\ \A x \in Places(codes) :
                 /\ x[1] \in 1 .. Len(codes) /\ x[2] \in 1 .. Len(codes[x[1]])
                 /\ x = <<x[1], x[2]>> /\ x[1] \in Nat /\ x[2] \in Nat
<1>1. /\ DOMAIN codes = 1 .. Len(codes)
      /\ \A c \in 1 .. Len(codes) : codes[c] \in Seq(Characters)
  BY DEF Texts
<1>2. \A c \in 1 .. Len(codes) : DOMAIN codes[c] = 1 .. Len(codes[c])
  BY <1>1
<1>3. \A x : x \in Places(codes) <=>
                       \E c \in 1 .. Len(codes) : x \in {c} \X (1 .. Len(codes[c]))
  BY <1>1, <1>2 DEF Places
<1>4. \A x : x \in Places(codes) <=>
                       \E c \in 1 .. Len(codes) : \E d \in 1 .. Len(codes[c]) : x = <<c, d>>
  BY <1>3
<1>5. ASSUME NEW x \in Places(codes)
      PROVE  /\ x[1] \in 1 .. Len(codes) /\ x[2] \in 1 .. Len(codes[x[1]])
             /\ x = <<x[1], x[2]>> /\ x[1] \in Nat /\ x[2] \in Nat
  <2>1. PICK c \in 1 .. Len(codes) : \E d \in 1 .. Len(codes[c]) : x = <<c, d>>
    BY <1>4
  <2>2. PICK d \in 1 .. Len(codes[c]) : x = <<c, d>>
    BY <2>1
  <2>3. x[1] = c /\ x[2] = d
    BY <2>2
  <2> QED
    BY <2>2, <2>3
<1> QED
  BY <1>4, <1>5

(* More codes, or more of them sent.                                        *)
LEMMA SourceGrows ==
    ASSUME NEW now, NEW events, NEW codes, NEW sent, NEW codes2, NEW sent2,
           Traceable(now, events, codes, sent), sent \subseteq sent2,
           \A x \in sent : Letter(codes2, x) = Letter(codes, x)
    PROVE  Traceable(now, events, codes2, sent2)
<1>1. PICK from, at : Trace(now, events, codes, sent, from, at)
  BY DEF Traceable
<1>2. Trace(now, events, codes2, sent2, from, at)
  <2>1. /\ from \in [Places(now) -> sent] /\ at \in [Presses(events) -> sent]
        /\ \A x \in Places(now) : from[x] \in sent
        /\ \A n \in Presses(events) : at[n] \in sent
    BY <1>1 DEF Trace
  <2>2. from \in [Places(now) -> sent2] /\ at \in [Presses(events) -> sent2]
    BY <2>1
  <2>3. /\ \A x \in Places(now) : Letter(now, x) = Letter(codes2, from[x])
        /\ \A n \in Presses(events) : events[n].key = Letter(codes2, at[n])
    BY <1>1, <2>1 DEF Trace
  <2> QED
    BY <1>1, <2>2, <2>3 DEF Trace
<1> QED
  BY <1>2 DEF Traceable

(* The first k events go.                                                   *)
LEMMA QueueCut ==
    ASSUME NEW now, NEW events \in Seq(Events), NEW codes, NEW sent,
           Traceable(now, events, codes, sent), NEW k \in 0 .. Len(events)
    PROVE  Traceable(now, SubSeq(events, k + 1, Len(events)), codes, sent)
<1>1. PICK from, at : Trace(now, events, codes, sent, from, at)
  BY DEF Traceable
<1> DEFINE rest == SubSeq(events, k + 1, Len(events))
           at2 == [n \in Presses(rest) |-> at[n + k]]
<1>2. /\ Len(rest) = Len(events) - k /\ Len(events) \in Nat /\ k \in Nat
      /\ \A n \in 1 .. Len(rest) : rest[n] = events[n + k]
  <2>1. k \in Nat /\ Len(events) \in Nat
    OBVIOUS
  <2>2. rest \in Seq(Events) /\ Len(rest) = Len(events) - k
    OBVIOUS
  <2>3. \A n \in 1 .. Len(rest) : rest[n] = events[(k + 1) + n - 1]
    BY <2>1, <2>2
  <2> QED
    BY <2>1, <2>2, <2>3
<1> HIDE DEF rest
<1>3. \A n \in Presses(rest) : /\ n \in Nat /\ n + k \in Presses(events)
                               /\ rest[n] = events[n + k]
  BY <1>2 DEF Presses
<1>4. \A n \in Presses(rest) : at2[n] = at[n + k]
  OBVIOUS
<1>5. at2 \in [Presses(rest) -> sent]
  BY <1>1, <1>3 DEF Trace
<1> HIDE DEF at2
<1>6. \A m, n \in Presses(rest) : m < n => Before(at2[m], at2[n])
  <2> SUFFICES ASSUME NEW m \in Presses(rest), NEW n \in Presses(rest), m < n
               PROVE  Before(at2[m], at2[n])
    OBVIOUS
  <2>1. m + k < n + k
    BY <1>2, <1>3
  <2>2. Before(at[m + k], at[n + k])
    BY <1>1, <1>3, <2>1 DEF Trace
  <2> QED
    BY <1>4, <2>2
<1>7. Trace(now, rest, codes, sent, from, at2)
  BY <1>1, <1>3, <1>4, <1>5, <1>6 DEF Trace
<1> QED
  BY <1>7 DEF Traceable, rest

(* An event more: no press, or that of a place after all the others.        *)
LEMMA QueueGrows ==
    ASSUME NEW now, NEW events \in Seq(Events), NEW codes, NEW sent,
           Traceable(now, events, codes, sent), NEW e \in Events, ~IsPress(e)
    PROVE  Traceable(now, Append(events, e), codes, sent)
<1>1. PICK from, at : Trace(now, events, codes, sent, from, at)
  BY DEF Traceable
<1> DEFINE more == Append(events, e)
<1>2. /\ Len(more) = Len(events) + 1 /\ more[Len(events) + 1] = e
      /\ \A n \in 1 .. Len(events) : more[n] = events[n]
      /\ Len(events) \in Nat
  OBVIOUS
<1> HIDE DEF more
<1>3. Presses(more) = Presses(events)
  BY <1>2 DEF Presses
<1>4. \A n \in Presses(events) : more[n] = events[n]
  BY <1>2 DEF Presses
<1>5. Trace(now, more, codes, sent, from, at)
  BY <1>1, <1>3, <1>4 DEF Trace
<1> QED
  BY <1>5 DEF Traceable, more

LEMMA QueueGrowsByPress ==
    ASSUME NEW now, NEW events \in Seq(Events), NEW codes, NEW sent, NEW sent2,
           Traceable(now, events, codes, sent), NEW e \in Events,
           sent \subseteq sent2, NEW p \in sent2, e.key = Letter(codes, p),
           \A s \in sent : Before(s, p)
    PROVE  Traceable(now, Append(events, e), codes, sent2)
<1>1. PICK from, at : Trace(now, events, codes, sent, from, at)
  BY DEF Traceable
<1> DEFINE more == Append(events, e)
           last == Len(events) + 1
           at2 == [n \in Presses(more) |-> IF n = last THEN p ELSE at[n]]
<1>2. /\ Len(more) = last /\ more[last] = e
      /\ \A n \in 1 .. Len(events) : more[n] = events[n]
      /\ Len(events) \in Nat /\ last \in Nat
      /\ \A n \in 1 .. last : n = last \/ n \in 1 .. Len(events)
      /\ \A n \in 1 .. Len(events) : n < last /\ n # last
  OBVIOUS
<1> HIDE DEF more, last
<1>3. \A n \in Presses(more) : n = last \/ (n \in Presses(events) /\ more[n] = events[n])
  BY <1>2 DEF Presses
<1>4. \A n \in Presses(more) : /\ n = last => at2[n] = p
                               /\ n # last => at2[n] = at[n]
  OBVIOUS
<1>5. /\ from \in [Places(now) -> sent] /\ at \in [Presses(events) -> sent]
      /\ \A x \in Places(now) : from[x] \in sent
      /\ \A n \in Presses(events) : at[n] \in sent
  BY <1>1 DEF Trace
<1>6. at2 \in [Presses(more) -> sent2] /\ from \in [Places(now) -> sent2]
  BY <1>3, <1>5
<1> HIDE DEF at2
<1>7. \A n \in Presses(more) : more[n].key = Letter(codes, at2[n])
  BY <1>1, <1>2, <1>3, <1>4 DEF Trace
<1>8. \A x \in Places(now), n \in Presses(more) : Before(from[x], at2[n])
  BY <1>1, <1>3, <1>4, <1>5 DEF Trace
<1>9. ASSUME NEW m \in Presses(more), NEW n \in Presses(more), m < n
      PROVE  Before(at2[m], at2[n])
  <2>1. m # last
    <3>1. n \in 1 .. last /\ m \in 1 .. last
      BY <1>2 DEF Presses
    <3> QED
      BY <1>2, <1>9, <3>1
  <2>2. m \in Presses(events) /\ at2[m] = at[m]
    BY <1>3, <1>4, <2>1
  <2>3. CASE n = last
    BY <1>4, <1>5, <2>2, <2>3
  <2>4. CASE n # last
    BY <1>1, <1>3, <1>4, <1>9, <2>2, <2>4 DEF Trace
  <2> QED
    BY <2>3, <2>4
<1>10. Trace(now, more, codes, sent2, from, at2)
  BY <1>1, <1>6, <1>7, <1>8, <1>9 DEF Trace
<1> QED
  BY <1>10 DEF Traceable, more

(* What is in the buffer becomes a code of its own.                         *)
LEMMA CodeEnds ==
    ASSUME NEW now \in Texts, NEW events, NEW codes, NEW sent,
           Traceable(now, events, codes, sent)
    PROVE  Traceable(Append(now, <<>>), events, codes, sent)
<1>1. PICK from, at : Trace(now, events, codes, sent, from, at)
  BY DEF Traceable
<1> DEFINE now2 == Append(now, <<>>)
<1>2. /\ now2 \in Texts /\ Len(now) \in Nat /\ Len(now2) = Len(now) + 1
      /\ now2[Len(now) + 1] = <<>>
      /\ \A c \in 1 .. Len(now) : now2[c] = now[c]
  <2>1. <<>> \in Seq(Characters)
    OBVIOUS
  <2> QED
    BY <2>1 DEF Texts
<1> HIDE DEF now2
<1>3. ASSUME NEW x PROVE x \in Places(now2) <=> x \in Places(now)
  <2>1. ASSUME NEW c \in 1 .. Len(now2), NEW d \in 1 .. Len(now2[c])
        PROVE  c \in 1 .. Len(now) /\ d \in 1 .. Len(now[c])
    <3>1. c # Len(now) + 1
      BY <1>2
    <3> QED
      BY <1>2, <3>1
  <2>2. ASSUME NEW c \in 1 .. Len(now), NEW d \in 1 .. Len(now[c])
        PROVE  c \in 1 .. Len(now2) /\ d \in 1 .. Len(now2[c])
    BY <1>2
  <2>3. x \in Places(now2) <=>
           \E c \in 1 .. Len(now2) : \E d \in 1 .. Len(now2[c]) : x = <<c, d>>
    BY <1>2, PlacesOf
  <2>4. x \in Places(now) <=>
           \E c \in 1 .. Len(now) : \E d \in 1 .. Len(now[c]) : x = <<c, d>>
    BY PlacesOf
  <2> QED
    BY <2>1, <2>2, <2>3, <2>4
<1>4. Places(now2) = Places(now)
  BY <1>3
<1>5. \A x \in Places(now) : Letter(now2, x) = Letter(now, x)
  BY <1>2, PlacesOf DEF Letter
<1>6. Trace(now2, events, codes, sent, from, at)
  BY <1>1, <1>4, <1>5 DEF Trace
<1> QED
  BY <1>6 DEF Traceable, now2

(* A press is read into the buffer.                                         *)
LEMMA CharacterJoins ==
    ASSUME NEW codes, NEW sent, NEW text \in Texts, NEW bar \in Seq(Characters),
           NEW ch \in Characters, NEW events \in Seq(Events), events # <<>>,
           Traceable(Append(text, bar), events, codes, sent),
           IsPress(Head(events)), Lower(ch) = Head(events).key
    PROVE  Traceable(Append(text, Append(bar, ch)), Tail(events), codes, sent)
<1> DEFINE now == Append(text, bar)
           now2 == Append(text, Append(bar, ch))
           rest == Tail(events)
           L == Len(text) + 1
           new == <<L, Len(bar) + 1>>
<1>1. PICK from, at : Trace(now, events, codes, sent, from, at)
  BY DEF Traceable
<1>2. /\ now \in Texts /\ now2 \in Texts /\ L \in Nat /\ Len(now) = L /\ Len(now2) = L
      /\ now[L] = bar /\ now2[L] = Append(bar, ch)
      /\ \A c \in 1 .. L - 1 : now[c] = text[c] /\ now2[c] = text[c]
  <2>1. Append(bar, ch) \in Seq(Characters)
    OBVIOUS
  <2>2. text \in Seq(Seq(Characters)) /\ Len(text) \in Nat
    BY DEF Texts
  <2> QED
    BY <2>1, <2>2 DEF Texts
<1>3. /\ Len(bar) \in Nat /\ Len(now2[L]) = Len(bar) + 1 /\ now2[L][Len(bar) + 1] = ch
      /\ \A d \in 1 .. Len(bar) : now2[L][d] = bar[d]
  BY <1>2
<1>4. /\ Len(events) \in Nat \ {0} /\ Len(rest) = Len(events) - 1
      /\ \A n \in 1 .. Len(rest) : rest[n] = events[n + 1]
      /\ events[1] = Head(events)
  OBVIOUS
<1>5. new[1] = L /\ new[2] = Len(bar) + 1
  OBVIOUS
<1> HIDE DEF now, now2, rest, L, new
<1>6. 1 \in Presses(events) /\ at[1] \in sent /\ events[1].key = Letter(codes, at[1])
  <2>1. 1 \in Presses(events)
    BY <1>4 DEF Presses
  <2> QED
    BY <1>1, <2>1 DEF Trace
<1>7. ASSUME NEW x
      PROVE  x \in Places(now2) <=> x \in Places(now) \/ x = new
  <2>1. ASSUME NEW c \in 1 .. L, NEW d \in 1 .. Len(now2[c])
        PROVE  d \in 1 .. Len(now[c]) \/ (c = L /\ d = Len(bar) + 1)
    <3>1. CASE c = L
      BY <1>2, <1>3, <3>1
    <3>2. CASE c # L
      BY <1>2, <3>2
    <3> QED
      BY <3>1, <3>2
  <2>2. ASSUME NEW c \in 1 .. L, NEW d \in 1 .. Len(now[c])
        PROVE  d \in 1 .. Len(now2[c])
    <3>1. CASE c = L
      BY <1>2, <1>3, <3>1
    <3>2. CASE c # L
      BY <1>2, <3>2
    <3> QED
      BY <3>1, <3>2
  <2>3. L \in 1 .. L /\ Len(bar) + 1 \in 1 .. Len(now2[L])
    <3>1. L \in 1 .. L
      BY <1>2 DEF L
    <3> QED
      BY <1>3, <3>1
  <2>4. x \in Places(now2) <=>
           \E c \in 1 .. L : \E d \in 1 .. Len(now2[c]) : x = <<c, d>>
    BY <1>2, PlacesOf
  <2>5. x \in Places(now) <=>
           \E c \in 1 .. L : \E d \in 1 .. Len(now[c]) : x = <<c, d>>
    BY <1>2, PlacesOf
  <2> QED
    BY <2>1, <2>2, <2>3, <2>4, <2>5 DEF new
<1>8. \A x \in Places(now) :
         /\ Letter(now2, x) = Letter(now, x)
         /\ Before(x, new) /\ ~Before(new, x) /\ x # new
  <2> SUFFICES ASSUME NEW x \in Places(now)
               PROVE  /\ Letter(now2, x) = Letter(now, x)
                      /\ Before(x, new) /\ ~Before(new, x) /\ x # new
    OBVIOUS
  <2>1. x[1] \in 1 .. L /\ x[2] \in 1 .. Len(now[x[1]]) /\ x[2] \in Nat
    BY <1>2, PlacesOf
  <2>2. CASE x[1] = L
    <3>1. x[2] \in 1 .. Len(bar)
      BY <1>2, <2>1, <2>2
    <3>2. now2[L][x[2]] = now[L][x[2]]
      BY <1>2, <1>3, <3>1
    <3>3. x[2] < Len(bar) + 1
      BY <1>3, <3>1
    <3> QED
      BY <1>2, <1>3, <1>5, <2>2, <3>1, <3>2, <3>3 DEF Letter, Before
  <2>3. CASE x[1] # L
    <3>1. x[1] \in 1 .. L - 1 /\ x[1] < L
      BY <1>2, <2>1, <2>3
    <3>2. now2[x[1]] = now[x[1]]
      BY <1>2, <3>1
    <3> QED
      BY <1>2, <1>5, <2>1, <3>1, <3>2 DEF Letter, Before
  <2> QED
    BY <2>2, <2>3
<1>9. Letter(now2, new) = events[1].key
  BY <1>3, <1>4, <1>5 DEF Letter
<1>10. ~Before(new, new)
  BY <1>2, <1>3, <1>5 DEF Before
<1> DEFINE from2 == [x \in Places(now2) |-> IF x = new THEN at[1] ELSE from[x]]
           at2 == [n \in Presses(rest) |-> at[n + 1]]
<1>11. \A n \in Presses(rest) : /\ n + 1 \in Presses(events) /\ 1 < n + 1 /\ n \in Nat
                                /\ rest[n] = events[n + 1]
  BY <1>4 DEF Presses
<1>12. /\ \A n \in Presses(rest) : at2[n] = at[n + 1]
       /\ \A x \in Places(now2) : /\ x = new => from2[x] = at[1]
                                  /\ x # new => from2[x] = from[x]
  OBVIOUS
<1>13. from2 \in [Places(now2) -> sent] /\ at2 \in [Presses(rest) -> sent]
  <2>1. \A x \in Places(now) : from[x] \in sent
    BY <1>1 DEF Trace
  <2>2. \A n \in Presses(events) : at[n] \in sent
    BY <1>1 DEF Trace
  <2> QED
    BY <1>6, <1>7, <1>11, <2>1, <2>2
<1> HIDE DEF from2, at2
<1>14. \A x \in Places(now2) : Letter(now2, x) = Letter(codes, from2[x])
  BY <1>1, <1>6, <1>7, <1>8, <1>9, <1>12 DEF Trace
<1>15. \A n \in Presses(rest) : rest[n].key = Letter(codes, at2[n])
  BY <1>1, <1>11, <1>12 DEF Trace
<1>16. ASSUME NEW x \in Places(now2), NEW y \in Places(now2), Before(x, y)
       PROVE  Before(from2[x], from2[y])
  <2>1. x # new
    BY <1>7, <1>8, <1>10, <1>16
  <2>2. x \in Places(now) /\ from2[x] = from[x]
    BY <1>7, <1>12, <2>1
  <2>3. CASE y = new
    BY <1>1, <1>6, <1>12, <2>2, <2>3 DEF Trace
  <2>4. CASE y # new
    <3>1. y \in Places(now) /\ from2[y] = from[y]
      BY <1>7, <1>12, <2>4
    <3> QED
      BY <1>1, <1>16, <2>2, <3>1 DEF Trace
  <2> QED
    BY <2>3, <2>4
<1>17. ASSUME NEW x \in Places(now2), NEW n \in Presses(rest)
       PROVE  Before(from2[x], at2[n])
  <2>1. CASE x = new
    BY <1>1, <1>6, <1>11, <1>12, <2>1 DEF Trace
  <2>2. CASE x # new
    BY <1>1, <1>7, <1>11, <1>12, <2>2 DEF Trace
  <2> QED
    BY <2>1, <2>2
<1>18. ASSUME NEW m \in Presses(rest), NEW n \in Presses(rest), m < n
       PROVE  Before(at2[m], at2[n])
  <2>1. m + 1 < n + 1
    BY <1>11, <1>18
  <2> QED
    BY <1>1, <1>11, <1>12, <2>1 DEF Trace
<1>19. Trace(now2, rest, codes, sent, from2, at2)
  BY <1>13, <1>14, <1>15, <1>16, <1>17, <1>18 DEF Trace
<1> QED
  BY <1>19 DEF Traceable, now2, rest

-----------------------------------------------------------------------------
(* What the device sends.                                                   *)

LEMMA TextsType ==
    ASSUME TypeInv
    PROVE  scanned \in Texts /\ delivered \in Texts /\ Now \in Texts
<1>1. scanned \in Seq(Codes) /\ delivered \in Texts /\ barcode \in Seq(Characters)
  BY DEF TypeInv, Texts
<1>2. \A c \in 1 .. Len(scanned) : scanned[c] \in Seq(Characters)
  <2>1. \A c \in 1 .. Len(scanned) : scanned[c] \in Codes
    BY <1>1
  <2> QED
    BY <2>1, CodeType
<1>3. scanned \in [1 .. Len(scanned) -> Seq(Characters)] /\ Len(scanned) \in Nat
  BY <1>1, <1>2
<1>4. scanned \in Seq(Seq(Characters))
  BY <1>3
<1>5. Now \in Texts
  BY <1>1 DEF Now, Texts
<1> QED
  BY <1>1, <1>4, <1>5 DEF Texts

(* The characters struck only become more until the code is over, and a     *)
(* press strikes the next one.                                              *)
LEMMA StrikesOne ==
    ASSUME NEW code \in Codes, NEW n \in 1 .. Len(code) + 1, NEW sent \in Nat,
           sent + 1 \in 1 .. Len(Stroke(code, n)),
           NEW n2, NEW sent2, NextAt(code, n, sent, n2, sent2)
    PROVE  LET e == Stroke(code, n)[sent + 1]
               struck == StruckAt(code, n, sent)
           IN  /\ n2 = 0 \/ struck <= StruckAt(code, n2, sent2)
               /\ IsPress(e) =>
                     /\ n <= Len(code) /\ n2 = n /\ e.key = Lower(code[n])
                     /\ struck = n - 1 /\ StruckAt(code, n2, sent2) = n
<1> DEFINE e == Stroke(code, n)[sent + 1]
<1>1. /\ Len(code) \in Nat /\ n \in Nat \ {0}
      /\ \A ch \in Characters : PressAt(ch) \in {1, 2}
  BY CodeType DEF PressAt
<1>2. n2 = n + 1 => StruckAt(code, n, sent) <= StruckAt(code, n2, sent2)
  BY <1>1 DEF StruckAt
<1>3. n2 = n => StruckAt(code, n, sent) <= StruckAt(code, n2, sent2)
  <2>1. ASSUME n2 = n PROVE sent2 = sent + 1
    BY <1>1, <2>1 DEF NextAt
  <2>2. n <= Len(code) => PressAt(code[n]) \in {1, 2}
    BY <1>1, CodeType
  <2> QED
    BY <1>1, <2>1, <2>2 DEF StruckAt
<1>4. n2 = 0 \/ n2 = n \/ n2 = n + 1
  BY DEF NextAt
<1> HIDE DEF e
<1>5. ASSUME IsPress(e)
      PROVE  /\ n <= Len(code) /\ n2 = n /\ e.key = Lower(code[n])
             /\ StruckAt(code, n, sent) = n - 1 /\ StruckAt(code, n2, sent2) = n
  <2>1. e.key # "shift" /\ e.key # "enter" /\ e.value = 1
    BY <1>5, CaseOfKey DEF IsPress
  <2>2. \/ Small(code, n, sent + 1, e) \/ Capital(code, n, sent + 1, e)
        \/ Enter(code, n, sent + 1, e)
    BY StrokeEvents DEF e
  <2>3. CASE Small(code, n, sent + 1, e)
    <3>1. n <= Len(code) /\ code[n] = Lower(code[n]) /\ Len(Stroke(code, n)) = 2
      BY <2>3 DEF Small
    <3>2. sent = 0 /\ e.key = code[n]
      BY <2>1, <2>3, KeyFields DEF Small
    <3>3. n2 = n /\ sent2 = 1
      BY <1>1, <3>1, <3>2 DEF NextAt
    <3>4. PressAt(code[n]) = 1
      BY <3>1 DEF PressAt
    <3> QED
      BY <1>1, <3>1, <3>2, <3>3, <3>4 DEF StruckAt
  <2>4. CASE Capital(code, n, sent + 1, e)
    <3>1. n <= Len(code) /\ code[n] # Lower(code[n]) /\ Len(Stroke(code, n)) = 4
      BY <2>4 DEF Capital
    <3>2. sent = 1 /\ e.key = Lower(code[n])
      BY <2>1, <2>4, KeyFields DEF Capital
    <3>3. n2 = n /\ sent2 = 2
      BY <1>1, <3>1, <3>2 DEF NextAt
    <3>4. PressAt(code[n]) = 2
      BY <3>1 DEF PressAt
    <3> QED
      BY <1>1, <3>1, <3>2, <3>3, <3>4 DEF StruckAt
  <2>5. ~Enter(code, n, sent + 1, e)
    BY <2>1, KeyFields DEF Enter
  <2> QED
    BY <2>2, <2>3, <2>4, <2>5
<1> QED
  BY <1>2, <1>3, <1>4, <1>5 DEF e

LEMMA SendsMore ==
    ASSUME TypeInv, SendKey
    PROVE  LET e == Typed[typing.sent + 1]
               p == <<Len(scanned), Struck'>>
           IN  /\ Sent \subseteq Sent'
               /\ IsPress(e) => /\ p \in Sent' /\ e.key = Letter(scanned, p)
                                /\ \A s \in Sent : Before(s, p)
<1> DEFINE e == Typed[typing.sent + 1]
           p == <<Len(scanned), Struck'>>
<1>1. /\ Code \in Codes /\ typing.key \in 1 .. Len(Code) + 1 /\ typing.sent \in Nat
      /\ Typed = Stroke(Code, typing.key) /\ scanned # <<>>
      /\ typing.sent + 1 \in 1 .. Len(Stroke(Code, typing.key))
  BY TypingNow DEF SendKey
<1>2. scanned' = scanned /\ Code' = Code /\ Typing
  BY DEF SendKey, Code
<1>3. /\ Len(scanned) \in Nat \ {0} /\ Code = scanned[Len(scanned)]
      /\ scanned \in Texts /\ Len(Code) \in Nat
  BY <1>1, LastType, TextsType, CodeType
<1>4. /\ typing'.key = 0 \/ Struck <= Struck'
      /\ IsPress(e) =>
            /\ typing.key <= Len(Code) /\ typing'.key = typing.key
            /\ e.key = Lower(Code[typing.key])
            /\ Struck = typing.key - 1 /\ Struck' = typing.key
  <2>1. NextAt(Code, typing.key, typing.sent, typing'.key, typing'.sent)
    BY SendsNext
  <2> QED
    BY <1>1, <1>2, <2>1, StrikesOne DEF Struck
<1> HIDE DEF e
<1>5. Struck \in Int /\ (typing'.key # 0 => Struck' \in Int)
  <2>1. Struck \in Int
    BY <1>1, <1>3 DEF Struck, StruckAt
  <2>2. typing'.key # 0 => typing'.key \in Int
    BY <1>1, <1>3, SendsNext DEF NextAt
  <2>3. typing'.key # 0 => Struck' \in Int
    BY <2>2 DEF Struck, StruckAt
  <2> QED
    BY <2>1, <2>3
<1>6. Typing' <=> typing'.key # 0
  BY DEF Typing
<1>7. Sent \subseteq Sent'
  <2> SUFFICES ASSUME NEW x \in Sent PROVE x \in Sent'
    OBVIOUS
  <2>1. x \in Places(scanned) /\ (x[1] < Len(scanned) \/ x[2] <= Struck)
    BY <1>2 DEF Sent
  <2>2. x[2] \in Nat
    BY <1>3, <2>1, PlacesOf
  <2>3. x \in Places(scanned') /\ Len(scanned') = Len(scanned)
    BY <1>2, <2>1
  <2>4. x[1] < Len(scanned) \/ typing'.key = 0 \/ x[2] <= Struck'
    BY <1>4, <1>5, <2>1, <2>2
  <2> QED
    BY <1>6, <2>3, <2>4 DEF Sent
<1>8. ASSUME IsPress(e)
      PROVE  /\ p \in Sent' /\ e.key = Letter(scanned, p)
             /\ \A s \in Sent : Before(s, p)
  <2>1. /\ typing.key \in 1 .. Len(Code) /\ Struck' = typing.key
        /\ Struck = typing.key - 1 /\ e.key = Lower(Code[typing.key])
        /\ typing.key # 0 /\ typing'.key = typing.key
    BY <1>1, <1>3, <1>4, <1>8
  <2>2. p = <<Len(scanned), typing.key>> /\ p[1] = Len(scanned) /\ p[2] = typing.key
    BY <2>1
  <2> HIDE DEF p
  <2>3. p \in Places(scanned)
    <3>1. Len(scanned) \in 1 .. Len(scanned)
      BY <1>3
    <3> QED
      BY <1>3, <2>1, <2>2, <3>1, PlacesOf
  <2>4. p \in Sent'
    <3>1. p[2] <= Struck'
      BY <1>1, <2>1, <2>2
    <3>2. p \in Places(scanned')
      BY <1>2, <2>3
    <3> QED
      BY <3>1, <3>2 DEF Sent
  <2>5. e.key = Letter(scanned, p)
    BY <1>3, <2>1, <2>2 DEF Letter
  <2>6. ASSUME NEW s \in Sent PROVE Before(s, p)
    <3>1. s \in Places(scanned) /\ (s[1] < Len(scanned) \/ s[2] <= Struck)
      BY <1>2 DEF Sent
    <3>2. s[1] \in 1 .. Len(scanned) /\ s[2] \in Nat
      BY <1>3, <3>1, PlacesOf
    <3> QED
      BY <1>1, <1>3, <2>1, <2>2, <3>1, <3>2 DEF Before
  <2> QED
    BY <2>4, <2>5, <2>6
<1> QED
  BY <1>7, <1>8 DEF e, p

LEMMA SourceOfNext ==
    ASSUME TypeInv, NEW code \in Codes, ScanCode(code)
    PROVE  Sent \subseteq Sent' /\ \A x \in Sent : Letter(scanned', x) = Letter(scanned, x)
<1>1. /\ typing.key = 0 /\ scanned' = Append(scanned, code)
      /\ scanned \in Seq(Codes) /\ scanned \in Texts
  BY TextsType DEF ScanCode, Idle, AtKey, TypeInv
<1>2. /\ Len(scanned) \in Nat /\ Len(scanned') = Len(scanned) + 1
      /\ \A c \in 1 .. Len(scanned) : scanned'[c] = scanned[c]
  BY <1>1
<1>3. scanned' \in Texts
  BY <1>1, CodeType DEF Texts
<1>4. ASSUME NEW x \in Sent
      PROVE  x \in Sent' /\ Letter(scanned', x) = Letter(scanned, x)
  <2>1. x \in Places(scanned)
    BY DEF Sent
  <2>2. /\ x[1] \in 1 .. Len(scanned) /\ x[2] \in 1 .. Len(scanned[x[1]])
        /\ x = <<x[1], x[2]>>
    BY <1>1, <2>1, PlacesOf
  <2>3. x[1] \in 1 .. Len(scanned') /\ scanned'[x[1]] = scanned[x[1]]
        /\ x[1] < Len(scanned')
    BY <1>2, <2>2
  <2>4. x \in Places(scanned')
    BY <1>3, <2>2, <2>3, PlacesOf
  <2>5. x \in Sent'
    BY <2>3, <2>4 DEF Sent
  <2> QED
    BY <2>3, <2>5 DEF Letter
<1> QED
  BY <1>4

-----------------------------------------------------------------------------
(* Traced is inductive.                                                     *)

LEMMA TracedInit == Init => Traced
<1> SUFFICES ASSUME Init PROVE Traced
  OBVIOUS
<1>1. Now = <<<<>>>> /\ queue = <<>> /\ TypeInv
  BY TypeInit DEF Init, Now
<1>2. Places(Now) = {}
  <2>1. Now \in Texts /\ Len(Now) = 1 /\ Now[1] = <<>>
    BY <1>1, TextsType
  <2>2. \A c \in 1 .. Len(Now) : Len(Now[c]) = 0
    BY <2>1
  <2>3. \A x : x \notin Places(Now)
    BY <2>1, <2>2, PlacesOf
  <2> QED
    BY <2>3
<1>3. Presses(queue) = {}
  BY <1>1 DEF Presses
<1> DEFINE none == [x \in {} |-> 0]
<1>4. none \in [{} -> Sent]
  OBVIOUS
<1>5. Trace(Now, queue, scanned, Sent, none, none)
  BY <1>2, <1>3, <1>4 DEF Trace
<1> QED
  BY <1>5 DEF Traced, Traceable

LEMMA TracedStep ==
    ASSUME TypeInv, Traced, [Next]_vars
    PROVE  Traced'
<1>1. /\ Traceable(Now, queue, scanned, Sent) /\ queue \in Seq(Events)
      /\ scanned \in Texts /\ delivered \in Texts /\ Now \in Texts
      /\ barcode \in Seq(Characters)
  BY TextsType DEF Traced, TypeInv
<1>2. CASE UNCHANGED vars
  BY <1>1, <1>2 DEF vars, Traced, Now, Sent, Struck, Typing, Code
<1>3. ASSUME UNCHANGED <<scanned, typing>>
      PROVE  Sent' = Sent
  BY <1>3 DEF Sent, Struck, Typing, Code
<1>4. ASSUME UNCHANGED <<delivered, barcode>>
      PROVE  Now' = Now
  BY <1>4 DEF Now
<1>5. ASSUME queue # <<>>, queue' = Tail(queue), UNCHANGED <<scanned, typing>>,
             UNCHANGED <<delivered, barcode>>
      PROVE  Traced'
  <2>1. 1 \in 0 .. Len(queue) /\ queue' = SubSeq(queue, 1 + 1, Len(queue))
    BY <1>1, <1>5
  <2>2. Traceable(Now, queue', scanned, Sent)
    BY <1>1, <2>1, QueueCut
  <2> QED
    BY <1>3, <1>4, <1>5, <2>2 DEF Traced
<1>6. ASSUME NEW code \in Codes, ScanCode(code) PROVE Traced'
  <2>1. Traceable(Now, queue, scanned', Sent')
    BY <1>1, <1>6, SourceOfNext, SourceGrows
  <2> QED
    BY <1>4, <1>6, <2>1 DEF ScanCode, Traced
<1>7. CASE SendKey
  <2>1. Typing /\ UNCHANGED <<scanned, barcode, delivered>>
    BY <1>7 DEF SendKey
  <2>2. /\ Code \in Codes /\ typing.key \in 1 .. Len(Code) + 1
        /\ Typed = Stroke(Code, typing.key)
        /\ typing.sent + 1 \in 1 .. Len(Stroke(Code, typing.key))
    BY <2>1, TypingNow
  <2>3. PICK k \in Keys \cup {"shift", "enter"}, v \in 0 .. 1 :
           Typed[typing.sent + 1] = Key(k, v)
    BY <2>2, StrokeType
  <2> DEFINE e == Key(k, v)
  <2>4. e \in Events
    BY EventType
  <2>5. queue' = Append(queue, e) \/ queue' = <<SYN_DROPPED, e>>
    BY <1>7, <2>3 DEF SendKey, Queued
  <2>6. /\ Sent \subseteq Sent'
        /\ IsPress(e) => /\ <<Len(scanned), Struck'>> \in Sent'
                         /\ e.key = Letter(scanned, <<Len(scanned), Struck'>>)
                         /\ \A s \in Sent : Before(s, <<Len(scanned), Struck'>>)
    BY <1>7, <2>3, SendsMore
  <2> HIDE DEF e
  <2>7. ASSUME NEW events \in Seq(Events), Traceable(Now, events, scanned, Sent)
        PROVE  Traceable(Now, Append(events, e), scanned, Sent')
    <3>1. CASE IsPress(e)
      BY <2>4, <2>6, <2>7, <3>1, QueueGrowsByPress
    <3>2. CASE ~IsPress(e)
      <4>1. Traceable(Now, Append(events, e), scanned, Sent)
        BY <2>4, <2>7, <3>2, QueueGrows
      <4> QED
        BY <2>6, <4>1, SourceGrows
    <3> QED
      BY <3>1, <3>2
  <2>8. Traceable(Now, queue', scanned, Sent')
    <3>1. CASE queue' = Append(queue, e)
      BY <1>1, <2>7, <3>1
    <3>2. CASE queue' = <<SYN_DROPPED, e>>
      <4>1. Traceable(Now, <<>>, scanned, Sent)
        <5>1. Len(queue) \in 0 .. Len(queue) /\ Len(queue) \in Nat
          BY <1>1
        <5>2. SubSeq(queue, Len(queue) + 1, Len(queue)) = <<>>
          BY <1>1, <5>1
        <5>3. Traceable(Now, SubSeq(queue, Len(queue) + 1, Len(queue)), scanned, Sent)
          BY <1>1, <5>1, QueueCut
        <5> QED
          BY <5>2, <5>3
      <4>2. SYN_DROPPED \in Events /\ ~IsPress(SYN_DROPPED)
        BY CaseOfKey DEF SYN_DROPPED, Key, Events, IsPress
      <4>3. Traceable(Now, Append(<<>>, SYN_DROPPED), scanned, Sent)
        <5>1. <<>> \in Seq(Events)
          OBVIOUS
        <5> QED
          BY <4>1, <4>2, <5>1, QueueGrows
      <4>4. Append(<<>>, SYN_DROPPED) \in Seq(Events)
        BY <4>2
      <4>5. Append(Append(<<>>, SYN_DROPPED), e) = <<SYN_DROPPED, e>>
        <5> DEFINE one == Append(Append(<<>>, SYN_DROPPED), e)
                   two == <<SYN_DROPPED, e>>
        <5>1. /\ one \in Seq(Events) /\ Len(one) = 2
              /\ one[1] = SYN_DROPPED /\ one[2] = e
          BY <2>4, <4>2
        <5>2. /\ two \in Seq(Events) /\ Len(two) = 2
              /\ two[1] = SYN_DROPPED /\ two[2] = e
          BY <2>4, <4>2
        <5> HIDE DEF one, two
        <5>3. one = two
          BY <5>1, <5>2, SameSequence
        <5> QED
          BY <5>3 DEF one, two
      <4> QED
        BY <2>7, <3>2, <4>3, <4>4, <4>5
    <3> QED
      BY <2>5, <3>1, <3>2
  <2> QED
    BY <1>4, <2>1, <2>8 DEF Traced
<1>8. CASE RepeatKey
  <2>1. Typing /\ UNCHANGED <<scanned, typing>> /\ UNCHANGED <<delivered, barcode>>
    BY <1>8 DEF RepeatKey
  <2>2. /\ Code \in Codes /\ typing.key \in 1 .. Len(Code) + 1
        /\ Typed = Stroke(Code, typing.key)
        /\ typing.sent + 1 \in 1 .. Len(Stroke(Code, typing.key))
    BY <2>1, TypingNow
  <2>3. PICK k \in Keys \cup {"shift", "enter"}, v \in 0 .. 1 :
           Typed[typing.sent + 1] = Key(k, v)
    BY <2>2, StrokeType
  <2>4. queue' = Append(queue, Key(k, 2))
    BY <1>8, <2>3, KeyFields DEF RepeatKey
  <2>5. Key(k, 2) \in Events /\ ~IsPress(Key(k, 2))
    BY EventType, KeyFields DEF IsPress
  <2>6. Traceable(Now, queue', scanned, Sent)
    BY <1>1, <2>4, <2>5, QueueGrows
  <2> QED
    BY <1>3, <1>4, <2>1, <2>6 DEF Traced
<1>9. CASE ReadShift
  BY <1>5, <1>9 DEF ReadShift, Reading
<1>10. CASE ReadEnter
  <2>1. queue # <<>> /\ queue' = Tail(queue) /\ UNCHANGED <<scanned, typing>>
    BY <1>10 DEF ReadEnter, Reading
  <2>2. \/ delivered' = Append(delivered, barcode) /\ barcode' = <<>>
        \/ UNCHANGED <<delivered, barcode>>
    BY <1>10 DEF ReadEnter
  <2>3. CASE delivered' = Append(delivered, barcode) /\ barcode' = <<>>
    <3>1. Now' = Append(Now, <<>>)
      BY <2>3 DEF Now
    <3>2. Traceable(Now', queue, scanned, Sent)
      BY <1>1, <3>1, CodeEnds
    <3>3. 1 \in 0 .. Len(queue) /\ queue' = SubSeq(queue, 1 + 1, Len(queue))
      BY <1>1, <2>1
    <3>4. Traceable(Now', queue', scanned, Sent)
      BY <1>1, <3>2, <3>3, QueueCut
    <3> QED
      BY <1>3, <2>1, <3>4 DEF Traced
  <2> QED
    BY <1>5, <2>1, <2>2, <2>3
<1>11. ASSUME NEW ch \in Keys, ReadCharacter(ch) PROVE Traced'
  <2>1. /\ queue # <<>> /\ queue' = Tail(queue) /\ Head(queue).key = ch
        /\ UNCHANGED <<scanned, typing>> /\ delivered' = delivered
    BY <1>11 DEF ReadCharacter, Reading
  <2> DEFINE c == IF shift_held = 1 THEN Upper(ch) ELSE ch
  <2>2. c \in Characters /\ Lower(c) = ch
    BY CaseOfKey
  <2>3. \/ Head(queue).value = 1 /\ barcode' = Append(barcode, c)
        \/ barcode' = barcode
    BY <1>11 DEF ReadCharacter, Counts
  <2> HIDE DEF c
  <2>4. CASE Head(queue).value = 1 /\ barcode' = Append(barcode, c)
    <3>1. IsPress(Head(queue))
      BY <2>1, <2>4 DEF IsPress
    <3>2. Traceable(Append(delivered, barcode), queue, scanned, Sent)
      BY <1>1 DEF Now
    <3>3. Traceable(Append(delivered, Append(barcode, c)), Tail(queue), scanned, Sent)
      BY <1>1, <2>1, <2>2, <3>1, <3>2, CharacterJoins
    <3>4. Now' = Append(delivered, Append(barcode, c))
      BY <2>1, <2>4 DEF Now
    <3> QED
      BY <1>3, <2>1, <3>3, <3>4 DEF Traced
  <2> QED
    BY <1>5, <2>1, <2>3, <2>4
<1>12. CASE ReadDropped
  <2>1. PICK n \in 1 .. Len(queue) : queue' = SubSeq(queue, n + 1, Len(queue))
    BY <1>12 DEF ReadDropped
  <2>2. UNCHANGED <<scanned, typing>> /\ UNCHANGED <<delivered, barcode>>
    BY <1>12 DEF ReadDropped
  <2>3. Traceable(Now, queue', scanned, Sent)
    <3>1. n \in 0 .. Len(queue)
      BY <1>1
    <3> QED
      BY <1>1, <2>1, <3>1, QueueCut
  <2> QED
    BY <1>3, <1>4, <2>2, <2>3 DEF Traced
<1> QED
  BY <1>2, <1>6, <1>7, <1>8, <1>9, <1>10, <1>11, <1>12 DEF Next

LEMMA TracedInvents == Traced => NothingInvented
<1> SUFFICES ASSUME Traced PROVE NothingInvented
  OBVIOUS
<1>1. PICK from, at : Trace(Now, queue, scanned, Sent, from, at)
  BY DEF Traced, Traceable
<1>2. from \in [Places(Now) -> Places(scanned)]
  BY <1>1 DEF Trace, Sent
<1>3. LettersWithin(Now, scanned)
  BY <1>1, <1>2 DEF LettersWithin, Trace
<1> QED
  BY <1>3 DEF NothingInvented, Now

(* Whatever the kernel drops, and whenever: the letters delivered and those *)
(* in the buffer are letters of the codes scanned, in their order and none  *)
(* of them twice, for any codes, buffer and kernel queue.                   *)
THEOREM InventedCorrect == Spec => []NothingInvented
<1>1. Init => Traced
  BY TracedInit
<1>2. TypeInv /\ Traced /\ [Next]_vars => Traced'
  BY TracedStep
<1>3. Traced => NothingInvented
  BY TracedInvents
<1> QED
  BY <1>1, <1>2, <1>3, TypeInvariant, PTL DEF Spec

==============================================================================
