-------------------------- MODULE ServoPulseProofs --------------------------
(***************************************************************************)
(* Proofs about the pulses of the two servos, for any number of turns and  *)
(* pulses and any times that are as far apart as those of the code: types, *)
(* the pins at the end, the regular periods, and that no press is lost.    *)
(***************************************************************************)
EXTENDS ServoPulse, TLAPS

(* The types, by part. *)
ProcessTypes ==
  /\ pc \in [Servo -> {"top", "pulse", "pause", "ended"}]
  /\ pin \in [Servo -> {0, 1}] /\ rest \in [Servo -> 0 .. Period]
  /\ count \in 0 .. Pulses /\ answered \in 0 .. 2

SetterTypes ==
  /\ panel \in {"draw", "loop"}
  /\ flag \in {0, 1} /\ press \in 0 .. Window /\ gap \in 0 .. Gap
  /\ radar \in {"boot", "out", "back"} /\ quit \in BOOLEAN

(* The side servo is on one of the Turns + 1 places, and not at the end it *)
(* turns towards.                                                          *)
Place(k) == Base + 30 * k
WidthTypes ==
  /\ pwm \in [Servo -> Nat]
  /\ radar = "boot" => pwm["side"] \in {Unset, Base + 20}
  /\ radar = "out"  => \E k \in 0 .. Turns - 1 : pwm["side"] = Place(k)
  /\ radar = "back" => \E k \in 1 .. Turns : pwm["side"] = Place(k)
  /\ pwm["tilt"] \in TiltMin .. TiltMax

UsedTypes ==
  /\ used \in [Servo -> Nat] /\ error \in [Servo -> Int]
  /\ \A s \in Servo : used[s] \in Width(s)

Types == ProcessTypes /\ SetterTypes /\ WidthTypes /\ UsedTypes

(* The pin is high in a pulse and only there. *)
PinFollows == \A s \in Servo : pin[s] = IF pc[s] = "pulse" THEN 1 ELSE 0

(* A width that was changed during a pulse is not changed again before the *)
(* next tick, and a tick does not come before the pulse has ended.         *)
OneChange ==
  /\ pc["side"] = "pulse" /\ used["side"] # Unset =>
       \/ used["side"] = pwm["side"]
       \/ gap > 0 /\ used["side"] - pwm["side"] \in -30 .. 30
  /\ pc["tilt"] = "pulse" =>
       \/ used["tilt"] = pwm["tilt"]
       \/ press > 0 /\ used["tilt"] - pwm["tilt"] \in -50 .. 50

(* The ticks since the press bound what the tilt process can still be      *)
(* doing without having answered it.                                       *)
Since == Window - press
AnswerInTime ==
  panel = "loop" /\ flag = 1 /\ ~quit =>
    /\ pc["tilt"] # "ended"
    /\ answered = 0 /\ pc["tilt"] = "top"   => Since <= Period
    /\ answered = 0 /\ pc["tilt"] = "pulse" => Since = 0
    /\ answered = 0 /\ pc["tilt"] = "pause" => Since <= Period - rest["tilt"]
    /\ answered = 1 /\ pc["tilt"] = "top"   => Since <= 2 * Period
    /\ answered = 1 /\ pc["tilt"] = "pulse" => Since <= Period
    /\ answered = 1 /\ pc["tilt"] = "pause" => Since <= 2 * Period - rest["tilt"]
EndedByQuit == ~quit => pc["tilt"] # "ended"

IInv == Types /\ PinFollows /\ OneChange /\ PeriodKept /\ EndedByQuit /\ AnswerInTime

-----------------------------------------------------------------------------
LEMMA Initial == Init => IInv
<1> SUFFICES ASSUME Init PROVE IInv
  OBVIOUS
<1>0. quit \in BOOLEAN
  BY Zenon DEF Init
<1> USE ServoAssumption DEF Init, Servo, Unset
<1>1. ProcessTypes /\ SetterTypes
  <2>1. ProcessTypes
    BY DEF ProcessTypes
  <2>2. SetterTypes
    BY <1>0 DEF SetterTypes
  <2> QED BY <2>1, <2>2
<1>2. WidthTypes
  BY DEF WidthTypes
<1>3. UsedTypes
  <2>1. 0 \in Width("side") /\ 1600 \in Width("tilt")
    BY DEF Width
  <2> QED BY <2>1 DEF UsedTypes
<1>4. PinFollows /\ OneChange /\ EndedByQuit
  BY DEF PinFollows, OneChange, EndedByQuit
<1>5. PeriodKept
  BY DEF PeriodKept, Step
<1>6. AnswerInTime
  BY DEF AnswerInTime, Since
<1> HIDE DEF Init
<1> QED BY <1>1, <1>2, <1>3, <1>4, <1>5, <1>6 DEF IInv, Types

LEMMA ProcessTypesKept ==
  ProcessTypes /\ SetterTypes /\ [Next]_vars => ProcessTypes'
<1> SUFFICES ASSUME ProcessTypes, SetterTypes, [Next]_vars PROVE ProcessTypes'
  OBVIOUS
<1> USE ServoAssumption DEF ProcessTypes
<1>1. ASSUME NEW s \in Servo, Pulse(s) PROVE ProcessTypes'
  <2>1. CASE Begin(s)
    BY <2>1 DEF Begin, Raise, setters
  <2>2. CASE Lower(s)
    BY <2>2 DEF Lower, setters
  <2>3. CASE More(s)
    BY <2>3 DEF More, Raise, setters
  <2>4. CASE Again(s) \/ End(s)
    BY <2>4 DEF Again, End, setters
  <2> QED BY <1>1, <2>1, <2>2, <2>3, <2>4 DEF Pulse
<1>2. CASE Radar
  BY <1>2 DEF Radar, Boot, TurnOut, TurnBack, Turn, process
<1>3. CASE Panel
  BY <1>3 DEF Panel, DrawButtons, PressSwitch, EndPress, process
<1>4. CASE Interrupt
  BY <1>4 DEF Interrupt, setters
<1>5. CASE Tick
  <2>1. \A s \in Servo : (IF rest[s] > 0 THEN rest[s] - 1 ELSE 0) \in 0 .. Period
    OBVIOUS
  <2> QED BY <1>5, <2>1 DEF Tick
<1>6. CASE UNCHANGED vars
  BY <1>6 DEF vars, process
<1> QED BY <1>1, <1>2, <1>3, <1>4, <1>5, <1>6 DEF Next

LEMMA SetterTypesKept == SetterTypes /\ [Next]_vars => SetterTypes'
<1> SUFFICES ASSUME SetterTypes, [Next]_vars PROVE SetterTypes'
  OBVIOUS
<1> USE ServoAssumption DEF SetterTypes
<1>1. ASSUME NEW s \in Servo, Pulse(s) PROVE SetterTypes'
  BY <1>1 DEF Pulse, Begin, Lower, More, Again, End, setters
<1>2. CASE Radar
  BY <1>2 DEF Radar, Boot, TurnOut, TurnBack, Turn
<1>3. CASE Panel
  BY <1>3 DEF Panel, DrawButtons, PressSwitch, EndPress
<1>4. CASE Interrupt
  BY <1>4 DEF Interrupt, setters
<1>5. CASE Tick
  BY <1>5 DEF Tick
<1>6. CASE UNCHANGED vars
  BY <1>6 DEF vars, setters
<1> QED BY <1>1, <1>2, <1>3, <1>4, <1>5, <1>6 DEF Next

LEMMA WidthTypesKept ==
  SetterTypes /\ WidthTypes /\ [Next]_vars => WidthTypes'
<1> SUFFICES ASSUME SetterTypes, WidthTypes, [Next]_vars PROVE WidthTypes'
  OBVIOUS
<1> USE ServoAssumption DEF SetterTypes, WidthTypes, Servo
<1>1. ASSUME NEW s \in Servo, Pulse(s) PROVE WidthTypes'
  BY <1>1 DEF Pulse, Begin, Lower, More, Again, End, setters
<1>2. CASE Boot
  <2>1. CASE pwm["side"] = Unset
    BY <1>2, <2>1 DEF Boot, Unset, Base
  <2>2. CASE pwm["side"] # Unset
    <3>1. 0 \in 0 .. Turns - 1 /\ Base = Place(0)
      BY DEF Base, Place
    <3> QED BY <1>2, <2>2, <3>1 DEF Boot, Base
  <2> QED BY <2>1, <2>2
<1>3. CASE TurnOut
  <2>1. PICK k \in 0 .. Turns - 1 : pwm["side"] = Place(k)
    BY <1>3 DEF TurnOut
  <2>2. pwm' = [pwm EXCEPT !["side"] = pwm["side"] + 30]
    BY <1>3 DEF TurnOut, Turn, Step
  <2>3. pwm'["side"] = Place(k + 1) /\ Place(k + 1) \in Nat
    BY <2>1, <2>2 DEF Place, Base
  <2>4. pwm' \in [Servo -> Nat] /\ pwm'["tilt"] = pwm["tilt"]
    BY <2>2, <2>3
  <2>5. CASE radar' = "back"
    BY <1>3, <2>3, <2>4, <2>5 DEF TurnOut
  <2>6. CASE radar' = "out"
    <3>1. k + 1 # Turns
      BY <1>3, <2>3, <2>6 DEF TurnOut, Turn, Step, Place, Base
    <3>2. k + 1 \in 0 .. Turns - 1
      BY <3>1
    <3> QED BY <1>3, <2>3, <2>4, <2>6, <3>2 DEF TurnOut
  <2> QED BY <1>3, <2>5, <2>6 DEF TurnOut, Turn
<1>4. CASE TurnBack
  <2>1. PICK k \in 1 .. Turns : pwm["side"] = Place(k)
    BY <1>4 DEF TurnBack
  <2>2. pwm' = [pwm EXCEPT !["side"] = pwm["side"] + (-30)]
    BY <1>4 DEF TurnBack, Turn, Step
  <2>3. pwm'["side"] = Place(k - 1) /\ Place(k - 1) \in Nat
    BY <2>1, <2>2 DEF Place, Base
  <2>4. pwm' \in [Servo -> Nat] /\ pwm'["tilt"] = pwm["tilt"]
    BY <2>2, <2>3
  <2>5. CASE radar' = "out"
    BY <1>4, <2>3, <2>4, <2>5 DEF TurnBack
  <2>6. CASE radar' = "back"
    <3>1. k - 1 # 0
      BY <1>4, <2>3, <2>6 DEF TurnBack, Turn, Step, Place, Base
    <3>2. k - 1 \in 1 .. Turns
      BY <3>1
    <3> QED BY <1>4, <2>3, <2>4, <2>6, <3>2 DEF TurnBack
  <2> QED BY <1>4, <2>5, <2>6 DEF TurnBack, Turn
<1>5. CASE Panel
  BY <1>5 DEF Panel, DrawButtons, PressSwitch, EndPress
<1>6. CASE Interrupt \/ Tick \/ UNCHANGED vars
  BY <1>6 DEF Interrupt, Tick, vars, setters
<1> QED BY <1>1, <1>2, <1>3, <1>4, <1>5, <1>6 DEF Next, Radar

LEMMA InWidth ==
  ASSUME WidthTypes, SetterTypes, NEW s \in Servo PROVE pwm[s] \in Width(s)
<1> USE ServoAssumption DEF WidthTypes, SetterTypes, Width, Unset, Base, Step
<1>1. CASE s = "tilt"
  BY <1>1
<1>2. CASE s = "side"
  <2>1. \A k \in 0 .. Turns : Place(k) \in 480 .. 480 + Turns * 30
    BY DEF Place
  <2>2. 500 \in 480 .. 480 + Turns * 30
    OBVIOUS
  <2>3. pwm["side"] \in {0} \cup 480 .. 480 + Turns * 30
    BY <2>1, <2>2
  <2> QED BY <1>2, <2>3
<1> QED BY <1>1, <1>2 DEF Servo

LEMMA UsedTypesKept ==
  SetterTypes /\ WidthTypes /\ UsedTypes /\ [Next]_vars => UsedTypes'
<1> SUFFICES ASSUME SetterTypes, WidthTypes, UsedTypes, [Next]_vars
             PROVE  UsedTypes'
  OBVIOUS
<1> USE DEF UsedTypes
<1>1. ASSUME NEW s \in Servo, Raise(s) PROVE used' \in [Servo -> Nat]
                                   /\ \A t \in Servo : used'[t] \in Width(t)
  BY <1>1, InWidth DEF Raise, WidthTypes
<1>2. ASSUME NEW s \in Servo, Pulse(s) PROVE UsedTypes'
  <2>1. CASE Begin(s) \/ More(s)
    BY <1>1, <2>1 DEF Begin, More
  <2>2. CASE Lower(s)
    <3>1. used[s] - pwm[s] \in Int
      BY DEF WidthTypes
    <3> QED BY <2>2, <3>1 DEF Lower
  <2>3. CASE Again(s) \/ End(s)
    BY <2>3 DEF Again, End
  <2> QED BY <1>2, <2>1, <2>2, <2>3 DEF Pulse
<1>3. CASE Radar \/ Panel \/ Interrupt \/ Tick \/ UNCHANGED vars
  BY <1>3 DEF Radar, Boot, TurnOut, TurnBack, Panel, DrawButtons, PressSwitch, EndPress,
     Interrupt, Tick, vars, process
<1> QED BY <1>2, <1>3 DEF Next

LEMMA PinKept == ProcessTypes /\ PinFollows /\ [Next]_vars => PinFollows'
<1> SUFFICES ASSUME ProcessTypes, PinFollows, [Next]_vars PROVE PinFollows'
  OBVIOUS
<1> USE DEF ProcessTypes, PinFollows
<1>1. ASSUME NEW s \in Servo, Pulse(s) PROVE PinFollows'
  <2>1. CASE Begin(s) \/ More(s)
    BY <2>1 DEF Begin, More, Raise
  <2>2. CASE Lower(s)
    BY <2>2 DEF Lower
  <2>3. CASE Again(s) \/ End(s)
    BY <2>3 DEF Again, End
  <2> QED BY <1>1, <2>1, <2>2, <2>3 DEF Pulse
<1>2. CASE Radar \/ Panel \/ Interrupt \/ Tick \/ UNCHANGED vars
  BY <1>2 DEF Radar, Boot, TurnOut, TurnBack, Panel, DrawButtons, PressSwitch, EndPress,
     Interrupt, Tick, vars, process
<1> QED BY <1>1, <1>2 DEF Next

(* The two reads of a width differ by one change of it at most. *)
LEMMA OneChangeKept ==
  Types /\ OneChange /\ [Next]_vars => OneChange'
<1> SUFFICES ASSUME Types, OneChange, [Next]_vars PROVE OneChange'
  OBVIOUS
<1> USE ServoAssumption DEF Types, ProcessTypes, SetterTypes, WidthTypes, UsedTypes,
                            OneChange, Servo
<1>1. ASSUME NEW s \in Servo, Pulse(s) PROVE OneChange'
  <2>1. CASE Begin(s) \/ More(s)
    BY <2>1 DEF Begin, More, Raise, setters
  <2>2. CASE Lower(s)
    BY <2>2 DEF Lower, setters
  <2>3. CASE Again(s) \/ End(s)
    BY <2>3 DEF Again, End, setters
  <2> QED BY <1>1, <2>1, <2>2, <2>3 DEF Pulse
<1>2. CASE Radar
  <2>1. /\ gap = 0 /\ gap' = Gap /\ UNCHANGED << pc, used, press >>
        /\ pwm'["tilt"] = pwm["tilt"]
    BY <1>2 DEF Radar, Boot, TurnOut, TurnBack, Turn, process
  <2>2. \/ pwm["side"] = Unset
        \/ pwm'["side"] = pwm["side"] - 20
        \/ pwm'["side"] = pwm["side"] + 30 \/ pwm'["side"] = pwm["side"] + (-30)
    BY <1>2 DEF Radar, Boot, TurnOut, TurnBack, Turn, Step, Base
  <2>3. used["side"] \in Nat /\ pwm["side"] \in Nat /\ Gap > 0
    OBVIOUS
  <2>4. pc'["side"] = "pulse" /\ used'["side"] # Unset =>
           gap' > 0 /\ used'["side"] - pwm'["side"] \in -30 .. 30
    <3> SUFFICES ASSUME pc["side"] = "pulse", used["side"] # Unset
                 PROVE  used["side"] - pwm'["side"] \in -30 .. 30
      BY <2>1, <2>3
    <3>1. used["side"] = pwm["side"]
      BY <2>1
    <3> QED BY <2>2, <2>3, <3>1
  <2> QED BY <2>1, <2>4
<1>3. CASE PressSwitch
  <2>1. /\ press = 0 /\ press' = Window /\ UNCHANGED << pc, used, gap >>
        /\ pwm'["side"] = pwm["side"]
    BY <1>3 DEF PressSwitch, process
  <2>2. \/ pwm'["tilt"] = pwm["tilt"]
        \/ pwm'["tilt"] = pwm["tilt"] + 50 \/ pwm'["tilt"] = pwm["tilt"] - 50
    BY <1>3 DEF PressSwitch
  <2>3. used["tilt"] \in Nat /\ pwm["tilt"] \in Nat /\ Window > 0
    OBVIOUS
  <2>4. pc'["tilt"] = "pulse" =>
           press' > 0 /\ used'["tilt"] - pwm'["tilt"] \in -50 .. 50
    <3> SUFFICES ASSUME pc["tilt"] = "pulse"
                 PROVE  used["tilt"] - pwm'["tilt"] \in -50 .. 50
      BY <2>1, <2>3
    <3>1. used["tilt"] = pwm["tilt"]
      BY <2>1
    <3> QED BY <2>2, <2>3, <3>1
  <2> QED BY <2>1, <2>4
<1>4. CASE Tick
  <2>1. pc["side"] # "pulse" /\ pc["tilt"] # "pulse"
    BY <1>4 DEF Tick, Asleep
  <2> QED BY <1>4, <2>1 DEF Tick
<1>5. CASE DrawButtons \/ EndPress \/ Interrupt \/ UNCHANGED vars
  BY <1>5 DEF DrawButtons, EndPress, Interrupt, vars, process, setters
<1> QED BY <1>1, <1>2, <1>3, <1>4, <1>5 DEF Next, Panel

LEMMA PeriodStaysKept ==
  Types /\ OneChange /\ PeriodKept /\ [Next]_vars => PeriodKept'
<1> SUFFICES ASSUME Types, OneChange, PeriodKept, [Next]_vars PROVE PeriodKept'
  OBVIOUS
<1> USE DEF PeriodKept, Types, ProcessTypes, UsedTypes
<1>1. ASSUME NEW s \in Servo, Pulse(s) PROVE PeriodKept'
  <2>1. CASE Begin(s) \/ More(s)
    BY <2>1 DEF Begin, More, Raise
  <2>2. CASE Lower(s)
    <3>1. used[s] # Unset => used[s] - pwm[s] \in -Step[s] .. Step[s]
      BY <2>2 DEF Lower, OneChange, Servo, Step, WidthTypes
    <3> QED BY <2>2, <3>1 DEF Lower
  <2>3. CASE Again(s) \/ End(s)
    BY <2>3 DEF Again, End
  <2> QED BY <1>1, <2>1, <2>2, <2>3 DEF Pulse
<1>2. CASE Radar \/ Panel \/ Interrupt \/ Tick \/ UNCHANGED vars
  BY <1>2 DEF Radar, Boot, TurnOut, TurnBack, Panel, DrawButtons, PressSwitch, EndPress,
     Interrupt, Tick, vars, process
<1> QED BY <1>1, <1>2 DEF Next

LEMMA EndedByQuitKept == ProcessTypes /\ EndedByQuit /\ [Next]_vars => EndedByQuit'
<1> SUFFICES ASSUME ProcessTypes, EndedByQuit, [Next]_vars PROVE EndedByQuit'
  OBVIOUS
<1> USE DEF ProcessTypes, EndedByQuit, Servo
<1>1. ASSUME NEW s \in Servo, Pulse(s) PROVE EndedByQuit'
  BY <1>1 DEF Pulse, Begin, Lower, More, Again, End, Raise
<1>2. CASE Radar \/ Panel \/ Interrupt \/ Tick \/ UNCHANGED vars
  BY <1>2 DEF Radar, Boot, TurnOut, TurnBack, Panel, DrawButtons, PressSwitch, EndPress,
     Interrupt, Tick, vars, process
<1> QED BY <1>1, <1>2 DEF Next

(* While the flag is up the tilt process sleeps through at most one pause  *)
(* before it makes a pulse, and through one more before it makes another.  *)
LEMMA AnswerKept ==
  Types /\ EndedByQuit /\ AnswerInTime /\ [Next]_vars => AnswerInTime'
<1> SUFFICES ASSUME Types, EndedByQuit, AnswerInTime, [Next]_vars,
                    panel' = "loop", flag' = 1, ~quit'
             PROVE  AnswerInTime'
  BY DEF AnswerInTime
<1> USE ServoAssumption DEF Types, ProcessTypes, SetterTypes, EndedByQuit,
                            AnswerInTime, Since, Servo
<1>1. ASSUME NEW s \in Servo, Pulse(s) PROVE AnswerInTime'
  <2>1. CASE s = "side"
    BY <1>1, <2>1 DEF Pulse, Begin, Lower, More, Again, End, Raise, setters
  <2>2. CASE s = "tilt" /\ Begin(s)
    BY <2>2 DEF Begin, Raise, setters
  <2>3. CASE s = "tilt" /\ Lower(s)
    BY <2>3 DEF Lower, setters
  <2>4. CASE s = "tilt" /\ More(s)
    BY <2>4 DEF More, Raise, setters
  <2>5. CASE s = "tilt" /\ Again(s)
    BY <2>5 DEF Again, setters
  <2>6. CASE s = "tilt" /\ End(s)
    BY <2>6 DEF End, setters
  <2> QED BY <1>1, <2>1, <2>2, <2>3, <2>4, <2>5, <2>6 DEF Pulse
<1>2. CASE Radar
  BY <1>2 DEF Radar, Boot, TurnOut, TurnBack, Turn, process
<1>3. CASE PressSwitch
  BY <1>3 DEF PressSwitch, process
<1>4. CASE DrawButtons \/ EndPress \/ Interrupt
  BY <1>4 DEF DrawButtons, EndPress, Interrupt
<1>5. CASE Tick
  <2>1. panel = "loop" /\ flag = 1 /\ ~quit /\ press > 0 /\ press' = press - 1
    BY <1>5 DEF Tick, setters
  <2>2. pc["tilt"] = "pause" /\ rest["tilt"] > 0 /\ rest'["tilt"] = rest["tilt"] - 1
    BY <1>5, <2>1 DEF Tick, Asleep, Wanted
  <2>3. UNCHANGED << pc, answered >>
    BY <1>5 DEF Tick
  <2> QED BY <2>1, <2>2, <2>3
<1>6. CASE UNCHANGED vars
  BY <1>6 DEF vars, process, setters
<1> QED BY <1>1, <1>2, <1>3, <1>4, <1>5, <1>6 DEF Next, Panel

LEMMA Inductive == IInv /\ [Next]_vars => IInv'
BY ProcessTypesKept, SetterTypesKept, WidthTypesKept, UsedTypesKept, PinKept,
   OneChangeKept, PeriodStaysKept, EndedByQuitKept, AnswerKept DEF IInv, Types

-----------------------------------------------------------------------------
(* The types and the limits of the widths, for all of them. *)
THEOREM TypeCorrect == Spec => []TypeOK
<1>1. IInv => TypeOK
  BY InWidth DEF IInv, Types, TypeOK, ProcessTypes, SetterTypes, UsedTypes
<1> QED BY Initial, Inductive, <1>1, PTL DEF Spec

(* Whenever SIGINT comes, a process ends with its pin low. *)
THEOREM PinsEndLow == Spec => []EndsLow
<1>1. IInv => EndsLow
  BY DEF IInv, PinFollows, EndsLow
<1> QED BY Initial, Inductive, <1>1, PTL DEF Spec

(* A period differs from 20 ms by one step of its width at most, because   *)
(* the setters leave more time between two changes than a period takes.    *)
THEOREM PeriodRegular == Spec => []PeriodKept
<1>1. IInv => PeriodKept
  BY DEF IInv
<1> QED BY Initial, Inductive, <1>1, PTL DEF Spec

(* A press held up for more than two periods is answered by two pulses at  *)
(* least, wherever in its series the tilt process is.                      *)
THEOREM PressSeen == Spec => PressAnswered
<1>1. IInv /\ [Next]_vars => [panel = "loop" /\ flag = 1 /\ flag' = 0 => answered = 2 \/ quit]_vars
  <2> SUFFICES ASSUME IInv, [Next]_vars, panel = "loop", flag = 1, flag' = 0, ~quit
               PROVE  answered = 2
    OBVIOUS
  <2>1. press = 0
    BY DEF Next, Pulse, Begin, Lower, More, Again, End, Radar, Boot, TurnOut, TurnBack,
       Panel, DrawButtons, PressSwitch, EndPress, Interrupt, Tick, vars, setters
  <2> QED
    BY <2>1, ServoAssumption DEF IInv, Types, ProcessTypes, SetterTypes, AnswerInTime,
       Since, Servo
<1> QED BY Initial, Inductive, <1>1, PTL DEF Spec, PressAnswered
=============================================================================
