----------------------- MODULE UltrasonicSensorProofs -----------------------
(***************************************************************************)
(* Proofs about the sensor of the radar: it stays within its types - no    *)
(* echo, merged interrupt or turn of a second gets a distance out of       *)
(* 0 .. Far into the driver's word or into what the radar is told - and    *)
(* what it tells the radar is true but for the causes that are named.      *)
(***************************************************************************)
EXTENDS UltrasonicSensor, TLAPS

(* TypeOK, by parts. *)
LineOK == line \in {0, 1} /\ held \in 0 .. Hold /\ width \in 0 .. Hold
TimeOK == clock \in 0 .. Second - 1 /\ late \in 0 .. Latency
FlagsOK == armed \in BOOLEAN /\ edge \in {"none", "one", "merged"}
DriverOK == distance \in 0 .. Far /\ before \in 0 .. Second - 1
ReaderOK ==
  /\ reader \in {"aim", "ready", "asleep", "ended"} /\ nth \in {1, 2}
  /\ temp \in 0 .. Far /\ result \in 0 .. Far
  /\ sight \in 1 .. Nothing
CausesOK == causes \subseteq {1, 2} \X Kinds

LEMMA Parts == TypeOK <=>
  LineOK /\ TimeOK /\ FlagsOK /\ DriverOK /\ ReaderOK /\ CausesOK
BY DEF TypeOK, LineOK, TimeOK, FlagsOK, DriverOK, ReaderOK, CausesOK

(* The division and the two limits of the handler. *)
LEMMA Quotients ==
  ASSUME NEW n \in Int PROVE Quotient(n) \in Int /\ InReach(n) \in 0 .. Far
<1>1. Quotient(n) \in Int
  BY SensorAssumption DEF Quotient
<1> QED BY <1>1, SensorAssumption DEF InReach

(* The longest echo is shorter than that of nothing. *)
LEMMA Widths ==
  ASSUME NEW s \in 1 .. Far, NEW w \in Unit * s .. Unit * s + Unit - 1
  PROVE  w \in 0 .. Hold
<1>1. Unit \in Nat /\ Far \in Nat /\ Hold \in Nat /\ s \in Nat /\ Unit * s \in Nat
  BY SensorAssumption
<1>2. (Far + 1) * Unit = Unit * Far + Unit /\ Unit * s <= Unit * Far
  BY <1>1
<1> QED BY <1>1, <1>2, SensorAssumption

LEMMA Named == ASSUME NEW k \in Kinds, FlagsOK, ReaderOK, CausesOK
               PROVE  With(k) \subseteq {1, 2} \X Kinds
BY DEF With, ReaderOK, CausesOK

LEMMA Initial == Init => TypeOK
<1> SUFFICES ASSUME Init PROVE TypeOK
  OBVIOUS
<1>1. LineOK /\ TimeOK /\ DriverOK
  BY SensorAssumption DEF Init, LineOK, TimeOK, DriverOK
<1>2. FlagsOK
  BY Zenon DEF Init, FlagsOK
<1>3. ReaderOK /\ CausesOK
  BY SensorAssumption DEF Init, ReaderOK, CausesOK, Nothing
<1> QED BY <1>1, <1>2, <1>3, Parts

LEMMA SensorKeeps == TypeOK /\ Sensor => TypeOK'
<1> SUFFICES ASSUME LineOK, TimeOK, FlagsOK, DriverOK, ReaderOK, CausesOK, Sensor
             PROVE  TypeOK'
  BY Parts
<1> USE DEF driver, caller
<1>1. CASE Rise
  <2>1. width' \in 0 .. Hold
    <3>1. CASE sight = Nothing
      BY <1>1, <3>1, SensorAssumption DEF Rise
    <3>2. CASE sight # Nothing
      <4>1. sight \in 1 .. Far
        BY <3>2, SensorAssumption DEF ReaderOK, Nothing
      <4> QED BY <1>1, <3>2, <4>1, Widths DEF Rise
    <3> QED BY <3>1, <3>2
  <2>2. LineOK' /\ TimeOK'
    BY <1>1, <2>1, SensorAssumption DEF Rise, LineOK, TimeOK
  <2>3. FlagsOK' /\ CausesOK'
    BY <1>1 DEF Rise, FlagsOK, CausesOK
  <2>4. DriverOK' /\ ReaderOK'
    BY <1>1 DEF Rise, DriverOK, ReaderOK
  <2> QED BY <2>2, <2>3, <2>4 DEF TypeOK, LineOK, TimeOK, FlagsOK, DriverOK, ReaderOK, CausesOK
<1>2. CASE Fall
  <2>1. LineOK' /\ TimeOK'
    BY <1>2, SensorAssumption DEF Fall, LineOK, TimeOK
  <2>2. FlagsOK' /\ CausesOK'
    BY <1>2 DEF Fall, FlagsOK, CausesOK
  <2>3. DriverOK' /\ ReaderOK'
    BY <1>2 DEF Fall, DriverOK, ReaderOK
  <2> QED BY <2>1, <2>2, <2>3 DEF TypeOK, LineOK, TimeOK, FlagsOK, DriverOK, ReaderOK, CausesOK
<1>3. CASE Tick
  <2>1. LineOK' /\ TimeOK'
    BY <1>3, SensorAssumption DEF Tick, LineOK, TimeOK
  <2>2. FlagsOK'
    BY <1>3 DEF Tick, FlagsOK
  <2>3. CausesOK'
    <3>1. With("turn") \subseteq {1, 2} \X Kinds
      BY Named DEF Kinds
    <3> QED BY <1>3, <3>1 DEF Tick, CausesOK
  <2>4. DriverOK' /\ ReaderOK'
    BY <1>3 DEF Tick, DriverOK, ReaderOK
  <2> QED BY <2>1, <2>2, <2>3, <2>4 DEF TypeOK, LineOK, TimeOK, FlagsOK, DriverOK, ReaderOK, CausesOK
<1> QED BY <1>1, <1>2, <1>3 DEF Sensor

LEMMA InterruptKeeps == TypeOK /\ Interrupt => TypeOK'
<1> SUFFICES ASSUME LineOK, TimeOK, FlagsOK, DriverOK, ReaderOK, CausesOK, Interrupt
             PROVE  TypeOK'
  BY Parts
<1> USE DEF sensor, caller
<1>1. LineOK' /\ TimeOK' /\ ReaderOK'
  BY SensorAssumption DEF Interrupt, EdgeUp, EdgeDown, LineOK, TimeOK, ReaderOK
<1>2. FlagsOK'
  BY DEF Interrupt, EdgeUp, EdgeDown, FlagsOK
<1>3. DriverOK'
  <2>1. InReach(clock - before) \in 0 .. Far
    BY Quotients, SensorAssumption DEF TimeOK, DriverOK
  <2> QED BY <2>1, SensorAssumption DEF Interrupt, EdgeUp, EdgeDown, TimeOK, DriverOK
<1>4. CausesOK'
  <2>1. /\ With("merged") \subseteq {1, 2} \X Kinds
        /\ With("invented") \subseteq {1, 2} \X Kinds
    BY Named DEF Kinds
  <2> QED BY <2>1 DEF Interrupt, EdgeUp, EdgeDown, CausesOK
<1> QED BY <1>1, <1>2, <1>3, <1>4
        DEF TypeOK, LineOK, TimeOK, FlagsOK, DriverOK, ReaderOK, CausesOK

LEMMA CallerKeeps == TypeOK /\ (Reader \/ Aim \/ Leave) => TypeOK'
<1> SUFFICES ASSUME LineOK, TimeOK, FlagsOK, DriverOK, ReaderOK, CausesOK,
                    Reader \/ Aim \/ Leave
             PROVE  TypeOK'
  BY Parts
<1> USE DEF sensor, driver
<1>1. LineOK' /\ TimeOK' /\ DriverOK'
  BY DEF Reader, Burst, Take, Aim, Leave, LineOK, TimeOK, DriverOK
<1>2. FlagsOK'
  BY DEF Reader, Burst, Take, Aim, Leave, FlagsOK
<1>3. ReaderOK'
  <2>1. CASE Burst \/ Leave
    BY <2>1 DEF Burst, Leave, ReaderOK
  <2>2. CASE Take
    <3>1. Combined(temp, distance) \in 0 .. Far
      BY DEF Combined, ReaderOK, DriverOK
    <3> QED BY <2>2, <3>1 DEF Take, ReaderOK, DriverOK
  <2>3. CASE Aim
    <3>1. sight' \in 1 .. Nothing
      BY <2>3, SensorAssumption DEF Aim, Nothing
    <3> QED BY <2>3, <3>1 DEF Aim, ReaderOK
  <2> QED BY <2>1, <2>2, <2>3 DEF Reader
<1>4. CausesOK'
  <2>1. /\ With("deaf") \subseteq {1, 2} \X Kinds
        /\ With("missed") \subseteq {1, 2} \X Kinds
    BY Named DEF Kinds
  <2> QED BY <2>1 DEF Reader, Burst, Take, Aim, Leave, CausesOK
<1> QED BY <1>1, <1>2, <1>3, <1>4
        DEF TypeOK, LineOK, TimeOK, FlagsOK, DriverOK, ReaderOK, CausesOK

(* The distance that the driver returns and the one that the radar uses    *)
(* are 0 .. Far after every echo, early, late, merged or never heard, for  *)
(* any unit of time and any latency shorter than a second.                 *)
THEOREM TypeCorrect == Spec => []TypeOK
<1>1. TypeOK /\ [Next]_vars => TypeOK'
  <2> SUFFICES ASSUME TypeOK, [Next]_vars PROVE TypeOK'
    OBVIOUS
  <2>1. CASE UNCHANGED vars
    BY <2>1 DEF vars, sensor, driver, caller, TypeOK
  <2> QED BY <2>1, SensorKeeps, InterruptKeeps, CallerKeeps DEF Next
<1> QED BY Initial, <1>1, PTL DEF Spec
-----------------------------------------------------------------------------
(***************************************************************************)
(* The inductive invariant.  It follows one echo: the time that before     *)
(* holds is that of the rising edge but for the latency of the handler,    *)
(* what is still going on when a reading begins is the echo of nothing,    *)
(* and what a reading has taken is true unless one of its causes says      *)
(* otherwise.                                                              *)
(***************************************************************************)

(* The sensor heard the burst of the reading that goes on, and its echo    *)
(* has begun.                                                              *)
Heard == reader = "asleep" /\ << nth, "deaf" >> \notin causes
                           /\ << nth, "missed" >> \notin causes
Answered == Heard /\ ~armed

(* The handler took the time of the rising edge, and has not yet used it.  *)
Running == IF line = 1 THEN edge = "none" ELSE edge = "one"

(* Ticks since the rising edge was handled, and since it was there.        *)
Since == IF clock >= before THEN clock - before ELSE clock - before + Second
Age == IF line = 1 THEN held ELSE held + late

(* What a reading may have taken.                                          *)
Taken(n, d) == /\ Sound(n) => Near(d) \/ d = Far
               /\ (\A k \in Kinds : << n, k >> \notin causes) => Near(d)

(* How long the line is high for what is there. *)
Fits(w) == IF sight = Nothing THEN w = Hold
                              ELSE w \in Unit * sight .. Unit * sight + Unit - 1

LineInv ==
  /\ armed => line = 0 /\ Heard
  /\ line = 1 => edge # "merged" /\ held <= width
  /\ line = 1 /\ edge = "one" => before = 0 /\ held = late
  /\ line = 0 /\ edge # "one" => before = 0
  /\ line = 0 /\ edge = "one" => held = width

TimeInv ==
  /\ Running => Since <= Age /\ Age <= Since + Latency
  /\ Running /\ Answered /\ clock < before => << nth, "turn" >> \in causes

EchoInv ==
  /\ Running => distance = Far
  /\ Answered => Fits(width)
  /\ ~Answered => edge # "merged" /\ (Running => width = Hold)
                                 /\ (line = 1 => edge = "none")

(* Causes of a burst are those of readings that have begun. *)
BurstInv ==
  /\ \A n \in {1, 2}, k \in {"deaf", "missed"} :
       << n, k >> \in causes => n < nth \/ (n = nth /\ reader # "ready")
  /\ reader = "asleep" /\ << nth, "deaf" >> \in causes => distance = Far

ReadingInv ==
  /\ Answered /\ line = 0 /\ edge = "none" => Taken(nth, distance)
  /\ nth = 2 /\ reader \in {"ready", "asleep"} => Taken(1, temp)
  /\ UndisturbedIsTrue /\ NeverInvented /\ FirstSpikeHarmless

Inv == TypeOK /\ LineInv /\ TimeInv /\ EchoInv /\ BurstInv /\ ReadingInv
-----------------------------------------------------------------------------
(* The arithmetic of an echo. *)

LEMMA Divided ==
  ASSUME NEW d \in Nat \ {0}, NEW n \in Nat
  PROVE  n \div d \in Nat /\ d * (n \div d) <= n /\ n < d * (n \div d) + d
OBVIOUS

(* Products with the same positive factor are in the order of the others.  *)
LEMMA Cancelled ==
  ASSUME NEW d \in Nat \ {0}, NEW a \in Int, NEW b \in Int, d * a < d * b
  PROVE  a < b
<1> SUFFICES ASSUME a >= b PROVE FALSE
  OBVIOUS
<1>1. d * a >= d * b
  OBVIOUS
<1> QED BY <1>1

(* The handler makes Far of a time that is too long or too short. *)
LEMMA OutOfReach ==
  ASSUME NEW n \in Int, n >= (Far + 1) * Unit \/ n <= -Unit
  PROVE  InReach(n) = Far
<1>1. /\ Unit \in Nat \ {0} /\ Far \in Nat
      /\ (Far + 1) * Unit = Unit * (Far + 1) /\ Unit * (Far + 1) \in Nat
  BY SensorAssumption
<1>2. CASE n >= (Far + 1) * Unit
  <2> DEFINE q == n \div Unit
  <2>1. n \in Nat
    BY <1>1, <1>2
  <2>2. q \in Nat /\ n < Unit * q + Unit
    BY <1>1, <2>1, Divided
  <2>3. Quotient(n) = q
    BY <2>1 DEF Quotient
  <2> HIDE DEF q
  <2>4. Unit * (Far + 1) < Unit * (q + 1)
    BY <1>1, <1>2, <2>2
  <2>5. Far + 1 < q + 1
    BY <1>1, <2>2, <2>4, Cancelled
  <2> QED BY <1>1, <2>2, <2>3, <2>5 DEF InReach
<1>3. CASE n <= -Unit
  <2> DEFINE q == (-n) \div Unit
  <2>1. -n \in Nat /\ n < 0
    BY <1>1, <1>3
  <2>2. q \in Nat /\ -n < Unit * q + Unit
    BY <1>1, <2>1, Divided
  <2>3. Quotient(n) = -q
    BY <2>1 DEF Quotient
  <2> HIDE DEF q
  <2>4. Unit * 1 < Unit * (q + 1)
    BY <1>1, <1>3, <2>2
  <2>5. 1 < q + 1
    BY <1>1, <2>2, <2>4, Cancelled
  <2> QED BY <1>1, <2>2, <2>3, <2>5 DEF InReach
<1> QED BY <1>2, <1>3

LEMMA Blurred == Blur \in Nat /\ Latency <= Unit * Blur
<1>1. Unit \in Nat \ {0} /\ Latency \in Nat /\ Latency + Unit - 1 \in Nat
  BY SensorAssumption
<1> DEFINE b == (Latency + Unit - 1) \div Unit
<1>2. b \in Nat /\ Latency + Unit - 1 < Unit * b + Unit
  BY <1>1, Divided
<1>3. Blur = b
  BY DEF Blur
<1> HIDE DEF b
<1> QED BY <1>1, <1>2, <1>3

(* A time that differs from the echo's by the latency of a handler call    *)
(* shows the thing within the blur.                                        *)
LEMMA WithinBlur ==
  ASSUME NEW s \in 1 .. Far, NEW w \in Unit * s .. Unit * s + Unit - 1,
         NEW n \in Nat, w <= n + Latency, n <= w + Latency
  PROVE  InReach(n) \in s - Blur .. s + Blur
<1> DEFINE q == n \div Unit
<1>1. Unit \in Nat \ {0} /\ Far \in Nat /\ Latency \in Nat /\ s \in Nat
  BY SensorAssumption
<1>2. q \in Nat /\ Unit * q <= n /\ n < Unit * q + Unit
  BY <1>1, Divided
<1>3. Quotient(n) = q
  BY DEF Quotient
<1> HIDE DEF q
<1>4. /\ Unit * (s + Blur + 1) = Unit * s + Unit * Blur + Unit
      /\ Unit * (s - Blur) = Unit * s - Unit * Blur
      /\ Unit * (q + 1) = Unit * q + Unit
      /\ Unit * s \in Nat /\ Unit * q \in Nat /\ Unit * Blur \in Nat
  BY <1>1, <1>2, Blurred
<1>5. w \in Nat /\ Unit * s <= w /\ w < Unit * s + Unit
  BY <1>1, <1>4
<1>6. Unit * q < Unit * (s + Blur + 1) /\ Unit * (s - Blur) < Unit * (q + 1)
  BY <1>1, <1>2, <1>4, <1>5, Blurred
<1>7. q < s + Blur + 1 /\ s - Blur < q + 1
  BY <1>1, <1>2, <1>6, Blurred, Cancelled
<1> QED BY <1>1, <1>2, <1>3, <1>7, Blurred DEF InReach

(* What the handler stores when it took the time of both edges. *)
LEMMA Stored ==
  ASSUME TypeOK, TimeInv, Running, line = 0, held = width
  PROVE  /\ width = Hold => InReach(clock - before) = Far
         /\ clock < before => InReach(clock - before) = Far
         /\ Fits(width) /\ clock >= before => Near(InReach(clock - before))
<1>1. /\ clock \in Nat /\ before \in Nat /\ clock < Second /\ before < Second
      /\ width \in Nat /\ late \in Nat /\ late <= Latency /\ width <= Hold
      /\ Second \in Nat /\ Latency \in Nat /\ Hold \in Nat /\ Unit \in Nat
      /\ Hold + Latency + Unit < Second
  BY SensorAssumption DEF TypeOK
<1>2. Since <= width + late /\ width + late <= Since + Latency
  BY DEF TimeInv, Age
<1>3. clock < before => clock - before <= -Unit
  BY <1>1, <1>2 DEF Since
<1>4. clock >= before => /\ clock - before \in Nat
                         /\ width <= clock - before + Latency
                         /\ clock - before <= width + Latency
  BY <1>1, <1>2 DEF Since
<1>5. clock < before => InReach(clock - before) = Far
  BY <1>1, <1>3, OutOfReach
<1>6. ASSUME clock >= before, width = Hold
      PROVE  InReach(clock - before) = Far
  <2>1. clock - before >= (Far + 1) * Unit
    BY <1>1, <1>4, <1>6, SensorAssumption
  <2> QED BY <1>1, <2>1, OutOfReach
<1>7. ASSUME clock >= before, Fits(width)
      PROVE  Near(InReach(clock - before))
  <2>1. CASE sight = Nothing
    BY <1>6, <1>7, <2>1 DEF Fits, Near
  <2>2. CASE sight # Nothing
    <3>1. sight \in 1 .. Far
      BY <2>2, SensorAssumption DEF TypeOK, Nothing
    <3>2. InReach(clock - before) \in sight - Blur .. sight + Blur
      BY <1>4, <1>7, <2>2, <3>1, WithinBlur DEF Fits
    <3> QED BY <2>2, <3>2 DEF Near
  <2> QED BY <2>1, <2>2
<1> QED BY <1>1, <1>5, <1>6, <1>7
-----------------------------------------------------------------------------
(* Each action keeps the invariant. *)

LEMMA TypeKept == TypeOK /\ [Next]_vars => TypeOK'
<1> SUFFICES ASSUME TypeOK, [Next]_vars PROVE TypeOK'
  OBVIOUS
<1>1. CASE UNCHANGED vars
  BY <1>1 DEF vars, sensor, driver, caller, TypeOK
<1> QED BY <1>1, SensorKeeps, InterruptKeeps, CallerKeeps DEF Next

(* What was measured and taken stays true as further causes are added. *)
LEMMA ResultKept ==
  ASSUME UndisturbedIsTrue, NeverInvented, FirstSpikeHarmless,
         UNCHANGED << reader, result, sight >>, causes \subseteq causes'
  PROVE  (UndisturbedIsTrue /\ NeverInvented /\ FirstSpikeHarmless)'
BY DEF UndisturbedIsTrue, NeverInvented, FirstSpikeHarmless, Measured, Sound, Near

LEMMA FirstKept ==
  ASSUME Taken(1, temp), UNCHANGED << temp, sight >>, causes \subseteq causes'
  PROVE  Taken(1, temp)'
BY DEF Taken, Sound, Near

LEMMA LatestKept ==
  ASSUME Taken(nth, distance), UNCHANGED << nth, distance, sight >>,
         causes \subseteq causes'
  PROVE  Taken(nth, distance)'
BY DEF Taken, Sound, Near

LEMMA RiseKeeps == Inv /\ Rise => (LineInv /\ TimeInv /\ EchoInv /\ BurstInv /\ ReadingInv)'
<1> SUFFICES ASSUME Inv, Rise
             PROVE  (LineInv /\ TimeInv /\ EchoInv /\ BurstInv /\ ReadingInv)'
  OBVIOUS
<1> USE DEF driver, caller
<1>1. Heard /\ line = 0 /\ edge = "none" /\ before = 0
  BY DEF Inv, LineInv, Rise
<1>2. /\ Heard' /\ Answered' /\ ~Running' /\ ~armed' /\ line' = 1 /\ held' = 0
      /\ edge' = "one" /\ late' = 0 /\ before' = 0
  BY <1>1 DEF Rise, Heard, Answered, Running
<1>3. width' \in Nat
  BY TypeKept DEF Inv, TypeOK, Next, Sensor
<1>4. LineInv' /\ TimeInv'
  BY <1>2, <1>3 DEF LineInv, TimeInv
<1>5. EchoInv'
  BY <1>2 DEF Rise, EchoInv, Fits
<1>6. BurstInv'
  BY DEF Inv, Rise, BurstInv
<1>7. ReadingInv'
  BY <1>2, ResultKept, FirstKept DEF Inv, Rise, ReadingInv
<1> QED BY <1>4, <1>5, <1>6, <1>7

LEMMA FallKeeps == Inv /\ Fall => (LineInv /\ TimeInv /\ EchoInv /\ BurstInv /\ ReadingInv)'
<1> SUFFICES ASSUME Inv, Fall
             PROVE  (LineInv /\ TimeInv /\ EchoInv /\ BurstInv /\ ReadingInv)'
  OBVIOUS
<1> USE DEF driver, caller
<1>1. /\ line = 1 /\ line' = 0 /\ edge \in {"none", "one"} /\ edge' # "none"
      /\ (edge' = "one" <=> edge = "none") /\ (edge = "none" => late' = 0)
  BY DEF Inv, TypeOK, LineInv, Fall
<1>2. /\ UNCHANGED << Heard, Answered >>
      /\ Running' <=> Running
      /\ Running <=> edge = "none"
  BY <1>1 DEF Fall, Heard, Answered, Running
<1>3. LineInv'
  BY <1>1, <1>2 DEF Inv, Fall, LineInv
<1>4. Running => UNCHANGED << Since, Age >>
  BY <1>1, <1>2 DEF Inv, TypeOK, Fall, Since, Age
<1>5. TimeInv'
  BY <1>1, <1>2, <1>4 DEF Inv, Fall, TimeInv
<1>6. EchoInv'
  BY <1>1, <1>2 DEF Inv, Fall, EchoInv, Fits
<1>7. BurstInv'
  BY DEF Inv, Fall, BurstInv
<1>8. ReadingInv'
  BY <1>1, ResultKept, FirstKept DEF Inv, Fall, ReadingInv
<1> QED BY <1>3, <1>5, <1>6, <1>7, <1>8

LEMMA TickKeeps == Inv /\ Tick => (LineInv /\ TimeInv /\ EchoInv /\ BurstInv /\ ReadingInv)'
<1> SUFFICES ASSUME Inv, Tick
             PROVE  (LineInv /\ TimeInv /\ EchoInv /\ BurstInv /\ ReadingInv)'
  OBVIOUS
<1> USE DEF driver, caller
<1>1. /\ causes \subseteq causes'
      /\ \A n \in {1, 2}, k \in Kinds \ {"turn"} : << n, k >> \in causes' => << n, k >> \in causes
      /\ clock' = 0 => << nth, "turn" >> \in causes'
  BY DEF Tick, With, Kinds
<1>2. UNCHANGED << Heard, Answered, Running >>
  BY <1>1 DEF Inv, TypeOK, Tick, Heard, Answered, Running, Kinds
<1>3. /\ clock \in Nat /\ before \in Nat /\ held \in Nat /\ width \in Nat /\ late \in Nat
      /\ clock < Second /\ before < Second /\ held <= Hold /\ width <= Hold
      /\ late <= Latency /\ line \in {0, 1}
      /\ Hold \in Nat /\ Latency \in Nat /\ Second \in Nat /\ Unit \in Nat \ {0}
      /\ Hold + Latency + Unit < Second
  BY SensorAssumption DEF Inv, TypeOK
<1>4. LineInv'
  BY <1>1, <1>2, <1>3 DEF Inv, Tick, LineInv
<1>5. ASSUME Running PROVE Since' = Since + 1 /\ Age' = Age + 1
  <2>1. Age' = Age + 1
    BY <1>3, <1>5 DEF Tick, Running, Age
  <2>2. Since <= Hold + Latency
    BY <1>3, <1>5 DEF Inv, TimeInv, Since, Age
  <2>3. CASE clock = Second - 1
    <3>1. clock' = 0 /\ before' = before
      BY <2>3 DEF Tick
    <3>2. Since = clock - before
      BY <1>3, <2>3 DEF Since
    <3>3. before > 0
      BY <1>3, <2>2, <2>3, <3>2
    <3>4. Since' = clock' - before' + Second
      BY <1>3, <2>1, <3>1, <3>3 DEF Since
    <3> QED BY <1>3, <2>1, <2>3, <3>1, <3>2, <3>4
  <2>4. CASE clock # Second - 1
    <3>1. clock' = clock + 1 /\ before' = before
      BY <2>4 DEF Tick
    <3>2. clock < before => clock' < before
      BY <1>3, <2>2, <3>1 DEF Since
    <3>3. CASE clock >= before
      BY <1>3, <2>1, <3>1, <3>3 DEF Since
    <3>4. CASE clock < before
      BY <1>3, <2>1, <3>1, <3>2, <3>4 DEF Since
    <3> QED BY <1>3, <3>3, <3>4
  <2> QED BY <2>3, <2>4
<1>6. Since \in Int /\ Age \in Int
  BY <1>3 DEF Since, Age
<1>7. TimeInv'
  <2>1. Running' => Since' <= Age' /\ Age' <= Since' + Latency
    BY <1>2, <1>3, <1>5, <1>6 DEF Inv, TimeInv
  <2>2. ASSUME Running', Answered', clock' < before'
        PROVE  << nth', "turn" >> \in causes'
    <3>1. CASE clock' = 0
      BY <1>1, <3>1 DEF Tick
    <3>2. CASE clock' # 0
      <4>1. clock < before
        BY <1>3, <2>2, <3>2 DEF Tick
      <4> QED BY <1>1, <1>2, <2>2, <4>1 DEF Inv, TimeInv, Tick
    <3> QED BY <3>1, <3>2
  <2> QED BY <2>1, <2>2 DEF TimeInv
<1>8. EchoInv'
  BY <1>2 DEF Inv, Tick, EchoInv, Fits
<1>9. BurstInv'
  BY <1>1 DEF Inv, TypeOK, Tick, BurstInv, Kinds
<1>10. ReadingInv'
  <2>1. (Answered /\ line = 0 /\ edge = "none" => Taken(nth, distance))'
    BY <1>1, <1>2, LatestKept DEF Inv, Tick, ReadingInv
  <2>2. (nth = 2 /\ reader \in {"ready", "asleep"} => Taken(1, temp))'
    BY <1>1, FirstKept DEF Inv, Tick, ReadingInv
  <2>3. (UndisturbedIsTrue /\ NeverInvented /\ FirstSpikeHarmless)'
    BY <1>1, ResultKept DEF Inv, Tick, ReadingInv
  <2> QED BY <2>1, <2>2, <2>3 DEF ReadingInv
<1> QED BY <1>4, <1>7, <1>8, <1>9, <1>10
LEMMA EdgeUpKeeps == Inv /\ EdgeUp => (LineInv /\ TimeInv /\ EchoInv /\ BurstInv /\ ReadingInv)'
<1> SUFFICES ASSUME Inv, EdgeUp
             PROVE  (LineInv /\ TimeInv /\ EchoInv /\ BurstInv /\ ReadingInv)'
  OBVIOUS
<1> USE DEF sensor, caller
<1>1. /\ line = 1 /\ edge = "one" /\ edge' = "none" /\ line' = 1
      /\ before' = clock /\ clock' = clock /\ distance' = Far /\ late' = 0
      /\ held' = held /\ held = late
  BY DEF Inv, TypeOK, LineInv, EdgeUp
<1>2. /\ UNCHANGED << Heard, Answered >>
      /\ Running' /\ Answered
  BY <1>1 DEF Inv, EchoInv, EdgeUp, Heard, Answered, Running
<1>3. LineInv'
  BY <1>1, <1>2 DEF Inv, EdgeUp, LineInv
<1>4. TimeInv'
  <2>1. held \in 0 .. Latency /\ clock \in Nat /\ Latency \in Nat
    BY <1>1, SensorAssumption DEF Inv, TypeOK
  <2>2. Since' = 0 /\ Age' = held
    BY <1>1, <2>1 DEF Since, Age
  <2> QED BY <1>1, <2>1, <2>2 DEF TimeInv
<1>5. EchoInv'
  BY <1>1, <1>2 DEF Inv, EdgeUp, EchoInv, Fits
<1>6. BurstInv'
  BY <1>1 DEF Inv, EdgeUp, BurstInv
<1>7. ReadingInv'
  BY <1>1, ResultKept, FirstKept DEF Inv, EdgeUp, ReadingInv
<1> QED BY <1>3, <1>4, <1>5, <1>6, <1>7

(* When the handler missed the beginning of an echo, the time of day       *)
(* decides what it stores: a cause is noted.                               *)
LEMMA Merged ==
  ASSUME Inv, EdgeDown, edge = "merged"
  PROVE  \/ << nth, "invented" >> \in causes'
         \/ << nth, "merged" >> \in causes' /\ distance' = Far
<1>1. clock \in Nat /\ before = 0
  BY DEF Inv, TypeOK, LineInv, EdgeDown
<1>2. CASE Quotient(clock) <= Far
  BY <1>2 DEF EdgeDown, With
<1>3. CASE ~(Quotient(clock) <= Far)
  <2>1. InReach(clock - before) = Far
    BY <1>1, <1>3, Quotients, SensorAssumption DEF InReach
  <2> QED BY <1>3, <2>1 DEF EdgeDown, With
<1> QED BY <1>2, <1>3

LEMMA EdgeDownKeeps == Inv /\ EdgeDown => (LineInv /\ TimeInv /\ EchoInv /\ BurstInv /\ ReadingInv)'
<1> SUFFICES ASSUME Inv, EdgeDown
             PROVE  (LineInv /\ TimeInv /\ EchoInv /\ BurstInv /\ ReadingInv)'
  OBVIOUS
<1> USE DEF sensor, caller
<1>1. /\ line = 0 /\ line' = 0 /\ edge \in {"one", "merged"} /\ edge' = "none"
      /\ before' = 0 /\ distance' = InReach(clock - before)
  BY DEF Inv, TypeOK, EdgeDown
<1>2. /\ causes \subseteq causes'
      /\ \A n \in {1, 2}, k \in {"deaf", "missed"} :
           << n, k >> \in causes' => << n, k >> \in causes
  BY DEF EdgeDown, With
<1>3. UNCHANGED << Heard, Answered >> /\ ~Running'
  BY <1>1, <1>2 DEF Inv, TypeOK, EdgeDown, Heard, Answered, Running
<1>4. ASSUME edge = "one"
      PROVE  /\ ~Answered => distance' = Far
             /\ Answered => /\ Near(distance') \/ distance' = Far
                            /\ Near(distance') \/ << nth, "turn" >> \in causes'
  <2>1. Running /\ held = width
    BY <1>1, <1>4 DEF Inv, LineInv, Running
  <2>2. /\ width = Hold \/ clock < before => distance' = Far
        /\ Fits(width) /\ clock >= before => Near(distance')
    BY <1>1, <2>1, Stored DEF Inv
  <2>3. ~Answered => distance' = Far
    BY <2>1, <2>2 DEF Inv, EchoInv
  <2>4. clock >= before \/ clock < before
    BY SensorAssumption DEF Inv, TypeOK
  <2> QED BY <1>2, <2>1, <2>2, <2>3, <2>4 DEF Inv, EchoInv, TimeInv
<1>5. ~Answered => edge = "one" /\ distance' = Far
  BY <1>1, <1>4 DEF Inv, EchoInv
<1>6. Answered => Taken(nth, distance)'
  <2> SUFFICES ASSUME Answered PROVE Taken(nth, distance)'
    OBVIOUS
  <2>1. UNCHANGED << nth, sight >>
    BY DEF EdgeDown
  <2>2. CASE edge = "one"
    <3>1. Near(distance') \/ (distance' = Far /\ << nth, "turn" >> \in causes')
      BY <1>4, <2>2
    <3>2. (Near(distance') /\ Near(distance)') \/ (distance' = Far /\ << nth, "turn" >> \in causes')
      BY <2>1, <3>1 DEF Near
    <3> QED BY <2>1, <3>2 DEF Taken, Kinds
  <2>3. CASE edge = "merged"
    BY <2>1, <2>3, Merged DEF Taken, Sound, Kinds
  <2> QED BY <1>1, <2>2, <2>3
<1>7. LineInv'
  BY <1>1, <1>3 DEF Inv, EdgeDown, LineInv
<1>8. TimeInv'
  BY <1>3 DEF TimeInv
<1>9. EchoInv'
  BY <1>1, <1>3 DEF Inv, EdgeDown, EchoInv, Fits
<1>10. BurstInv'
  <2>1. reader = "asleep" /\ << nth, "deaf" >> \in causes => ~Answered
    BY DEF Answered, Heard
  <2> QED BY <1>2, <1>5, <2>1 DEF Inv, TypeOK, EdgeDown, BurstInv
<1>11. ReadingInv'
  BY <1>2, <1>3, <1>6, ResultKept, FirstKept DEF Inv, EdgeDown, ReadingInv
<1> QED BY <1>7, <1>8, <1>9, <1>10, <1>11
LEMMA BurstKeeps == Inv /\ Burst => (LineInv /\ TimeInv /\ EchoInv /\ BurstInv /\ ReadingInv)'
<1> SUFFICES ASSUME Inv, Burst
             PROVE  (LineInv /\ TimeInv /\ EchoInv /\ BurstInv /\ ReadingInv)'
  OBVIOUS
<1> USE DEF driver
<1>1. /\ ~Heard /\ ~Answered /\ ~armed
      /\ nth \in {1, 2} /\ line \in {0, 1} /\ edge \in {"none", "one"}
      /\ << nth, "deaf" >> \notin causes /\ << nth, "missed" >> \notin causes
  BY DEF Inv, TypeOK, LineInv, EchoInv, BurstInv, Burst, Heard, Answered
<1>2. UNCHANGED << Running, Since, Age >>
  BY DEF Burst, Running, Since, Age
<1>3. ~Answered'
  BY <1>1 DEF Burst, Answered, Heard, With
<1>4. armed' => line' = 0 /\ Heard'
  BY <1>1 DEF Burst, Heard
<1>5. LineInv'
  BY <1>4 DEF Inv, Burst, LineInv
<1>6. TimeInv'
  BY <1>2, <1>3 DEF Inv, TimeInv
<1>7. EchoInv'
  BY <1>1, <1>2, <1>3 DEF Inv, Burst, EchoInv
<1>8. BurstInv'
  <2>1. line = 1 => distance = Far
    BY <1>1 DEF Inv, EchoInv, Running
  <2>2. /\ nth' = nth /\ reader' = "asleep" /\ distance' = distance
        /\ << nth, "deaf" >> \in causes' => line = 1
        /\ \A n \in {1, 2}, k \in {"deaf", "missed"} :
             << n, k >> \in causes' => << n, k >> \in causes \/ n = nth
    BY <1>1 DEF Burst, With
  <2> QED BY <1>1, <2>1, <2>2 DEF Inv, BurstInv
<1>9. ReadingInv'
  <2>1. causes \subseteq causes'
    BY DEF Burst, With
  <2>2. reader' # "aim" /\ (nth' = 2 => Taken(1, temp)')
    BY <2>1, FirstKept DEF Inv, Burst, ReadingInv
  <2> QED BY <1>3, <2>2 DEF ReadingInv, UndisturbedIsTrue, NeverInvented,
                            FirstSpikeHarmless, Measured
<1> QED BY <1>5, <1>6, <1>7, <1>8, <1>9

(* What both readings may have taken is what the radar may be told. *)
LEMMA Told ==
  ASSUME NEW d1 \in 0 .. Far, NEW d2 \in 0 .. Far, sight \in 1 .. Nothing,
         Taken(1, d1), Taken(2, d2), causes \subseteq {1, 2} \X Kinds
  PROVE  LET r == Combined(d1, d2)
         IN /\ causes = {} => Near(r)
            /\ Sound(1) /\ Sound(2) => Near(r) \/ r = Far
            /\ Sound(2) => r >= IF sight = Nothing THEN Far ELSE sight - Blur
<1> DEFINE r == Combined(d1, d2)
<1>1. r \in {d1, d2} /\ r \in Int /\ r >= d2
  BY SensorAssumption DEF Combined
<1>2. causes = {} => Near(d1) /\ Near(d2)
  BY DEF Taken
<1>3. Sound(1) => Near(d1) \/ d1 = Far
  BY DEF Taken
<1>4. Sound(2) => Near(d2) \/ d2 = Far
  BY DEF Taken
<1>5. Sound(2) => d2 >= IF sight = Nothing THEN Far ELSE sight - Blur
  <2>1. Blur \in Nat /\ Far \in Nat
    BY Blurred, SensorAssumption
  <2>2. CASE sight = Nothing
    BY <1>4, <2>1, <2>2 DEF Near
  <2>3. CASE sight # Nothing
    <3>1. sight \in 1 .. Far
      BY <2>1, <2>3 DEF Nothing
    <3> QED BY <1>4, <2>1, <2>3, <3>1 DEF Near
  <2> QED BY <2>2, <2>3
<1>6. (IF sight = Nothing THEN Far ELSE sight - Blur) \in Int
  BY Blurred, SensorAssumption
<1> HIDE DEF r
<1>7. /\ causes = {} => Near(r)
      /\ Sound(1) /\ Sound(2) => Near(r) \/ r = Far
  BY <1>1, <1>2, <1>3, <1>4
<1>8. Sound(2) => r >= IF sight = Nothing THEN Far ELSE sight - Blur
  BY <1>1, <1>5, <1>6
<1> QED BY <1>7, <1>8 DEF r
(* A reading that ends may have taken its distance, be it that of its own  *)
(* echo, that of an echo that never ends, or that of an earlier one.       *)
LEMMA Takes == ASSUME Inv, Returns PROVE Taken(nth, distance)
<1>1. /\ reader = "asleep" /\ ~armed /\ edge = "none" /\ line \in {0, 1}
      /\ line = 1 => width = Hold
  BY DEF Inv, TypeOK, Returns, Awake
<1>2. CASE Answered /\ line = 0
  BY <1>1, <1>2 DEF Inv, ReadingInv
<1>3. CASE Answered /\ line = 1
  <2>1. distance = Far /\ Fits(Hold)
    BY <1>1, <1>3 DEF Inv, EchoInv, Running
  <2>2. CASE sight = Nothing
    BY <2>1, <2>2 DEF Taken, Near
  <2>3. CASE sight # Nothing
    <3>1. sight \in 1 .. Far
      BY <2>3, SensorAssumption DEF Inv, TypeOK, Nothing
    <3>2. Hold <= Unit * sight + Unit - 1
      BY <2>1, <2>3, <3>1, SensorAssumption DEF Fits
    <3>3. Unit * sight <= Unit * Far
      BY <3>1, SensorAssumption
    <3>4. (Far + 1) * Unit = Unit * Far + Unit
      BY SensorAssumption
    <3> QED BY <3>1, <3>2, <3>3, <3>4, SensorAssumption
  <2> QED BY <2>2, <2>3
<1>4. CASE ~Answered
  <2>1. << nth, "deaf" >> \in causes \/ << nth, "missed" >> \in causes
    BY <1>1, <1>4 DEF Answered, Heard
  <2>2. << nth, "deaf" >> \in causes => distance = Far
    BY <1>1 DEF Inv, BurstInv
  <2> QED BY <2>1, <2>2 DEF Taken, Sound, Kinds
<1> QED BY <1>1, <1>2, <1>3, <1>4

LEMMA TakeKeeps == Inv /\ Take => (LineInv /\ TimeInv /\ EchoInv /\ BurstInv /\ ReadingInv)'
<1> SUFFICES ASSUME Inv, Take
             PROVE  (LineInv /\ TimeInv /\ EchoInv /\ BurstInv /\ ReadingInv)'
  OBVIOUS
<1> USE DEF sensor, driver
<1>1. /\ reader = "asleep" /\ ~armed /\ edge = "none" /\ line \in {0, 1}
      /\ line = 1 => width = Hold
      /\ nth \in {1, 2}
  BY DEF Inv, TypeOK, Take, Returns, Awake
<1>2. ~Heard' /\ ~Answered'
  BY DEF Take, Heard, Answered
<1>3. UNCHANGED << Running, Since, Age >>
  BY DEF Take, Running, Since, Age
<1>4. LineInv'
  BY <1>1 DEF Inv, Take, LineInv
<1>5. TimeInv'
  BY <1>2, <1>3 DEF Inv, TimeInv
<1>6. EchoInv'
  BY <1>1, <1>2, <1>3 DEF Inv, Take, EchoInv, Running
<1>7. BurstInv'
  BY <1>1 DEF Inv, Take, BurstInv
<1>8. ReadingInv'
  <2>1. Taken(nth, distance)
    BY Takes DEF Inv, Take
  <2>2. CASE nth = 1
    <3>1. Taken(1, temp)'
      BY <2>1, <2>2 DEF Take, Taken, Sound, Near
    <3> QED BY <1>2, <2>2, <3>1 DEF Take, ReadingInv, UndisturbedIsTrue, NeverInvented,
                                    FirstSpikeHarmless, Measured
  <2>3. CASE nth = 2
    <3>1. Taken(1, temp) /\ Taken(2, distance) /\ result' = Combined(temp, distance)
          /\ reader' = "aim" /\ UNCHANGED << sight, causes >>
      BY <1>1, <2>1, <2>3 DEF Inv, Take, ReadingInv
    <3>2. /\ causes = {} => Near(result')
          /\ Sound(1) /\ Sound(2) => Near(result') \/ result' = Far
          /\ Sound(2) => result' >= IF sight = Nothing THEN Far ELSE sight - Blur
      BY <3>1, Told DEF Inv, TypeOK
    <3>3. (UndisturbedIsTrue /\ NeverInvented /\ FirstSpikeHarmless)'
      BY <3>1, <3>2 DEF UndisturbedIsTrue, NeverInvented, FirstSpikeHarmless, Sound, Near
    <3> QED BY <1>2, <3>1, <3>3 DEF ReadingInv
  <2> QED BY <1>1, <2>2, <2>3
<1> QED BY <1>4, <1>5, <1>6, <1>7, <1>8

LEMMA AimKeeps == Inv /\ (Aim \/ Leave) => (LineInv /\ TimeInv /\ EchoInv /\ BurstInv /\ ReadingInv)'
<1> SUFFICES ASSUME Inv, Aim \/ Leave
             PROVE  (LineInv /\ TimeInv /\ EchoInv /\ BurstInv /\ ReadingInv)'
  OBVIOUS
<1> USE DEF sensor, driver
<1>1. ~Heard /\ ~Answered /\ ~armed /\ ~Heard' /\ ~Answered' /\ ~armed'
  BY DEF Inv, LineInv, Aim, Leave, Heard, Answered
<1>2. UNCHANGED << Running, Since, Age >>
  BY DEF Aim, Leave, Running, Since, Age
<1>3. LineInv'
  BY <1>1 DEF Inv, Aim, Leave, LineInv
<1>4. TimeInv'
  BY <1>1, <1>2 DEF Inv, TimeInv
<1>5. EchoInv'
  BY <1>1, <1>2 DEF Inv, Aim, Leave, EchoInv
<1>6. BurstInv'
  BY DEF Inv, Aim, Leave, BurstInv
<1>7. ReadingInv'
  BY <1>1 DEF Inv, Aim, Leave, ReadingInv, UndisturbedIsTrue, NeverInvented,
              FirstSpikeHarmless, Measured
<1> QED BY <1>3, <1>4, <1>5, <1>6, <1>7

LEMMA InvInit == Init => Inv
<1> SUFFICES ASSUME Init PROVE Inv
  OBVIOUS
<1>1. TypeOK
  BY Initial
<1>2. ~Heard /\ ~Answered /\ ~Running
  BY DEF Init, Heard, Answered, Running
<1>3. LineInv /\ TimeInv /\ EchoInv /\ BurstInv
  BY <1>2 DEF Init, LineInv, TimeInv, EchoInv, BurstInv
<1>4. ReadingInv
  <2>1. Near(result) /\ result = Far /\ Far \in Nat /\ sight = Nothing
    BY SensorAssumption DEF Init, Near
  <2> QED BY <1>2, <2>1 DEF Init, ReadingInv, UndisturbedIsTrue, NeverInvented, FirstSpikeHarmless
<1> QED BY <1>1, <1>3, <1>4 DEF Inv

(* Inv is inductive. *)
LEMMA InvKept == Inv /\ [Next]_vars => Inv'
<1> SUFFICES ASSUME Inv, [Next]_vars PROVE Inv'
  OBVIOUS
<1>1. TypeOK'
  BY TypeKept DEF Inv
<1>2. (LineInv /\ TimeInv /\ EchoInv /\ BurstInv /\ ReadingInv)'
  <2>1. CASE UNCHANGED vars
    <3>1. UNCHANGED << Heard, Answered, Running, Since, Age >>
      BY <2>1 DEF vars, sensor, driver, caller, Heard, Answered, Running, Since, Age
    <3>2. (LineInv /\ TimeInv /\ EchoInv /\ BurstInv)'
      BY <2>1, <3>1 DEF Inv, vars, sensor, driver, caller, LineInv, TimeInv, EchoInv,
                        BurstInv, Fits
    <3>3. ReadingInv'
      BY <2>1, <3>1, ResultKept, FirstKept, LatestKept
         DEF Inv, vars, sensor, driver, caller, ReadingInv
    <3> QED BY <3>2, <3>3
  <2> QED BY <2>1, RiseKeeps, FallKeeps, TickKeeps, EdgeUpKeeps, EdgeDownKeeps,
             BurstKeeps, TakeKeeps, AimKeeps
          DEF Next, Sensor, Interrupt, Reader
<1> QED BY <1>1, <1>2 DEF Inv

LEMMA Invariance == Spec => []Inv
BY InvInit, InvKept, PTL DEF Spec

(* For any unit of time, reach, latency of the handler and length of the   *)
(* echo of nothing that fit a second: two readings that nothing disturbed  *)
(* show what is there, up to what the handler came late.                   *)
THEOREM UndisturbedProved == Spec => []UndisturbedIsTrue
<1>1. Inv => UndisturbedIsTrue
  BY DEF Inv, ReadingInv
<1> QED BY Invariance, <1>1, PTL

(* A wrap of the clock, a burst on a high line and edges seen as one may   *)
(* hide a thing, but the radar does not see what is not there.             *)
THEOREM NeverInventedProved == Spec => []NeverInvented
<1>1. Inv => NeverInvented
  BY DEF Inv, ReadingInv
<1> QED BY Invariance, <1>1, PTL

(* Whatever the first reading brought up, the distance told is not nearer  *)
(* than the thing unless the second reading was at fault as well.          *)
THEOREM FirstSpikeProved == Spec => []FirstSpikeHarmless
<1>1. Inv => FirstSpikeHarmless
  BY DEF Inv, ReadingInv
<1> QED BY Invariance, <1>1, PTL
=============================================================================
