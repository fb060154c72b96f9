-------------------------- MODULE UltrasonicSensor --------------------------
(***************************************************************************)
(* The distance sensor of the radar: the HC-SR04 driver (module/hs_04),    *)
(* whose interrupt handler and whose read() share the word "distance", the *)
(* sensor at its pins, and the two readings that radar_process takes in a  *)
(* direction.                                                              *)
(*                                                                         *)
(* After a burst the sensor keeps its echo line high for as long as the    *)
(* sound travels, Unit ticks for a centimetre.  The handler runs at both   *)
(* edges, looks at the line, and reads the time of day, of which it uses   *)
(* the microseconds only.  read() sends a burst, sleeps for 60 ms, and     *)
(* returns distance, whatever it is then.  A tick stands for some          *)
(* microseconds, a unit for 54 of them.                                    *)
(***************************************************************************)
EXTENDS Integers

CONSTANTS Second,   \* ticks of a second
          Unit,     \* ticks of a centimetre (54 microseconds in the code)
          Far,      \* the largest distance, and that of no echo (250)
          Hold,     \* ticks the line is high when nothing sends the sound back
          Latency,  \* ticks after an edge within which the handler runs
          Sights    \* bound: how far away the next thing may be

ASSUME SensorAssumption ==
  /\ Unit \in Nat \ {0} /\ Far \in Nat \ {0} /\ Latency \in Nat
  /\ Hold \in Nat /\ Hold > (Far + 1) * Unit + Latency
  /\ Second \in Nat /\ Second > Hold + Latency + Unit
  /\ Sights \subseteq 1 .. Far

Nothing == Far + 1     \* nothing within reach

VARIABLES
  clock,     \* tv_usec of the time of day
  line,      \* the echo pin
  held,      \* ticks since it went high
  width,     \* ticks after which it goes low
  armed,     \* a burst was heard, its echo has not begun
  edge,      \* the interrupt that is due: "none", "one", or "merged" of two
  late,      \* ticks since it became due
  distance,  \* distance
  before,    \* before.tv_usec, 0 when it is cleared
  reader,    \* where radar_process stands: "aim", "ready", "asleep" in
             \* read(), "ended"
  nth,       \* which of the two readings it takes
  temp,      \* temp_dist, the first of them
  result,    \* buf[0] after both
  (* What follows is not in the code. *)
  sight,     \* how far away the thing in this direction is, or Nothing
  causes     \* what has disturbed the first and the second reading

sensor == << line, held, width, armed >>
driver == << distance, before >>
caller == << reader, nth, temp, result, sight >>
vars == << clock, sensor, edge, late, driver, caller, causes >>

Kinds == {"turn", "merged", "invented", "deaf", "missed"}
With(k) == causes \cup {<< nth, k >>}

Init ==
  /\ clock = 0 /\ line = 0 /\ held = 0 /\ width = Hold /\ armed = FALSE
  /\ edge = "none" /\ late = 0
  /\ distance = Far /\ before = 0
  /\ reader = "aim" /\ nth = 1 /\ temp = 0 /\ result = Far
  /\ sight = Nothing /\ causes = {}

-----------------------------------------------------------------------------
(* The sensor and the time. *)

(* Between two echoes any time may pass.  The sensor first sends its sound *)
(* for longer than the handler may be late.                                *)
Rise ==
  /\ armed /\ armed' = FALSE /\ edge = "none"
  /\ line' = 1 /\ held' = 0
  /\ clock' \in 0 .. Second - 1
  /\ width' \in IF sight = Nothing THEN {Hold}
                                   ELSE Unit * sight .. Unit * sight + Unit - 1
  /\ edge' = "one" /\ late' = 0
  /\ UNCHANGED << driver, caller, causes >>

(* The line goes low.  If the handler has not run since it went high, it   *)
(* runs once for both edges.                                               *)
Fall ==
  /\ line = 1 /\ held = width
  /\ line' = 0
  /\ edge' = IF edge = "none" THEN "one" ELSE "merged"
  /\ late' = IF edge = "none" THEN 0 ELSE late
  /\ UNCHANGED << clock, held, width, armed, driver, caller, causes >>

Tick ==
  /\ line = 1 \/ edge # "none"
  /\ line = 1 => held < width
  /\ edge # "none" => late < Latency
  /\ clock' = IF clock = Second - 1 THEN 0 ELSE clock + 1
  /\ held' = IF line = 1 THEN held + 1 ELSE held
  /\ late' = IF edge # "none" THEN late + 1 ELSE late
  /\ causes' = IF clock' = 0 THEN With("turn") ELSE causes
  /\ UNCHANGED << line, width, armed, edge, driver, caller >>

-----------------------------------------------------------------------------
(* The handler.  An operator Op_Bug is Op with a bug the code might have   *)
(* had; no action uses it.                                                 *)

(* The time of the rising edge is not taken. *)
EdgeUp_NoTime ==
  /\ edge # "none" /\ line = 1
  /\ distance' = Far
  /\ edge' = "none" /\ late' = 0
  /\ UNCHANGED << clock, sensor, before, caller, causes >>

EdgeUp ==
  /\ edge # "none" /\ line = 1
  /\ before' = clock /\ distance' = Far
  /\ edge' = "none" /\ late' = 0
  /\ UNCHANGED << clock, sensor, caller, causes >>

(* Division as in C, towards 0. *)
Quotient(n) == IF n >= 0 THEN n \div Unit ELSE -((-n) \div Unit)

(* A negative difference is not caught. *)
InReach_NoFloor(n) ==
  IF Quotient(n) > Far THEN Far ELSE Quotient(n)

InReach(n) ==
  IF Quotient(n) > Far \/ Quotient(n) < 0 THEN Far ELSE Quotient(n)

(* When the rising edge was not handled, before is 0: the "distance" is    *)
(* the time since the last full second.                                    *)
EdgeDown ==
  /\ edge # "none" /\ line = 0
  /\ distance' = InReach(clock - before)
  /\ before' = 0
  /\ causes' = IF edge # "merged" THEN causes
               ELSE With(IF Quotient(clock) <= Far THEN "invented" ELSE "merged")
  /\ edge' = "none" /\ late' = 0
  /\ UNCHANGED << clock, sensor, caller >>

-----------------------------------------------------------------------------
(* radar_process. *)

Aim ==
  /\ reader = "aim"
  /\ sight' \in Sights \cup {Nothing}
  /\ reader' = "ready" /\ nth' = 1 /\ causes' = {}
  /\ UNCHANGED << clock, sensor, edge, late, driver, temp, result >>

(* After SIGINT the radar takes no more readings. *)
Leave ==
  /\ reader = "aim"
  /\ reader' = "ended"
  /\ UNCHANGED << clock, sensor, edge, late, driver, nth, temp, result, sight,
                  causes >>

(* read() sends a burst.  The sensor may miss it, and is deaf to it while  *)
(* its line is high: distance then keeps what it was, and no echo comes.   *)
Burst ==
  /\ reader = "ready"
  /\ reader' = "asleep"
  /\ IF line = 1 THEN armed' = armed /\ causes' = With("deaf")
                 ELSE \/ armed' = TRUE /\ causes' = causes
                      \/ armed' = armed /\ causes' = With("missed")
  /\ UNCHANGED << clock, line, held, width, edge, late, driver,
                  nth, temp, result, sight >>

(* 60 ms are enough for every echo but that of nothing. *)
Awake ==
  /\ reader = "asleep" /\ ~armed /\ edge = "none"
  /\ line = 1 => width = Hold

Returns == Awake

(* 0 and Far may be spikes: then the second reading counts, otherwise the  *)
(* larger of the two.                                                      *)
Combined_Smaller(d1, d2) ==
  IF d1 \in {0, Far} THEN d2 ELSE IF d2 < d1 THEN d2 ELSE d1

Combined(d1, d2) ==
  IF d1 \in {0, Far} THEN d2 ELSE IF d2 > d1 THEN d2 ELSE d1

Take ==
  /\ Returns
  /\ IF nth = 1 THEN /\ temp' = distance /\ nth' = 2 /\ reader' = "ready"
                     /\ result' = result
                ELSE /\ result' = Combined(temp, distance) /\ reader' = "aim"
                     /\ UNCHANGED << temp, nth >>
  /\ UNCHANGED << clock, sensor, edge, late, driver, sight, causes >>

-----------------------------------------------------------------------------
Sensor == Rise \/ Fall \/ Tick
Interrupt == EdgeUp \/ EdgeDown
Reader == Burst \/ Take
Next == Sensor \/ Interrupt \/ Reader \/ Aim \/ Leave

Spec == Init /\ [][Next]_vars

-----------------------------------------------------------------------------
(* Types.  That distance never exceeds 250 is why neither the cast to char *)
(* in the driver nor the sum for the frame's byte wraps around, and what   *)
(* RadarScan assumes of the distances it is given.                         *)
TypeOK ==
  /\ clock \in 0 .. Second - 1 /\ line \in {0, 1} /\ held \in 0 .. Hold
  /\ width \in 0 .. Hold /\ armed \in BOOLEAN
  /\ edge \in {"none", "one", "merged"} /\ late \in 0 .. Latency
  /\ distance \in 0 .. Far /\ before \in 0 .. Second - 1
  /\ reader \in {"aim", "ready", "asleep", "ended"} /\ nth \in {1, 2}
  /\ temp \in 0 .. Far /\ result \in 0 .. Far
  /\ sight \in 1 .. Nothing
  /\ causes \subseteq {1, 2} \X Kinds

(* What the two handler calls of an echo may come late blurs a distance by *)
(* so many centimetres.                                                    *)
Blur == (Latency + Unit - 1) \div Unit

Near(d) == IF sight = Nothing THEN d = Far
                              ELSE d \in sight - Blur .. sight + Blur

Measured == reader = "aim"

(* Readings in which nothing could bring up a false distance. *)
Sound(n) == << n, "missed" >> \notin causes /\ << n, "invented" >> \notin causes

(* Two undisturbed readings show what is there, within the blur.           *)
UndisturbedIsTrue == Measured /\ causes = {} => Near(result)

(* The turn of a second inside an echo, a burst lost on a line that is     *)
(* still high, and an echo that is over before the handler has seen it     *)
(* begin make the radar overlook something.  They do not make it see what  *)
(* is not there: that takes a burst the sensor missed, or an unseen        *)
(* beginning within the first 13.5 ms of a second.                         *)
NeverInvented == Measured /\ Sound(1) /\ Sound(2) => Near(result) \/ result = Far

(* Taking the larger of the two readings prevents the false alarms of the  *)
(* first one: nothing is seen nearer than it is unless the second reading  *)
(* was at fault.                                                           *)
FirstSpikeHarmless ==
  Measured /\ Sound(2) =>
    result >= IF sight = Nothing THEN Far ELSE sight - Blur

=============================================================================
