----------------------------- MODULE RadarScan -----------------------------
(***************************************************************************)
(* The sweep of the radar: radar_process in GAM-Z_client.c, with what it   *)
(* shares with the panel (warn_line, buz_flag) and with the sender         *)
(* (data_buf, warn_data, send_flag).                                       *)
(*                                                                         *)
(* One cycle turns the sensor from 0 to 180 degrees and back.  Each way is *)
(* written as four loops over a quarter of the half circle, each with its  *)
(* own loop variable and its own expression for the cell of r that a       *)
(* distance goes to; the module keeps the eight loops and their            *)
(* expressions.  What is drawn and what the FND and the dot matrix show    *)
(* is left out, except that it all happens between two measurements.       *)
(***************************************************************************)
EXTENDS Integers

CONSTANTS Q,         \* steps of a quarter (15 in the code)
          Distance,  \* what the sensor can return, in cm
          LineMax    \* bound: largest warning distance (250 in the code)

ASSUME ScanAssumption ==
  /\ Q \in Nat \ {0}
  /\ Distance \subseteq 0 .. 250
  /\ LineMax \in Nat /\ LineMax >= 20 /\ LineMax % 10 = 0

Base == 480     \* side_pwm at 0 degrees, in microseconds
Step == 30      \* its change between two measurements
Park == 500     \* where it waits for the first cycle
Cells == 0 .. 4 * Q
Overtaken == -1

VARIABLES
  phase,     \* "start" of a cycle, "measure", "report" of half a cycle, "ended"
  loop, i,   \* the loop, 1 .. 8, and its variable
  pwm,       \* side_pwm
  r,         \* the distances, in pixels
  warnVal,   \* the warning distance of this cycle
  warnLine,  \* warn_line
  warnData,  \* warn_data
  buzFlag, sendFlag,
  dataBuf,   \* data_buf[0 .. 4Q]
  quit,
  (* What follows is not in the code. *)
  angle,     \* per cell of r, the pwm at which it was measured
  fresh,     \* the cells of r measured in this half of the cycle
  reported   \* the warning distance of the frame in data_buf, or Overtaken
             \* when the next cycle has begun before it was sent

scan == << phase, loop, i, pwm, r, warnVal, angle, fresh >>
vars == << scan, warnLine, warnData, buzFlag, sendFlag, dataBuf, quit, reported >>

Init ==
  /\ phase = "start" /\ loop = 1 /\ i = 0 /\ pwm = Park
  /\ r = [c \in Cells |-> 0] /\ warnVal = 0
  /\ warnLine = 20 /\ warnData = 0 /\ buzFlag = 0 /\ sendFlag = 0
  /\ dataBuf = [c \in Cells |-> 1] /\ quit = FALSE
  /\ angle = [c \in Cells |-> Base] /\ fresh = {} /\ reported = 0

-----------------------------------------------------------------------------
(* The eight loops: the cell a distance goes to, by loop variable.  As in  *)
(* RadarServer, Op_Bug is Op with a plausible bug.                         *)
Index1(j) == j
Index2_Short(j) == Q + (Q - j)
Index2(j) == Q + (Q + 1 - j)
Index3(j) == 2 * Q + j
Index4_Short(j) == 3 * Q + (Q - j)
Index4(j) == 3 * Q + 1 + (Q - j)
Index5(j) == 3 * Q - 1 + (Q - j)
Index6(j) == 3 * Q - 1 - (Q - j)
Index7(j) == 2 * Q - j
Index8(j) == j - 1

Cell(l, j) ==
  CASE l = 1 -> Index1(j) [] l = 2 -> Index2(j)
    [] l = 3 -> Index3(j) [] l = 4 -> Index4(j)
    [] l = 5 -> Index5(j) [] l = 6 -> Index6(j)
    [] l = 7 -> Index7(j) [] l = 8 -> Index8(j)

(* Loops 1 and 5 run from 0 to Q, 3 and 7 from 1 to Q, the others down     *)
(* from Q to 1.                                                            *)
Descending == {2, 4, 6, 8}
First(l) == CASE l \in {1, 5} -> 0 [] l \in {3, 7} -> 1 [] OTHER -> Q
Last(l)  == IF l \in Descending THEN 1 ELSE Q

Outward(l) == l <= 4

(* Two readings make a distance: after 0 or 250, which may be a spike, the *)
(* second one counts, otherwise the larger one.                            *)
Reading(d1, d2) ==
  IF d1 \in {0, 250} THEN d2 ELSE IF d2 > d1 THEN d2 ELSE d1

(* The alarm stays on until it is reported; it is not that of the last     *)
(* reading.                                                                *)
Alarm_Latest(d) == IF d < warnVal THEN 1 ELSE 0
Alarm(d) == IF d < warnVal THEN 1 ELSE buzFlag

(* After each measurement the servo turns on, outward or back. *)
Turned_OneWay == pwm + Step
Turned == IF Outward(loop) THEN pwm + Step ELSE pwm - Step

(* A distance in pixels as the byte that is sent: in cm, and never 0. *)
Byte(c) == r[c] \div 2 + 1

-----------------------------------------------------------------------------
(* quit is looked at once in a cycle. *)
StartCycle ==
  /\ phase = "start" /\ ~quit
  /\ pwm' = Base
  /\ buzFlag' = 0
  /\ warnVal' = warnLine /\ warnData' = warnLine
  /\ phase' = "measure" /\ loop' = 1 /\ i' = First(1) /\ fresh' = {}
  /\ reported' = IF sendFlag = 1 THEN Overtaken ELSE reported
  /\ UNCHANGED << r, angle, warnLine, sendFlag, dataBuf, quit >>

Measure ==
  /\ phase = "measure"
  /\ \E d1, d2 \in Distance :
       LET d == Reading(d1, d2)
           c == Cell(loop, i)
       IN  /\ r' = [r EXCEPT ![c] = 2 * d]
           /\ buzFlag' = Alarm(d)
           /\ angle' = [angle EXCEPT ![c] = pwm]
           /\ fresh' = fresh \cup {c}
  /\ pwm' = Turned
  /\ IF i # Last(loop)
       THEN /\ i' = IF loop \in Descending THEN i - 1 ELSE i + 1
            /\ UNCHANGED << loop, phase >>
       ELSE IF loop \in {4, 8}
              THEN phase' = "report" /\ UNCHANGED << loop, i >>
              ELSE /\ loop' = loop + 1 /\ i' = First(loop + 1)
                   /\ phase' = phase
  /\ UNCHANGED << warnVal, warnLine, warnData, sendFlag, dataBuf, quit, reported >>

(* If anything was nearer than the warning distance, the distances are     *)
(* handed to the sender.  r is not cleared.                                *)
Report ==
  /\ phase = "report"
  /\ IF buzFlag = 1
       THEN /\ dataBuf' = [c \in Cells |-> Byte(c)]
            /\ buzFlag' = 0 /\ sendFlag' = 1 /\ reported' = warnVal
       ELSE UNCHANGED << dataBuf, buzFlag, sendFlag, reported >>
  /\ IF loop = 4 THEN phase' = "measure" /\ loop' = 5 /\ i' = First(5)
                 ELSE phase' = "start" /\ UNCHANGED << loop, i >>
  /\ fresh' = {}
  /\ UNCHANGED << pwm, r, warnVal, angle, warnLine, warnData, quit >>

Stop ==
  /\ phase = "start" /\ quit
  /\ phase' = "ended"
  /\ UNCHANGED << loop, i, pwm, r, warnVal, angle, fresh, warnLine, warnData,
                  buzFlag, sendFlag, dataBuf, quit, reported >>

(* The panel's two buttons for the warning distance. *)
RaiseLine ==
  /\ warnLine < LineMax
  /\ warnLine' = warnLine + 10
  /\ UNCHANGED << scan, warnData, buzFlag, sendFlag, dataBuf, quit, reported >>

LowerLine_AtOnce ==
  /\ warnLine >= 20
  /\ warnLine' = warnLine - 10 /\ warnData' = warnLine - 10
  /\ UNCHANGED << scan, buzFlag, sendFlag, dataBuf, quit, reported >>

LowerLine ==
  /\ warnLine >= 20
  /\ warnLine' = warnLine - 10
  /\ UNCHANGED << scan, warnData, buzFlag, sendFlag, dataBuf, quit, reported >>

(* The sender, in one step: it puts warn_data of this moment into the      *)
(* frame.  RadarLink has its steps.                                        *)
Send ==
  /\ sendFlag = 1
  /\ sendFlag' = 0
  /\ UNCHANGED << scan, warnLine, warnData, buzFlag, dataBuf, quit, reported >>

Interrupt ==
  /\ ~quit /\ quit' = TRUE
  /\ UNCHANGED << scan, warnLine, warnData, buzFlag, sendFlag, dataBuf, reported >>

Radar == StartCycle \/ Measure \/ Report \/ Stop
Next == Radar \/ RaiseLine \/ LowerLine \/ Send \/ Interrupt

Spec == Init /\ [][Next]_vars

-----------------------------------------------------------------------------
TypeOK ==
  /\ phase \in {"start", "measure", "report", "ended"}
  /\ loop \in 1 .. 8 /\ i \in 0 .. Q
  /\ pwm \in Nat /\ r \in [Cells -> 0 .. 500] /\ angle \in [Cells -> Nat]
  /\ warnVal \in 0 .. LineMax /\ warnLine \in 10 .. LineMax
  /\ warnData \in 0 .. LineMax /\ reported \in (0 .. LineMax) \cup {Overtaken}
  /\ buzFlag \in {0, 1} /\ sendFlag \in {0, 1} /\ quit \in BOOLEAN
  /\ dataBuf \in [Cells -> 0 .. 255] /\ fresh \subseteq Cells

(* The eight loop expressions fit together: a distance is stored in r      *)
(* itself, in the cell of the direction it was measured in or, on the way  *)
(* back, in one at most two steps off.                                     *)
StoredWhereMeasured ==
  /\ phase = "measure" => Cell(loop, i) \in Cells
  /\ phase = "report" =>
       \A c \in fresh :
         angle[c] - (Base + Step * c) \in
           IF Outward(loop) THEN {0} ELSE {Step, 2 * Step}

(* Half a cycle after the start every cell of r has been measured: nothing *)
(* of the previous cycle is reported.                                      *)
OutwardComplete == phase = "report" /\ Outward(loop) => fresh = Cells

(* The servo is given pulses of 480 to 2310 microseconds, and from one to  *)
(* the next they change by one step at most: it is never made to jump, not *)
(* even between two cycles.                                                *)
ServoInRange == pwm \in Base .. Base + Step * (4 * Q + 1)
ServoNeverJumps == [][pwm' - pwm \in -Step .. Step]_pwm

(* On the way out, a frame is reported exactly when a distance in it is    *)
(* below the warning distance.                                             *)
AlarmIsInFrame ==
  phase = "report" /\ Outward(loop) =>
    (buzFlag = 1 <=> \E c \in Cells : r[c] < 2 * warnVal)

(* No byte of data_buf is 0 or overflows: the server, which compares what  *)
(* it reads with "data_in" and "logout" as strings, cannot take a frame    *)
(* for a command.                                                          *)
NeverACommand == \A c \in Cells : dataBuf[c] \in 1 .. 251

(* A frame that is sent before the next cycle begins carries the warning   *)
(* distance it was measured with, whatever the panel did meanwhile.        *)
SentWithItsLine == sendFlag = 1 => reported \in {warnData, Overtaken}

(* On the way back the previous records are overwritten while measuring    *)
(* anew, as the comment between the two halves says.                       *)
BackOverwrites == phase = "report" /\ ~Outward(loop) => fresh = Cells
=============================================================================
