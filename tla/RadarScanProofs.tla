-------------------------- MODULE RadarScanProofs --------------------------
(***************************************************************************)
(* Proofs about the sweep, for every number of steps of a quarter: the     *)
(* eight loops with their eight index expressions visit, store and report  *)
(* what one loop over the half circle, there and back, would.              *)
(***************************************************************************)
EXTENDS RadarScan, TLAPS

(* The values of the loop variable, and the number, in its half of the     *)
(* cycle, of the measurement made with it: 0 .. 4Q.                        *)
LoopRange(l) == IF l \in {1, 5} THEN 0 .. Q ELSE 1 .. Q

Number(l, j) ==
  IF l \in {1, 5} THEN j
  ELSE IF l \in {2, 6} THEN 2 * Q + 1 - j
  ELSE IF l \in {3, 7} THEN 2 * Q + j
  ELSE 4 * Q + 1 - j

(* The direction of the servo before measurement n. *)
Aim(l, n) == IF Outward(l) THEN Base + Step * n
                           ELSE Base + Step * (4 * Q + 1 - n)

-----------------------------------------------------------------------------
(* The cell of the measurement with number n is n on the way out, and the  *)
(* mirror image of n on the way back, one lower in the first loop.         *)
LEMMA CellOfNumber ==
  ASSUME NEW l \in 1 .. 8, NEW j \in LoopRange(l)
  PROVE  /\ Number(l, j) \in 0 .. 4 * Q
         /\ Cell(l, j) \in Cells
         /\ Outward(l) => Cell(l, j) = Number(l, j)
         /\ ~Outward(l) => 4 * Q - Number(l, j) - Cell(l, j) \in {0, 1}
<1> USE ScanAssumption DEF LoopRange, Number, Cells, Outward
<1>1. CASE l = 1  BY <1>1 DEF Cell, Index1
<1>2. CASE l = 2  BY <1>2 DEF Cell, Index2
<1>3. CASE l = 3  BY <1>3 DEF Cell, Index3
<1>4. CASE l = 4  BY <1>4 DEF Cell, Index4
<1>5. CASE l = 5  BY <1>5 DEF Cell, Index5
<1>6. CASE l = 6  BY <1>6 DEF Cell, Index6
<1>7. CASE l = 7  BY <1>7 DEF Cell, Index7
<1>8. CASE l = 8  BY <1>8 DEF Cell, Index8
<1> QED BY <1>1, <1>2, <1>3, <1>4, <1>5, <1>6, <1>7, <1>8

(* From one measurement to the next the number grows by one, within a loop *)
(* and from one loop to the next; the last number is 4Q.                   *)
LEMMA NextNumber ==
  ASSUME NEW l \in 1 .. 8, NEW j \in LoopRange(l)
  PROVE  /\ j # Last(l) =>
              LET k == IF l \in Descending THEN j - 1 ELSE j + 1
              IN  k \in LoopRange(l) /\ Number(l, k) = Number(l, j) + 1
         /\ j = Last(l) /\ l \notin {4, 8} =>
              /\ First(l + 1) \in LoopRange(l + 1)
              /\ Number(l + 1, First(l + 1)) = Number(l, j) + 1
              /\ Outward(l + 1) = Outward(l)
         /\ j = Last(l) /\ l \in {4, 8} => Number(l, j) = 4 * Q
<1> USE ScanAssumption
    DEF LoopRange, Number, Last, First, Descending, Outward
<1>1. CASE l = 1  BY <1>1
<1>2. CASE l = 2  BY <1>2
<1>3. CASE l = 3  BY <1>3
<1>4. CASE l = 4  BY <1>4
<1>5. CASE l = 5  BY <1>5
<1>6. CASE l = 6  BY <1>6
<1>7. CASE l = 7  BY <1>7
<1>8. CASE l = 8  BY <1>8
<1> QED BY <1>1, <1>2, <1>3, <1>4, <1>5, <1>6, <1>7, <1>8

(* A reading is a distance the sensor returned. *)
LEMMA ReadingIsDistance ==
  ASSUME NEW d1 \in Distance, NEW d2 \in Distance
  PROVE  Reading(d1, d2) \in Distance
BY DEF Reading

-----------------------------------------------------------------------------
(* Where the sweep is: the servo points where the number says. *)
PositionInv ==
  /\ phase = "measure" => i \in LoopRange(loop) /\ pwm = Aim(loop, Number(loop, i))
  /\ phase = "report" => /\ loop \in {4, 8}
                         /\ pwm = Aim(loop, 4 * Q + 1)
  /\ phase \in {"start", "ended"} => pwm \in {Base, Park}

(* What has been measured in this half of the cycle. *)
MeasuredInv ==
  /\ phase = "measure" /\ Outward(loop) => fresh = 0 .. Number(loop, i) - 1
  /\ phase = "report" /\ Outward(loop) => fresh = Cells
  /\ phase \in {"measure", "report"} =>
       \A c \in fresh : angle[c] - (Base + Step * c) \in
                          IF Outward(loop) THEN {0} ELSE {Step, 2 * Step}

(* The alarm is on when something measured so far is too near. *)
AlarmInv ==
  phase \in {"measure", "report"} /\ Outward(loop) =>
    (buzFlag = 1 <=> \E c \in fresh : r[c] < 2 * warnVal)

(* The warning distance moves in tens, so that it cannot step over its     *)
(* limit; and warn_data is that of the cycle.                              *)
LineInv == warnLine % 10 = 0 /\ warnData = warnVal

IInv == TypeOK /\ PositionInv /\ MeasuredInv /\ AlarmInv /\ NeverACommand /\ LineInv

LEMMA Initial == Init => IInv
<1> USE ScanAssumption DEF Init
<1>1. Init => TypeOK
  <2> SUFFICES ASSUME Init PROVE TypeOK
    OBVIOUS
  <2>1. /\ r \in [Cells -> 0 .. 500] /\ angle \in [Cells -> Nat]
        /\ dataBuf \in [Cells -> 0 .. 255] /\ fresh \subseteq Cells
    BY DEF Base
  <2>2. /\ warnVal \in 0 .. LineMax /\ warnLine \in 10 .. LineMax
        /\ warnData \in 0 .. LineMax /\ reported \in (0 .. LineMax) \cup {Overtaken}
    OBVIOUS
  <2>3. /\ phase \in {"start", "measure", "report", "ended"}
        /\ loop \in 1 .. 8 /\ i \in 0 .. Q /\ pwm \in Nat
        /\ buzFlag \in {0, 1} /\ sendFlag \in {0, 1}
    BY DEF Park
  <2>4. quit \in BOOLEAN
    BY Zenon
  <2> HIDE DEF Init
  <2> QED BY <2>1, <2>2, <2>3, <2>4 DEF TypeOK
<1>2. Init => PositionInv /\ MeasuredInv /\ AlarmInv /\ NeverACommand /\ LineInv
  BY DEF PositionInv, MeasuredInv, AlarmInv, NeverACommand, LineInv
<1> QED BY <1>1, <1>2 DEF IInv

(* A measurement, seen as one step of a single loop. *)
LEMMA MeasureKeeps == IInv /\ Measure => IInv'
<1> SUFFICES ASSUME IInv, Measure PROVE IInv'
  OBVIOUS
<1> USE ScanAssumption
<1> DEFINE n == Number(loop, i)
           cell == Cell(loop, i)
<1>1. TypeOK /\ loop \in 1 .. 8 /\ i \in LoopRange(loop) /\ pwm = Aim(loop, n)
  BY DEF IInv, TypeOK, PositionInv, Measure
<1>2. /\ n \in 0 .. 4 * Q /\ cell \in Cells
      /\ Outward(loop) => cell = n
      /\ ~Outward(loop) => 4 * Q - n - cell \in {0, 1}
  BY <1>1, CellOfNumber
<1>3. PICK d \in Distance :
        /\ r' = [r EXCEPT ![cell] = 2 * d]
        /\ buzFlag' = Alarm(d)
        /\ angle' = [angle EXCEPT ![cell] = pwm]
        /\ fresh' = fresh \cup {cell}
  BY ReadingIsDistance DEF Measure
<1>4. /\ pwm' = Turned
      /\ UNCHANGED << warnVal, warnLine, warnData, sendFlag, dataBuf, quit, reported >>
  BY DEF Measure
<1>5. \/ /\ phase' = "measure" /\ loop' \in 1 .. 8 /\ i' \in LoopRange(loop')
         /\ Number(loop', i') = n + 1 /\ Outward(loop') = Outward(loop)
      \/ /\ phase' = "report" /\ loop' = loop /\ i' = i /\ loop \in {4, 8}
         /\ n = 4 * Q
  <2>1. CASE i # Last(loop)
    BY <1>1, <2>1, NextNumber DEF Measure
  <2>2. CASE i = Last(loop) /\ loop \notin {4, 8}
    BY <1>1, <2>2, NextNumber DEF Measure
  <2>3. CASE i = Last(loop) /\ loop \in {4, 8}
    BY <1>1, <2>3, NextNumber DEF Measure
  <2> QED BY <2>1, <2>2, <2>3
<1>6. loop' \in 1 .. 8 /\ i' \in 0 .. Q /\ Outward(loop') = Outward(loop)
  BY <1>1, <1>5 DEF LoopRange, TypeOK
<1>7. pwm' = Aim(loop, n + 1)
  BY <1>1, <1>2, <1>4 DEF Aim, Turned, Outward, Base, Step
<1> HIDE DEF n, cell
<1>8. TypeOK'
  <2>1. r' \in [Cells -> 0 .. 500]
    BY <1>1, <1>2, <1>3 DEF TypeOK
  <2>2. pwm' \in Nat
    BY <1>1, <1>2, <1>7 DEF Aim, Base, Step, Outward
  <2>3. angle' \in [Cells -> Nat] /\ fresh' \subseteq Cells /\ buzFlag' \in {0, 1}
    BY <1>1, <1>2, <1>3 DEF TypeOK, Alarm
  <2> QED BY <1>1, <1>4, <1>5, <1>6, <2>1, <2>2, <2>3 DEF TypeOK
<1>9. PositionInv'
  BY <1>2, <1>5, <1>6, <1>7 DEF PositionInv, Aim
<1>10. MeasuredInv'
  <2>1. angle'[cell] = pwm /\ \A c \in Cells : c # cell => angle'[c] = angle[c]
    BY <1>1, <1>2, <1>3 DEF TypeOK
  <2>2. pwm - (Base + Step * cell) \in
          IF Outward(loop) THEN {0} ELSE {Step, 2 * Step}
    BY <1>1, <1>2 DEF Aim, Base, Step, Cells
  <2>3. \A c \in fresh' : angle'[c] - (Base + Step * c) \in
          IF Outward(loop) THEN {0} ELSE {Step, 2 * Step}
    BY <1>1, <1>3, <2>1, <2>2 DEF IInv, MeasuredInv, TypeOK, Measure
  <2>4. Outward(loop) => fresh' = 0 .. n
    BY <1>1, <1>2, <1>3 DEF IInv, MeasuredInv, Measure, n
  <2> QED BY <1>2, <1>5, <1>6, <2>3, <2>4 DEF MeasuredInv, Cells
<1>11. AlarmInv'
  <2> SUFFICES ASSUME Outward(loop)
               PROVE  buzFlag' = 1 <=> \E c \in fresh' : r'[c] < 2 * warnVal'
    BY <1>6 DEF AlarmInv
  <2>1. cell \notin fresh /\ fresh \subseteq Cells
    BY <1>1, <1>2 DEF IInv, MeasuredInv, Measure, TypeOK, n
  <2>2. r'[cell] = 2 * d /\ \A c \in fresh : r'[c] = r[c]
    BY <1>1, <1>2, <1>3, <2>1 DEF TypeOK
  <2>3. buzFlag' = 1 <=> d < warnVal \/ buzFlag = 1
    BY <1>3 DEF Alarm
  <2>4. d < warnVal <=> 2 * d < 2 * warnVal
    BY <1>1 DEF TypeOK
  <2>5. buzFlag = 1 <=> \E c \in fresh : r[c] < 2 * warnVal
    BY DEF IInv, AlarmInv, Measure
  <2> QED BY <1>3, <1>4, <2>2, <2>3, <2>4, <2>5
<1>12. NeverACommand' /\ LineInv'
  BY <1>4 DEF IInv, NeverACommand, LineInv
<1> QED BY <1>8, <1>9, <1>10, <1>11, <1>12 DEF IInv

LEMMA ReportKeeps == IInv /\ Report => IInv'
<1> SUFFICES ASSUME IInv, Report PROVE IInv'
  OBVIOUS
<1> USE ScanAssumption
<1>1. TypeOK /\ loop \in {4, 8} /\ pwm = Aim(loop, 4 * Q + 1)
  BY DEF IInv, PositionInv, Report
<1>2. \A c \in Cells : Byte(c) \in 1 .. 251
  <2>1. r \in [Cells -> 0 .. 500]
    BY <1>1 DEF TypeOK
  <2>2. \A x \in 0 .. 500 : x \div 2 + 1 \in 1 .. 251
    OBVIOUS
  <2>3. ASSUME NEW c \in Cells PROVE Byte(c) \in 1 .. 251
    <3>1. r[c] \in 0 .. 500
      BY <2>1
    <3> QED BY <3>1, <2>2 DEF Byte
  <2> QED BY <2>3
<1>3. dataBuf' = dataBuf \/ dataBuf' = [c \in Cells |-> Byte(c)]
  BY DEF Report
<1>4. NeverACommand'
  BY <1>2, <1>3 DEF IInv, NeverACommand
<1>5. TypeOK'
  <2>1. dataBuf' \in [Cells -> 0 .. 255]
    BY <1>1, <1>2, <1>3 DEF TypeOK
  <2>2. /\ phase' \in {"measure", "start"} /\ loop' \in 1 .. 8 /\ i' \in 0 .. Q
        /\ buzFlag' \in {0, 1} /\ sendFlag' \in {0, 1} /\ reported' \in (0 .. LineMax) \cup {Overtaken}
    BY <1>1 DEF Report, TypeOK, First
  <2> QED BY <1>1, <2>1, <2>2 DEF Report, TypeOK
<1>6. CASE loop = 4
  <2>1. /\ phase' = "measure" /\ loop' = 5 /\ i' = 0 /\ pwm' = Aim(5, 0)
        /\ ~Outward(5) /\ fresh' = {}
    BY <1>1, <1>6 DEF Report, First, Aim, Outward
  <2> QED BY <1>4, <1>5, <2>1 DEF IInv, PositionInv, MeasuredInv, AlarmInv,
             LineInv, Report, LoopRange, Number
<1>7. CASE loop = 8
  <2>1. phase' = "start" /\ pwm' = Base
    BY <1>1, <1>7 DEF Report, Aim, Outward, Base, Step
  <2> QED BY <1>4, <1>5, <2>1 DEF IInv, PositionInv, MeasuredInv, AlarmInv,
             LineInv, Report
<1> QED BY <1>1, <1>6, <1>7

LEMMA StartKeeps == IInv /\ StartCycle => IInv'
<1> SUFFICES ASSUME IInv, StartCycle PROVE IInv'
  OBVIOUS
<1> USE ScanAssumption DEF IInv
<1>1. TypeOK'
  BY DEF StartCycle, TypeOK, First, Base
<1>2. phase' = "measure" /\ loop' = 1 /\ i' = 0 /\ pwm' = Base /\ Outward(1)
      /\ fresh' = {} /\ buzFlag' = 0
  BY DEF StartCycle, First, Outward
<1>3. PositionInv' /\ MeasuredInv'
  BY <1>2 DEF PositionInv, MeasuredInv, LoopRange, Number, Aim, Base, Step
<1>4. AlarmInv' /\ NeverACommand' /\ LineInv'
  BY <1>2 DEF StartCycle, AlarmInv, NeverACommand, LineInv
<1> QED BY <1>1, <1>3, <1>4

LEMMA OthersKeep ==
  IInv /\ (Stop \/ RaiseLine \/ LowerLine \/ Send \/ Interrupt \/ UNCHANGED vars)
    => IInv'
<1> SUFFICES ASSUME IInv,
                    Stop \/ RaiseLine \/ LowerLine \/ Send \/ Interrupt
                      \/ UNCHANGED vars
             PROVE  IInv'
  OBVIOUS
<1> USE ScanAssumption
<1>1. /\ \/ phase' = phase
         \/ phase = "start" /\ phase' = "ended"
      /\ loop' = loop /\ i' = i /\ pwm' = pwm /\ r' = r /\ warnVal' = warnVal
      /\ angle' = angle /\ fresh' = fresh /\ buzFlag' = buzFlag
      /\ dataBuf' = dataBuf /\ warnData' = warnData /\ reported' = reported
  BY DEF Stop, RaiseLine, LowerLine, Send, Interrupt, vars, scan
<1>2. warnLine' \in 10 .. LineMax /\ warnLine' % 10 = 0
  <2>1. warnLine \in 10 .. LineMax /\ warnLine % 10 = 0
    BY DEF IInv, TypeOK, LineInv
  <2>2. CASE RaiseLine
    BY <2>1, <2>2 DEF RaiseLine
  <2>3. CASE LowerLine
    BY <2>1, <2>3 DEF LowerLine
  <2>4. CASE ~RaiseLine /\ ~LowerLine
    BY <2>1, <2>4 DEF Stop, Send, Interrupt, vars
  <2> QED BY <2>2, <2>3, <2>4
<1>3. sendFlag' \in {0, 1} /\ quit' \in BOOLEAN
  BY DEF IInv, TypeOK, Stop, RaiseLine, LowerLine, Send, Interrupt, vars
<1>4. TypeOK'
  BY <1>1, <1>2, <1>3 DEF IInv, TypeOK
<1>5. PositionInv' /\ MeasuredInv' /\ AlarmInv'
  BY <1>1 DEF IInv, PositionInv, MeasuredInv, AlarmInv
<1>6. NeverACommand'
  BY <1>1 DEF IInv, NeverACommand
<1>7. LineInv'
  <2>1. warnData = warnVal
    BY DEF IInv, LineInv
  <2> QED BY <1>1, <1>2, <2>1 DEF LineInv
<1> QED BY <1>4, <1>5, <1>6, <1>7 DEF IInv

LEMMA Inductive == IInv /\ [Next]_vars => IInv'
BY MeasureKeeps, ReportKeeps, StartKeeps, OthersKeep DEF Next, Radar

(* The invariant of the sweep, for every Q. *)
THEOREM Invariance == Spec => []IInv
BY Initial, Inductive, PTL DEF Spec

(* Every variable keeps its type: the distances fit their cells, and the   *)
(* warning distance never leaves 10 .. LineMax.                            *)
THEOREM TypeCorrect == Spec => []TypeOK
<1>1. IInv => TypeOK
  BY DEF IInv
<1> QED BY Invariance, <1>1, PTL

(* The cell expressions of the eight loops agree with the servo.           *)
THEOREM StoredRight == Spec => []StoredWhereMeasured
<1>1. IInv => StoredWhereMeasured
  <2> SUFFICES ASSUME IInv PROVE StoredWhereMeasured
    OBVIOUS
  <2>1. phase = "measure" => Cell(loop, i) \in Cells
    BY CellOfNumber DEF IInv, TypeOK, PositionInv
  <2> QED BY <2>1 DEF IInv, MeasuredInv, StoredWhereMeasured
<1> QED BY Invariance, <1>1, PTL

(* Half a cycle out reports 4Q + 1 new distances, none of an older cycle.  *)
THEOREM OutwardFrame == Spec => []OutwardComplete
<1>1. IInv => OutwardComplete
  BY DEF IInv, MeasuredInv, OutwardComplete
<1> QED BY Invariance, <1>1, PTL

(* It is reported exactly when a distance in it is below the warning       *)
(* distance.                                                               *)
THEOREM AlarmMeansNear == Spec => []AlarmIsInFrame
<1>1. IInv => AlarmIsInFrame
  BY DEF IInv, MeasuredInv, AlarmInv, AlarmIsInFrame
<1> QED BY Invariance, <1>1, PTL

(* No frame can be taken for a command. *)
THEOREM FrameIsNoCommand == Spec => []NeverACommand
<1>1. IInv => NeverACommand
  BY DEF IInv
<1> QED BY Invariance, <1>1, PTL

(* The servo stays within its pulses. *)
THEOREM ServoBounded == Spec => []ServoInRange
<1>1. IInv => ServoInRange
  <2> SUFFICES ASSUME IInv PROVE ServoInRange
    OBVIOUS
  <2> USE ScanAssumption DEF Aim, Base, Step, Park, ServoInRange
  <2>1. CASE phase = "measure"
    <3>1. Number(loop, i) \in 0 .. 4 * Q /\ pwm = Aim(loop, Number(loop, i))
      BY <2>1, CellOfNumber DEF IInv, TypeOK, PositionInv
    <3> QED BY <3>1
  <2>2. CASE phase = "report"
    BY <2>2 DEF IInv, PositionInv
  <2>3. CASE phase \in {"start", "ended"}
    BY <2>3 DEF IInv, PositionInv
  <2> QED BY <2>1, <2>2, <2>3 DEF IInv, TypeOK
<1> QED BY Invariance, <1>1, PTL

(* The servo is moved one step at a time, also from one cycle to the next. *)
THEOREM ServoSmooth == Spec => ServoNeverJumps
<1>1. IInv /\ [Next]_vars => [pwm' - pwm \in -Step .. Step]_pwm
  <2> SUFFICES ASSUME IInv, Next PROVE pwm' = pwm \/ pwm' - pwm \in -Step .. Step
    BY DEF vars, scan
  <2>1. pwm \in Nat
    BY DEF IInv, TypeOK
  <2>2. CASE StartCycle
    BY <2>2 DEF IInv, PositionInv, StartCycle, Base, Park, Step
  <2>3. CASE Measure
    BY <2>1, <2>3 DEF Measure, Turned, Step
  <2>4. CASE ~StartCycle /\ ~Measure
    BY <2>4 DEF Next, Radar, Report, Stop, RaiseLine, LowerLine, Send, Interrupt, scan
  <2> QED BY <2>2, <2>3, <2>4
<1> QED BY Invariance, <1>1, PTL DEF Spec, ServoNeverJumps

(* A frame that is not overtaken by the next cycle is sent with its own    *)
(* warning distance.                                                       *)
THEOREM LineOfFrame == Spec => []SentWithItsLine
<1> DEFINE Sent == sendFlag = 1 => reported \in {warnVal, Overtaken}
<1>1. Init => Sent
  BY DEF Init
<1>2. IInv /\ Sent /\ [Next]_vars => Sent'
  BY DEF Next, Radar, StartCycle, Measure, Report, Stop, RaiseLine, LowerLine,
     Send, Interrupt, vars, scan
<1>3. IInv /\ Sent => SentWithItsLine
  BY DEF IInv, LineInv, SentWithItsLine
<1> QED BY Invariance, <1>1, <1>2, <1>3, PTL DEF Spec
=============================================================================
