------------------------- MODULE RadarPanelProofs --------------------------
(***************************************************************************)
(* Proofs about the control panel: its types and limits and its LCD under  *)
(* any timing, its buttons for a patient person; for all limits.           *)
(***************************************************************************)
EXTENDS RadarPanel, TLAPS

(* The types, by part. *)
TouchTypes ==
  /\ tX \in Buttons \cup {"gap"} /\ tY \in {"band", "below"} /\ deep \in {0, 1}
  /\ finger \in {"up", "landing", "down"} /\ misread \in BOOLEAN
  /\ switch \in {"none", "up", "down", "exit"}

ControlTypes ==
  /\ panel \in {"setup", "scan", "pulse", "deep", "press", "hold", "release", "ended"}
  /\ semaphore \in {0, 1} /\ painter \in {"next", "await", "write"}
  /\ upDownFlag \in {0, 1} /\ due \in Buttons \cup {"none", "stray"}

SettingTypes ==
  /\ mute \in {0, 1} /\ bright \in Levels
  /\ warnLine \in 10 .. LineMax /\ upDownPwm \in PwmMin .. PwmMax

PictureTypes ==
  /\ dark \subseteq Buttons /\ muteDrawn \in {0, 1}
  /\ lcd \in (0 .. LineMax) \X {0, 1}

(* The settings move in steps that divide their limits, so that they       *)
(* cannot step over them.                                                  *)
InSteps == warnLine % 10 = 0 /\ upDownPwm % 50 = 0

IInv == /\ TouchTypes /\ ControlTypes /\ SettingTypes /\ PictureTypes
        /\ InSteps /\ LcdIsCurrent

LEMMA Initial == Init => IInv
<1> SUFFICES ASSUME Init PROVE IInv
  OBVIOUS
<1>1. TouchTypes /\ ControlTypes
  BY DEF Init, TouchTypes, ControlTypes
<1>2. SettingTypes /\ InSteps
  BY PanelAssumption DEF Init, SettingTypes, InSteps, Levels
<1>3. PictureTypes /\ LcdIsCurrent
  BY PanelAssumption DEF Init, PictureTypes, LcdIsCurrent
<1> QED BY <1>1, <1>2, <1>3 DEF IInv

LEMMA TouchTypesKept == TouchTypes /\ [Next]_vars => TouchTypes'
<1> SUFFICES ASSUME TouchTypes, [Next]_vars PROVE TouchTypes'
  OBVIOUS
<1> USE PanelAssumption DEF TouchTypes
<1>1. CASE Person
  <2>1. Columns \subseteq Buttons \cup {"gap"}
    BY DEF Columns
  <2>2. CASE Misread
    BY <2>1, <2>2 DEF Misread
  <2> QED BY <1>1, <2>1, <2>2 DEF Person, Touch, TouchY, Move, Release, Switch
<1>2. CASE Panel \/ Painter \/ UNCHANGED vars
  BY <1>2 DEF Panel, Setup, ScanSwitches, EndPulse, LookDeep, Press, Hold, Lift,
     Painter, BeginPixel, AwaitSemaphore, MiddleLine, WritePixel, vars, user
<1> QED BY <1>1, <1>2 DEF Next

LEMMA ControlTypesKept ==
  TouchTypes /\ ControlTypes /\ [Next]_vars => ControlTypes'
<1> SUFFICES ASSUME TouchTypes, ControlTypes, [Next]_vars PROVE ControlTypes'
  OBVIOUS
<1> USE DEF ControlTypes
<1>1. CASE Person
  BY <1>1 DEF TouchTypes, Person, Touch, TouchY, Move, Release, Misread, Switch
<1>2. CASE Setup \/ ScanSwitches \/ EndPulse \/ LookDeep \/ Hold
  BY <1>2 DEF Setup, ScanSwitches, EndPulse, LookDeep, Hold
<1>3. CASE Press
  BY <1>3 DEF Press, Done
<1>4. CASE Lift
  BY <1>4 DEF Lift, Done
<1>5. CASE Painter \/ UNCHANGED vars
  BY <1>5 DEF Painter, BeginPixel, AwaitSemaphore, MiddleLine, WritePixel, vars
<1> QED BY <1>1, <1>2, <1>3, <1>4, <1>5 DEF Next, Panel

LEMMA SettingsKept ==
  SettingTypes /\ InSteps /\ [Next]_vars => SettingTypes' /\ InSteps'
<1> SUFFICES ASSUME SettingTypes, InSteps, [Next]_vars
             PROVE  SettingTypes' /\ InSteps'
  OBVIOUS
<1> USE PanelAssumption DEF SettingTypes, InSteps
<1>1. CASE ScanSwitches
  <2>1. upDownPwm' \in PwmMin .. PwmMax /\ upDownPwm' % 50 = 0
    BY <1>1, SMTT(60) DEF ScanSwitches, Pwm
  <2> QED BY <1>1, <2>1 DEF ScanSwitches, settings
<1>2. CASE Press
  BY <1>2 DEF Press
<1>3. CASE Lift
  <2>1. warnLine' \in 10 .. LineMax /\ warnLine' % 10 = 0
    BY <1>3 DEF Lift, Line
  <2>2. bright' \in Levels
    BY <1>3 DEF Lift, Light, Brighter, Dimmer, Levels
  <2> QED BY <1>3, <2>1, <2>2 DEF Lift
<1>4. CASE ~ScanSwitches /\ ~Press /\ ~Lift
  <2>1. UNCHANGED << settings, upDownPwm >>
    BY <1>4 DEF Next, Person, Touch, TouchY, Move, Release, Misread, Switch, Panel, Setup,
       EndPulse, LookDeep, Hold, Painter, BeginPixel, AwaitSemaphore, MiddleLine,
       WritePixel, vars
  <2> QED BY <2>1 DEF settings
<1> QED BY <1>1, <1>2, <1>3, <1>4

LEMMA PictureKept ==
  IInv /\ [Next]_vars => PictureTypes' /\ LcdIsCurrent'
<1> SUFFICES ASSUME IInv, [Next]_vars PROVE PictureTypes' /\ LcdIsCurrent'
  OBVIOUS
<1> USE PanelAssumption DEF PictureTypes, LcdIsCurrent
<1>1. TouchTypes /\ SettingTypes /\ PictureTypes /\ LcdIsCurrent
      /\ warnLine' \in 10 .. LineMax
  BY SettingsKept DEF IInv, SettingTypes
<1>2. CASE Setup
  BY <1>1, <1>2 DEF Setup, SettingTypes, settings
<1>3. CASE Press
  BY <1>1, <1>3 DEF Press, Touched, TouchTypes, SettingTypes
<1>4. CASE Lift
  BY <1>1, <1>4 DEF Lift, Touched, TouchTypes, SettingTypes
<1>5. CASE ~Setup /\ ~Press /\ ~Lift
  <2>1. UNCHANGED << picture, settings >>
    BY <1>5 DEF Next, Person, Touch, TouchY, Move, Release, Misread, Switch, Panel,
       ScanSwitches, EndPulse, LookDeep, Hold, Painter, BeginPixel, AwaitSemaphore,
       MiddleLine, WritePixel, vars
  <2>2. panel' = panel \/ panel \in {"scan", "pulse", "deep", "hold"}
    BY <1>5 DEF Next, Person, Touch, TouchY, Move, Release, Misread, Switch, Panel,
       ScanSwitches, EndPulse, LookDeep, Hold, Painter, BeginPixel, AwaitSemaphore,
       MiddleLine, WritePixel, vars
  <2>3. panel = "hold" => panel' \in {"hold", "release"}
    BY <1>5 DEF Next, Person, Touch, TouchY, Move, Release, Misread, Switch, Panel,
       ScanSwitches, EndPulse, LookDeep, Hold, Painter, BeginPixel, AwaitSemaphore,
       MiddleLine, WritePixel, vars
  <2> QED BY <1>1, <2>1, <2>2, <2>3 DEF picture, settings
<1> QED BY <1>2, <1>3, <1>4, <1>5

LEMMA Inductive == IInv /\ [Next]_vars => IInv'
BY TouchTypesKept, ControlTypesKept, SettingsKept, PictureKept DEF IInv

(* The invariant that needs no assumption on the person's timing. *)
THEOREM Invariance == Spec => []IInv
BY Initial, Inductive, PTL DEF Spec

(* Types and limits of the panel's settings, whatever the limits are.      *)
THEOREM TypeCorrect == Spec => []TypeOK
<1>1. IInv => TypeOK
  BY DEF IInv, TouchTypes, ControlTypes, SettingTypes, PictureTypes, TypeOK
<1> QED BY Invariance, <1>1, PTL

(* The LCD shows the settings whenever no touch is being handled. *)
THEOREM LcdCurrent == Spec => []LcdIsCurrent
<1>1. IInv => LcdIsCurrent
  BY DEF IInv
<1> QED BY Invariance, <1>1, PTL

-----------------------------------------------------------------------------
(* A patient person, and no event misread.  Where the finger is while the  *)
(* panel handles a touch, and what the touch still owes.                   *)
Owed == IF Touched = "gap" THEN "none" ELSE Touched
OwedAfterPress == IF Touched \in {"gap", "mute"} THEN "none" ELSE Touched

FingerInv ==
  /\ panel = "setup" => finger = "up"
  /\ panel \notin {"press", "hold", "release"} =>
       IF finger = "down" THEN due = Owed ELSE deep = 0 /\ due = "none"
  /\ panel = "press" => finger = "down" /\ deep = 1 /\ due = Owed
  /\ panel = "hold" => /\ finger \in {"up", "down"}
                       /\ (finger = "down" <=> deep = 1)
                       /\ due = OwedAfterPress
  /\ panel = "release" => finger = "up" /\ deep = 0 /\ due = OwedAfterPress

DrawnInv ==
  /\ panel # "setup" /\ panel \notin {"hold", "release"} =>
       dark = {} /\ muteDrawn = mute
  /\ panel \in {"hold", "release"} =>
       /\ dark = {Touched} \ {"gap"}
       /\ Touched # "mute" => muteDrawn = mute

PatientInv == IInv /\ FingerInv /\ DrawnInv

LEMMA PatientInitial == Init => FingerInv /\ DrawnInv
BY DEF Init, FingerInv, DrawnInv

LEMMA PatienceFixed == [Next]_vars => patient' = patient /\ (misread => misread')
BY DEF Next, Person, Panel, Painter, Touch, TouchY, Move, Release, Misread, Switch, Setup,
   ScanSwitches, EndPulse, LookDeep, Press, Hold, Lift, BeginPixel, AwaitSemaphore,
   MiddleLine, WritePixel, vars, user

LEMMA PatientStep ==
  ASSUME patient, ~misread, ~misread', PatientInv, [Next]_vars
  PROVE  FingerInv' /\ DrawnInv'
<1>1. TouchTypes /\ ControlTypes /\ FingerInv /\ DrawnInv /\ mute \in {0, 1}
  BY DEF PatientInv, IInv, SettingTypes
<1> USE DEF FingerInv, DrawnInv, Owed, OwedAfterPress, Touched, MayTouch, MayLift
<1>2. CASE Touch
  BY <1>1, <1>2 DEF Touch, picture, settings
<1>3. CASE TouchY
  BY <1>1, <1>3 DEF TouchY, picture, settings, TouchTypes
<1>4. CASE Move
  BY <1>1, <1>4 DEF Move, picture, settings
<1>5. CASE Release
  BY <1>1, <1>5 DEF Release, picture, settings
<1>6. CASE Switch
  BY <1>1, <1>6 DEF Switch, picture, settings
<1>7. CASE Setup
  BY <1>1, <1>7 DEF Setup, user, settings
<1>8. CASE ScanSwitches
  BY <1>1, <1>8 DEF ScanSwitches, user, picture, settings
<1>9. CASE EndPulse
  BY <1>1, <1>9 DEF EndPulse, user, picture, settings
<1>10. CASE LookDeep
  BY <1>1, <1>10 DEF LookDeep, user, picture, settings, TouchTypes
<1>11. CASE Press
  BY <1>1, <1>11 DEF Press, user, TouchTypes, Done, Buttons
<1>12. CASE Hold
  BY <1>1, <1>12 DEF Hold, user, picture, settings, TouchTypes
<1>13. CASE Lift
  <2>1. due' = "none"
    BY <1>1, <1>13 DEF Lift, TouchTypes, Done, Buttons
  <2>2. dark' = {} /\ muteDrawn' = mute /\ mute' = mute
    BY <1>1, <1>13 DEF Lift, TouchTypes
  <2>3. panel' = "scan" /\ finger' = "up" /\ deep' = 0
    BY <1>1, <1>13 DEF Lift, user
  <2> QED BY <2>1, <2>2, <2>3
<1>14. CASE Painter \/ UNCHANGED vars
  BY <1>1, <1>14 DEF Painter, BeginPixel, AwaitSemaphore, MiddleLine, WritePixel, vars, user,
     picture, settings
<1>15. ~Misread
  BY DEF Misread
<1> QED BY <1>2, <1>3, <1>4, <1>5, <1>6, <1>7, <1>8, <1>9, <1>10, <1>11, <1>12,
           <1>13, <1>14, <1>15 DEF Next, Person, Panel

Patience == IInv /\ (patient /\ ~misread => FingerInv /\ DrawnInv)

LEMMA PatienceInvariance == Spec => []Patience
<1>1. Init => Patience
  BY Initial, PatientInitial DEF Patience
<1>2. Patience /\ [Next]_vars => Patience'
  BY PatientStep, PatienceFixed, Inductive DEF Patience, PatientInv
<1> QED BY <1>1, <1>2, PTL DEF Spec

(* As long as nothing is misread, each touch of a patient person acts      *)
(* exactly once, on its own button.                                        *)
THEOREM TouchOnce == Spec => []TouchActsOnce
<1>1. Patience => TouchActsOnce
  BY DEF Patience, IInv, TouchTypes, ControlTypes, FingerInv, TouchActsOnce,
     Owed, OwedAfterPress, Touched, Buttons
<1> QED BY PatienceInvariance, <1>1, PTL

(* And leaves the picture of the buttons as it should be. *)
THEOREM PictureClean == Spec => []PictureSettled
<1>1. Patience => PictureSettled
  BY DEF Patience, DrawnInv, PictureSettled
<1> QED BY PatienceInvariance, <1>1, PTL
=============================================================================
