----------------------------- MODULE RadarPanel -----------------------------
(***************************************************************************)
(* The control panel of the radar client: fpga_process of GAM-Z_client.c   *)
(* with set_process, which reports the touch screen to it, the person at   *)
(* the panel, and the lock that the painting in radar_process shares.      *)
(*                                                                         *)
(* set_process only writes where the last touch began (t_x, t_y) and       *)
(* whether a finger is moving on the screen (deep).  The panel polls: it   *)
(* draws the touched button dark, waits until deep is 0, and then acts on  *)
(* whatever t_x and t_y say by that time.                                  *)
(*                                                                         *)
(* The buzzer, which the panel sounds for buz_flag, is left out: nothing   *)
(* here depends on it.  RadarLink has the end of the client.               *)
(***************************************************************************)
EXTENDS Integers

CONSTANTS LineMax,         \* largest warning distance (250 in the code)
          PwmMin, PwmMax,  \* limits of up_down_pwm (1400 and 2200)
          Touchable,       \* bound: the buttons a patient finger comes down on
          Hasty            \* bound: those an impatient one comes down on

Buttons == {"bright", "dim", "mute", "raise", "lower"}

ASSUME PanelAssumption ==
  /\ LineMax \in Nat /\ LineMax >= 20 /\ LineMax % 10 = 0
  /\ PwmMin \in 0 .. 1600 /\ PwmMin % 50 = 0
  /\ PwmMax \in Nat /\ PwmMax >= 1600 /\ PwmMax % 50 = 0
  /\ Touchable \subseteq Buttons /\ Hasty \subseteq Buttons

Levels == {10, 20, 40, 60, 80, 100}

VARIABLES
  tX, tY,      \* t_x: the column of a button, or "gap"; t_y: in "band" or "below"
  deep,        \* deep
  finger,      \* "up", "landing" (t_x is written, t_y not yet) or "down"
  switch,      \* the push switch that is held
  panel,       \* where fpga_process stands
  semaphore,   \* semaphore
  mute, bright,
  warnLine,    \* warn_line
  upDownPwm, upDownFlag,
  dark,        \* the buttons drawn dark
  muteDrawn,   \* the sign drawn on the mute button
  lcd,         \* what the text LCD shows
  painter,     \* where radar_process stands with a pixel
  (* What follows is not in the code. *)
  patient,     \* whether the person waits (MayTouch, MayLift); never changed
  misread,     \* whether set_process took an event for something else
  due          \* the touched button that has not acted, "none", or "stray"
               \* after a button acted that was not due; "none" once misread

user == << tX, tY, deep, finger, switch, patient, misread >>
settings == << mute, bright, warnLine >>
picture == << dark, muteDrawn, lcd >>
vars == << user, panel, semaphore, settings, upDownPwm, upDownFlag, picture,
           painter, due >>

Init ==
  /\ tX = "gap" /\ tY = "band" /\ deep = 0 /\ finger = "up" /\ switch = "none"
  /\ panel = "setup" /\ semaphore = 1 /\ painter = "next"
  /\ mute = 0 /\ bright = 100 /\ warnLine = 20
  /\ upDownPwm = 1600 /\ upDownFlag = 1
  /\ dark = {} /\ muteDrawn = 0 /\ lcd = << 0, 0 >>
  /\ due = "none" /\ patient \in BOOLEAN /\ misread = FALSE

-----------------------------------------------------------------------------
(* The person and set_process.  patient: the finger comes down only when   *)
(* the panel has dealt with the last touch, moves, and leaves the screen   *)
(* only when the panel has seen it.  The code does not make anybody wait.  *)
(*                                                                         *)
(* set_process reads three input events at a time, fewer if no more are    *)
(* there, and compares the three types in its buffer with the patterns of  *)
(* a touch that begins, moves or ends.  Touch, Move and Release are what   *)
(* happens when the right pattern is seen, Misread when it is not: what    *)
(* was read together then matches another pattern, or none.                *)

Columns == {"gap"} \cup IF patient THEN Touchable ELSE Hasty
MayTouch == patient => panel = "scan" /\ deep = 0
MayLift == patient => panel = "hold"

Touch ==
  /\ finger = "up" /\ MayTouch
  /\ tX' \in Columns
  /\ finger' = "landing"
  /\ UNCHANGED << patient, misread, tY, deep, switch, panel, semaphore, settings,
                  upDownPwm, upDownFlag, picture, painter, due >>

TouchY ==
  /\ finger = "landing"
  /\ tY' \in {"band", "below"}
  /\ finger' = "down"
  /\ due' = IF tY' = "band" /\ tX # "gap" /\ ~misread THEN tX ELSE "none"
  /\ UNCHANGED << patient, misread, tX, deep, switch, panel, semaphore, settings,
                  upDownPwm, upDownFlag, picture, painter >>

Move ==
  /\ finger = "down" /\ deep = 0
  /\ deep' = 1
  /\ UNCHANGED << patient, misread, tX, tY, finger, switch, panel, semaphore, settings,
                  upDownPwm, upDownFlag, picture, painter, due >>

Release ==
  /\ finger = "down" /\ MayLift
  /\ deep' = 0 /\ finger' = "up"
  /\ UNCHANGED << patient, misread, tX, tY, switch, panel, semaphore, settings,
                  upDownPwm, upDownFlag, picture, painter, due >>

Misread ==
  /\ \/ finger = "up" /\ MayTouch /\ finger' = "down"
     \/ finger = "down" /\ finger' = "down"
     \/ finger = "down" /\ MayLift /\ finger' = "up"
  /\ \/ deep' \in {0, 1} /\ UNCHANGED << tX, tY >>
     \/ tX' \in Columns /\ tY' \in {"band", "below"} /\ deep' = deep
  /\ misread' = TRUE /\ due' = "none"
  /\ UNCHANGED << patient, switch, panel, semaphore, settings, upDownPwm,
                  upDownFlag, picture, painter >>

Switch ==
  /\ switch' \in {"none", "up", "down", "exit"} \ {switch}
  /\ UNCHANGED << patient, misread, tX, tY, deep, finger, panel, semaphore, settings,
                  upDownPwm, upDownFlag, picture, painter, due >>

-----------------------------------------------------------------------------
(* The panel.  As in RadarServer, Op_Bug is Op with a plausible bug.       *)

(* The buttons are drawn, the LCD is written, and up_down_flag, which main *)
(* has set, is cleared.                                                    *)
Setup ==
  /\ panel = "setup"
  /\ semaphore' = 0 /\ upDownFlag' = 0
  /\ dark' = {} /\ muteDrawn' = mute /\ lcd' = << warnLine, mute >>
  /\ panel' = "scan"
  /\ UNCHANGED << user, settings, upDownPwm, painter, due >>

(* up_down_flag is 1 for 50 ms after one of the two switches. *)
Pwm ==
  CASE switch = "up"   -> IF upDownPwm < PwmMax THEN upDownPwm + 50 ELSE upDownPwm
    [] switch = "down" -> IF upDownPwm > PwmMin THEN upDownPwm - 50 ELSE upDownPwm
    [] OTHER           -> upDownPwm

ScanSwitches ==
  /\ panel = "scan"
  /\ upDownPwm' = Pwm
  /\ upDownFlag' = IF switch \in {"up", "down"} THEN 1 ELSE upDownFlag
  /\ panel' = CASE switch \in {"up", "down"} -> "pulse"
                [] switch = "exit"           -> "ended"
                [] OTHER                     -> "deep"
  /\ UNCHANGED << user, semaphore, settings, picture, painter, due >>

EndPulse ==
  /\ panel = "pulse"
  /\ upDownFlag' = 0
  /\ panel' = "deep"
  /\ UNCHANGED << user, semaphore, settings, upDownPwm, picture, painter, due >>

LookDeep ==
  /\ panel = "deep"
  /\ IF deep = 1 THEN semaphore' = 1 /\ panel' = "press"
                 ELSE semaphore' = semaphore /\ panel' = "scan"
  /\ UNCHANGED << user, settings, upDownPwm, upDownFlag, picture, painter, due >>

Touched == IF tY = "band" THEN tX ELSE "gap"

(* A button has acted. *)
Done(b) == IF due = b \/ misread THEN "none" ELSE "stray"

(* The touched button turns dark; the mute button acts at once, and is     *)
(* drawn with its old sign.                                                *)
Press_KeepsLock ==
  /\ panel = "press"
  /\ dark' = IF Touched = "gap" THEN dark ELSE dark \cup {Touched}
  /\ IF Touched = "mute" THEN mute' = 1 - mute /\ due' = Done("mute")
                         ELSE UNCHANGED << mute, due >>
  /\ semaphore' = IF Touched = "gap" THEN 1 ELSE 0
  /\ panel' = IF Touched = "gap" THEN "press" ELSE "hold"
  /\ UNCHANGED << user, bright, warnLine, upDownPwm, upDownFlag, muteDrawn, lcd,
                  painter >>

Press ==
  /\ panel = "press"
  /\ dark' = IF Touched = "gap" THEN dark ELSE dark \cup {Touched}
  /\ muteDrawn' = IF Touched = "mute" THEN mute ELSE muteDrawn
  /\ IF Touched = "mute" THEN mute' = 1 - mute /\ due' = Done("mute")
                         ELSE UNCHANGED << mute, due >>
  /\ semaphore' = 0
  /\ panel' = "hold"
  /\ UNCHANGED << user, bright, warnLine, upDownPwm, upDownFlag, lcd, painter >>

(* The panel does nothing else, and does not look at its switches, until   *)
(* it sees deep cleared.                                                   *)
Hold_NoWait ==
  /\ panel = "hold"
  /\ semaphore' = 1
  /\ panel' = "release"
  /\ UNCHANGED << user, settings, upDownPwm, upDownFlag, picture, painter, due >>

Hold ==
  /\ panel = "hold" /\ deep = 0
  /\ semaphore' = 1
  /\ panel' = "release"
  /\ UNCHANGED << user, settings, upDownPwm, upDownFlag, picture, painter, due >>

Brighter(b) == CASE b = 100 -> 100 [] b = 10 -> 20 [] OTHER -> b + 20
Dimmer(b) == IF b \in {10, 20} THEN 10 ELSE b - 20

(* The settings after the button is released; the mute button has acted.   *)
Line ==
  CASE Touched = "raise" /\ warnLine < LineMax -> warnLine + 10
    [] Touched = "lower" /\ warnLine >= 20     -> warnLine - 10
    [] OTHER                                   -> warnLine

Light ==
  CASE Touched = "bright" -> Brighter(bright)
    [] Touched = "dim"    -> Dimmer(bright)
    [] OTHER              -> bright

(* The mute button is not drawn again. *)
Lift_OldSign ==
  /\ panel = "release"
  /\ warnLine' = Line /\ bright' = Light
  /\ due' = IF Touched \in {"gap", "mute"} THEN due ELSE Done(Touched)
  /\ dark' = dark \ {Touched}
  /\ muteDrawn' = muteDrawn
  /\ lcd' = << warnLine', mute >>
  /\ semaphore' = 0
  /\ panel' = "scan"
  /\ UNCHANGED << user, mute, upDownPwm, upDownFlag, painter >>

Lift ==
  /\ panel = "release"
  /\ warnLine' = Line /\ bright' = Light
  /\ due' = IF Touched \in {"gap", "mute"} THEN due ELSE Done(Touched)
  /\ dark' = dark \ {Touched}
  /\ muteDrawn' = IF Touched = "mute" THEN mute ELSE muteDrawn
  /\ lcd' = << warnLine', mute >>
  /\ semaphore' = 0
  /\ panel' = "scan"
  /\ UNCHANGED << user, mute, upDownPwm, upDownFlag, painter >>

-----------------------------------------------------------------------------
(* The painting in radar_process.  Each pixel waits for the semaphore      *)
(* before it is written, but those of the vertical middle line, which are  *)
(* not painted before the border of the half circle, and so after Setup.   *)

BeginPixel ==
  /\ painter = "next"
  /\ painter' = "await"
  /\ UNCHANGED << user, panel, semaphore, settings, upDownPwm, upDownFlag,
                  picture, due >>

AwaitSemaphore ==
  /\ painter = "await" /\ semaphore = 0
  /\ painter' = "write"
  /\ UNCHANGED << user, panel, semaphore, settings, upDownPwm, upDownFlag,
                  picture, due >>

MiddleLine ==
  /\ painter = "next" /\ panel # "setup"
  /\ painter' = "write"
  /\ UNCHANGED << user, panel, semaphore, settings, upDownPwm, upDownFlag,
                  picture, due >>

WritePixel ==
  /\ painter = "write"
  /\ painter' = "next"
  /\ UNCHANGED << user, panel, semaphore, settings, upDownPwm, upDownFlag,
                  picture, due >>

-----------------------------------------------------------------------------
Person == Touch \/ TouchY \/ Move \/ Release \/ Misread \/ Switch
Panel == Setup \/ ScanSwitches \/ EndPulse \/ LookDeep \/ Press \/ Hold \/ Lift
Painter == BeginPixel \/ AwaitSemaphore \/ MiddleLine \/ WritePixel
Next == Person \/ Panel \/ Painter

Spec == Init /\ [][Next]_vars

(* The processes are scheduled.  Nobody has to touch the screen, and no    *)
(* event has to be recognised.  The painter waits in a loop of loads,      *)
(* which does not miss the semaphore every time it is 0 for as long as a   *)
(* touch, or the scan of the switches, takes: strong fairness.             *)
FairSpec ==
  /\ Spec /\ WF_vars(Panel) /\ WF_vars(TouchY)
  /\ WF_vars(BeginPixel \/ WritePixel) /\ SF_vars(AwaitSemaphore)

-----------------------------------------------------------------------------
(* Types, with the limits of the three settings: each is kept only because *)
(* it starts at, and moves by, what divides its limits.                    *)
TypeOK ==
  /\ tX \in Buttons \cup {"gap"} /\ tY \in {"band", "below"} /\ deep \in {0, 1}
  /\ finger \in {"up", "landing", "down"}
  /\ switch \in {"none", "up", "down", "exit"}
  /\ panel \in {"setup", "scan", "pulse", "deep", "press", "hold", "release", "ended"}
  /\ semaphore \in {0, 1} /\ painter \in {"next", "await", "write"}
  /\ mute \in {0, 1} /\ bright \in Levels /\ warnLine \in 10 .. LineMax
  /\ upDownPwm \in PwmMin .. PwmMax /\ upDownFlag \in {0, 1}
  /\ dark \subseteq Buttons /\ muteDrawn \in {0, 1}
  /\ lcd \in (0 .. LineMax) \X {0, 1}
  /\ due \in Buttons \cup {"none", "stray"} /\ misread \in BOOLEAN

(* Outside a touch the LCD shows the settings, although mute changes when  *)
(* the finger comes down and the warning distance when it leaves.          *)
LcdIsCurrent ==
  panel \in {"scan", "pulse", "deep", "ended"} => lcd = << warnLine, mute >>

(* The panel's lock never stops the radar: a pixel that waits for the      *)
(* semaphore is painted at last, through drawings and touches of any       *)
(* number and timing, however they are read, and after exit.               *)
RadarGoesOn == painter = "await" ~> painter = "next"

(* With a patient person, as long as no event is misread, each touch acts  *)
(* once, on the button it began on.                                        *)
TouchActsOnce ==
  patient /\ ~misread =>
    /\ due # "stray"
    /\ finger = "up" /\ panel \in {"scan", "pulse", "deep", "ended"} => due = "none"

(* Under the same conditions the panel at rest shows all its buttons light *)
(* and the mute button with the sign of its state.                         *)
PictureSettled ==
  patient /\ ~misread /\ panel \in {"scan", "pulse", "ended"} =>
    dark = {} /\ muteDrawn = mute

(* The exit switch ends the client, as the comment in the client's main    *)
(* says: a patient person who holds it, with no finger on the screen, sees *)
(* the panel end.                                                          *)
ExitWorks ==
  (patient /\ switch = "exit")
    ~> (panel = "ended" \/ switch # "exit" \/ finger # "up")
=============================================================================
