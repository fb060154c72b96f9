----------------------------- MODULE ServoPulse -----------------------------
(***************************************************************************)
(* The two servos of the radar: pwm_right_left_process ("side") and        *)
(* pwm_updown_process ("tilt") of GAM-Z_client.c, which make the pulses on *)
(* a pin by sleeping, with what sets the widths: radar_process for the     *)
(* side servo, the push switches of fpga_process for the tilt servo.       *)
(*                                                                         *)
(* A period is a pulse of the width that is read at its beginning and a    *)
(* pause of 20000 microseconds less the width that is read at its end.     *)
(* The side servo gets pulses all the time, the tilt servo Pulses of them  *)
(* whenever its process sees up_down_flag, which a press holds up for 50   *)
(* ms.  Time passes in ticks; a pulse is shorter than a tick.              *)
(***************************************************************************)
EXTENDS Integers

CONSTANTS Turns,    \* steps of the side servo on its way out (61 in the code)
          Period,   \* ticks of a period (20 ms)
          Window,   \* ticks up_down_flag is up (50 ms)
          Gap,      \* ticks between two changes of side_pwm (140 ms)
          Pulses,   \* pulses of the tilt servo for a flag (200)
          TiltMin, TiltMax   \* limits of up_down_pwm (1400 and 2200)

ASSUME ServoAssumption ==
  /\ Turns \in Nat \ {0} /\ Pulses \in Nat \ {0}
  /\ Period \in Nat \ {0} /\ Window \in Nat /\ Window > 2 * Period
  /\ Gap \in Nat /\ Gap > Period
  /\ TiltMin \in 0 .. 1600 /\ TiltMax \in Nat /\ TiltMax >= 1600
  /\ TiltMin % 50 = 0 /\ TiltMax % 50 = 0

Servo == {"side", "tilt"}
Base == 480
Step == [s \in Servo |-> IF s = "side" THEN 30 ELSE 50]
Unset == 0          \* side_pwm in fresh shared memory

VARIABLES
  pwm,       \* side_pwm and up_down_pwm
  flag,      \* up_down_flag
  pc,        \* per process: "top" of its loop, "pulse", "pause", "ended"
  pin,       \* the two pins
  rest,      \* per process: ticks left of its pause
  count,     \* i of the tilt process
  quit,      \* quit, set by SIGINT in both processes
  radar,     \* radar_process: "boot", or the way the servo turns, "out" or "back"
  gap,       \* ticks until it turns the servo again
  press,     \* ticks left of the panel's usleep(50000)
  panel,     \* fpga_process: "draw" its buttons, then "loop"
  (* What follows is not in the code. *)
  used,      \* per servo: the width of its last pulse
  error,     \* per servo: by how much its last period differs from 20 ms
  answered   \* pulses the tilt servo has got since the press, up to 2

process == << pc, pin, rest, count, used, error >>
setters == << pwm, flag, radar, gap, press, panel >>
vars == << process, setters, quit, answered >>

(* main raises up_down_flag; it stays up until the panel has drawn its     *)
(* buttons, however long that takes.                                       *)
Init ==
  /\ pwm = [s \in Servo |-> IF s = "side" THEN Unset ELSE 1600]
  /\ flag = 1 /\ panel = "draw" /\ press = 0 /\ radar = "boot" /\ gap = 0
  /\ pc = [s \in Servo |-> "top"] /\ pin = [s \in Servo |-> 0]
  /\ rest = [s \in Servo |-> 0] /\ count = 0 /\ quit = FALSE
  /\ used = pwm /\ error = [s \in Servo |-> 0] /\ answered = 0

-----------------------------------------------------------------------------
(* The pulses.  An operator Op_Bug is Op with a bug the code might have    *)
(* had; no action uses it.                                                 *)

Wanted(s) == s = "tilt" => flag = 1

Raise(s) ==
  /\ pin' = [pin EXCEPT ![s] = 1] /\ pc' = [pc EXCEPT ![s] = "pulse"]
  /\ used' = [used EXCEPT ![s] = pwm[s]]
  /\ answered' = IF s = "tilt" /\ answered < 2 THEN answered + 1 ELSE answered

Begin(s) ==
  /\ pc[s] = "top" /\ ~quit /\ Wanted(s)
  /\ Raise(s)
  /\ count' = IF s = "tilt" THEN 1 ELSE count
  /\ UNCHANGED << rest, error, setters, quit >>

(* Quits between the two halves of a period. *)
Lower_OrQuit(s) ==
  /\ pc[s] = "pulse"
  /\ IF quit THEN /\ pc' = [pc EXCEPT ![s] = "ended"]
                  /\ UNCHANGED << pin, rest, error >>
             ELSE /\ pin' = [pin EXCEPT ![s] = 0]
                  /\ pc' = [pc EXCEPT ![s] = "pause"]
                  /\ rest' = [rest EXCEPT ![s] = Period]
                  /\ error' = [error EXCEPT ![s] = used[s] - pwm[s]]
  /\ UNCHANGED << count, used, setters, quit, answered >>

(* The width is read a second time.  A signal ends the sleeps early. *)
Lower(s) ==
  /\ pc[s] = "pulse"
  /\ pin' = [pin EXCEPT ![s] = 0] /\ pc' = [pc EXCEPT ![s] = "pause"]
  /\ rest' = [rest EXCEPT ![s] = Period]
  /\ error' = [error EXCEPT ![s] = used[s] - pwm[s]]
  /\ UNCHANGED << count, used, setters, quit, answered >>

(* The tilt process does not look at the flag, nor at quit, before it has  *)
(* made all its pulses.                                                    *)
More(s) ==
  /\ pc[s] = "pause" /\ rest[s] = 0
  /\ s = "tilt" /\ count < Pulses
  /\ Raise(s)
  /\ count' = count + 1
  /\ UNCHANGED << rest, error, setters, quit >>

Again(s) ==
  /\ pc[s] = "pause" /\ rest[s] = 0
  /\ s = "side" \/ count = Pulses
  /\ pc' = [pc EXCEPT ![s] = "top"]
  /\ UNCHANGED << pin, rest, count, used, error, setters, quit, answered >>

End(s) ==
  /\ pc[s] = "top" /\ quit
  /\ pc' = [pc EXCEPT ![s] = "ended"]
  /\ UNCHANGED << pin, rest, count, used, error, setters, quit, answered >>

-----------------------------------------------------------------------------
(* radar_process: the start, and the turns of 30 microseconds out and      *)
(* back.  What it sets absolutely at the start of a cycle is what it has   *)
(* come back to (see RadarScan).                                           *)

Boot ==
  /\ radar = "boot" /\ gap = 0
  /\ pwm' = [pwm EXCEPT !["side"] = IF @ = Unset THEN Base + 20 ELSE Base]
  /\ radar' = IF pwm["side"] = Unset THEN "boot" ELSE "out"
  /\ gap' = Gap
  /\ UNCHANGED << flag, press, panel, process, quit, answered >>

(* No reading of the sensor, and no usleep, between two turns. *)
Turn_AtOnce(by, to, next) ==
  /\ pwm' = [pwm EXCEPT !["side"] = @ + by]
  /\ radar' = IF pwm'["side"] = to THEN next ELSE radar
  /\ gap' = 0

Turn(by, to, next) ==
  /\ pwm' = [pwm EXCEPT !["side"] = @ + by]
  /\ radar' = IF pwm'["side"] = to THEN next ELSE radar
  /\ gap' = Gap

TurnOut ==
  /\ radar = "out" /\ gap = 0
  /\ Turn(Step["side"], Base + Turns * Step["side"], "back")
  /\ UNCHANGED << flag, press, panel, process, quit, answered >>

TurnBack ==
  /\ radar = "back" /\ gap = 0
  /\ Turn(-Step["side"], Base, "out")
  /\ UNCHANGED << flag, press, panel, process, quit, answered >>

-----------------------------------------------------------------------------
(* fpga_process: the two switches for the tilt. *)

(* The buttons are drawn, and the flag of the start is taken down. *)
DrawButtons ==
  /\ panel = "draw" /\ panel' = "loop"
  /\ flag' = 0
  /\ UNCHANGED << pwm, radar, gap, press, process, quit, answered >>

(* usleep(5000) for usleep(50000). *)
PressSwitch_Brief ==
  /\ panel = "loop" /\ press = 0 /\ flag = 0
  /\ \E up \in BOOLEAN :
       LET w == IF up THEN pwm["tilt"] + 50 ELSE pwm["tilt"] - 50
       IN  pwm' = [pwm EXCEPT !["tilt"] = IF w \in TiltMin .. TiltMax THEN w ELSE @]
  /\ flag' = 1 /\ press' = 1 /\ answered' = 0
  /\ UNCHANGED << panel, radar, gap, process, quit >>

(* At its limit the width stays as it is, but the flag is raised. *)
PressSwitch ==
  /\ panel = "loop" /\ press = 0 /\ flag = 0
  /\ \E up \in BOOLEAN :
       LET w == IF up THEN pwm["tilt"] + 50 ELSE pwm["tilt"] - 50
       IN  pwm' = [pwm EXCEPT !["tilt"] = IF w \in TiltMin .. TiltMax THEN w ELSE @]
  /\ flag' = 1 /\ press' = Window /\ answered' = 0
  /\ UNCHANGED << panel, radar, gap, process, quit >>

EndPress ==
  /\ panel = "loop" /\ flag = 1 /\ press = 0
  /\ flag' = 0
  /\ UNCHANGED << panel, pwm, radar, gap, press, process, quit, answered >>

-----------------------------------------------------------------------------
(* SIGINT, from the panel's exit or the terminal, ends every sleep. *)
Interrupt ==
  /\ ~quit /\ quit' = TRUE
  /\ rest' = [s \in Servo |-> 0]
  /\ UNCHANGED << pc, pin, count, used, error, setters, answered >>

(* A tick passes when everybody sleeps, or waits for a flag or a press. *)
Asleep(s) ==
  \/ pc[s] = "pause" /\ rest[s] > 0
  \/ pc[s] = "top" /\ ~quit /\ ~Wanted(s)
  \/ pc[s] = "ended"

Tick ==
  /\ \A s \in Servo : Asleep(s)
  /\ panel = "loop" /\ flag = 1 => press > 0
  /\ radar = "boot" \/ gap > 0 \/ quit
  /\ rest' = [s \in Servo |-> IF rest[s] > 0 THEN rest[s] - 1 ELSE 0]
  /\ gap' = IF gap > 0 THEN gap - 1 ELSE 0
  /\ press' = IF press > 0 THEN press - 1 ELSE 0
  /\ UNCHANGED << pc, pin, count, used, error, pwm, flag, panel, radar, quit, answered >>

-----------------------------------------------------------------------------
Pulse(s) == Begin(s) \/ Lower(s) \/ More(s) \/ Again(s) \/ End(s)
Radar == Boot \/ TurnOut \/ TurnBack
Panel == DrawButtons \/ PressSwitch \/ EndPress
Next == (\E s \in Servo : Pulse(s)) \/ Radar \/ Panel \/ Interrupt \/ Tick

Spec == Init /\ [][Next]_vars

-----------------------------------------------------------------------------
(* Types, with the limits of the widths: the side servo gets no pulse      *)
(* outside 480 .. 2310 microseconds but the first ones, before the radar   *)
(* has set side_pwm.                                                       *)
Width(s) == IF s = "side" THEN {Unset} \cup Base .. Base + Turns * Step[s]
                          ELSE TiltMin .. TiltMax
TypeOK ==
  /\ \A s \in Servo : pwm[s] \in Width(s) /\ used[s] \in Width(s)
  /\ panel \in {"draw", "loop"}
  /\ flag \in {0, 1} /\ press \in 0 .. Window /\ gap \in 0 .. Gap
  /\ pc \in [Servo -> {"top", "pulse", "pause", "ended"}]
  /\ pin \in [Servo -> {0, 1}] /\ rest \in [Servo -> 0 .. Period]
  /\ count \in 0 .. Pulses /\ quit \in BOOLEAN
  /\ radar \in {"boot", "out", "back"}
  /\ error \in [Servo -> Int] /\ answered \in 0 .. 2

(* A process that has ended has left its pin low: no servo is held by a    *)
(* pulse that does not end.                                                *)
EndsLow == \A s \in Servo : pc[s] = "ended" => pin[s] = 0

(* Although the width is read twice in a period, the period is 20 ms up to *)
(* one step of the width: the setters never change it twice in between.    *)
PeriodKept ==
  \A s \in Servo : (used[s] # Unset /\ pc[s] # "pulse")
                     => error[s] \in -Step[s] .. Step[s]

(* A press of a switch is not lost, even though the tilt process looks at  *)
(* the flag only between two series of pulses: when the flag is taken      *)
(* down, two pulses of the new width have been made, or the client ends.   *)
PressAnswered ==
  [][panel = "loop" /\ flag = 1 /\ flag' = 0 => answered = 2 \/ quit]_vars

=============================================================================
