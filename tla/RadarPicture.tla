---------------------------- MODULE RadarPicture ----------------------------
(***************************************************************************)
(* What one pixel of the half disc shows: on the client, whose             *)
(* radar_process paints it in eight loops over the sectors while the servo *)
(* turns out and back, and on the server, whose make_radar paints the      *)
(* frame the client reports.  x counts from the middle, y from the bottom; *)
(* a distance of 1 cm is 2 pixels.  "swath" is what is in reach and no      *)
(* alarm: green, and blue on the client's way back.                        *)
(*                                                                         *)
(* A step is a whole loop of the code, and a cycle is followed from        *)
(* whatever the two screens held before it.                                *)
(***************************************************************************)
EXTENDS Integers, Sequences, FiniteSetsExt

CONSTANTS Pixels,    \* pixels looked at, << x, y >>
          Warns,     \* warning distances
          Scenes     \* what there may be to see: a distance for each beam

(* The buttons change the warning distance by 10 (RadarPanel, InSteps). *)
ASSUME PictureAssumption ==
  /\ Pixels \subseteq (-512 .. 511) \X (0 .. 599)
  /\ Warns \subseteq {10 * n : n \in 1 .. 25}
  /\ Scenes \subseteq [0 .. 61 -> 0 .. 250]

Colour == {"black", "white", "yellow", "red", "swath"}
Beam == 0 .. 60

(* The tangents of 0, 3, ..., 45 degrees, times 10000. *)
TanList == << 524, 1051, 1583, 2125, 2679, 3249, 3838, 4452, 5095, 5773, 6494,
              7265, 8097, 9004, 10000 >>
Tan(i) == IF i = 0 THEN 0 ELSE TanList[i]

VARIABLES
  pixel,    \* the one looked at
  step,     \* the place in Cycle of the next step
  ring,     \* temp_warn: the radius of the warning circle, inside
  warn,     \* warn_val
  sight,    \* the scene of this way
  r,        \* the distances measured, in pixels
  buz,      \* buz_flag
  colour,   \* the pixel on the client
  frame,    \* data_buf, as reported
  screen,   \* the pixel on the server
  row       \* what make_radar drew of the last way: "none" was reported, it is
            \* "due", it was "live", or "parsed" from the history

pictureVars ==
  << pixel, step, ring, warn, sight, r, buz, colour, frame, screen, row >>

-----------------------------------------------------------------------------
(* Geometry.                                                               *)

X == pixel[1]
Y == pixel[2]
Away == IF X < 0 THEN -X ELSE X
Square == X * X + Y * Y
Within(a) == Square <= a * a
Between(a, b) == Within(b) /\ ~Within(a)
InDisc == Within(500)
OnBorder == InDisc = FALSE /\ Square <= 260000

OnLine == \/ Y >= 2 * Away - 1 /\ Y <= 2 * Away + 1
          \/ 2 * Y >= Away - 2 /\ 2 * Y <= Away + 2
OnCircle == \E a \in {100, 200, 300, 400} : Between(a, a + 3)

(* The four groups of sectors: right or left, flat or steep. *)
Right(g) == g \in {"right flat", "right steep"}
Flat(g) == g \in {"right flat", "left flat"}

(* The columns and rows of a group; low is its lowest row. *)
InGroup(g, low) ==
  /\ IF Right(g) THEN X \in 1 .. 500 ELSE X < 0
  /\ Y \in low .. 499

Slope(g) == IF Flat(g) THEN (Y * 10000) \div Away ELSE (Away * 10000) \div Y

(* The slope is cut to an integer below. *)
Covers_Strict(g, i) == IF i = 0 THEN Slope(g) <= Tan(0)
                       ELSE Slope(g) < Tan(i) /\ Slope(g) > Tan(i - 1)

Covers(g, i) == IF i = 0 THEN Slope(g) <= Tan(0)
                ELSE Slope(g) <= Tan(i) /\ Slope(g) >= Tan(i - 1)

(* Sector i, at whose angle seen was measured, paints the pixel, and what. *)
Touches(g, i, circle, seen) ==
  \/ Between(circle, circle + 10)
  \/ OnLine /\ InDisc
  \/ ~OnLine /\ (OnCircle \/ (Covers(g, i) /\ (InDisc \/ Within(2 * seen))))

Shade(circle, limit, seen) ==
  IF Between(circle, circle + 10) THEN "yellow"
  ELSE IF OnLine \/ OnCircle THEN "white"
  ELSE IF ~Within(2 * seen) THEN "black"
  ELSE IF seen < limit THEN "red" ELSE "swath"

(* A loop over the sectors of a group: the last one that paints the pixel  *)
(* decides.  seen tells the distance of each turn of the loop.             *)
Loop(g, order, circle, limit, seen, old) ==
  LET touched == {n \in DOMAIN order : Touches(g, order[n], circle, seen[n])}
  IN IF touched = {} THEN old ELSE Shade(circle, limit, seen[Max(touched)])

Up(a, b) == [n \in 1 .. b - a + 1 |-> a + n - 1]
Down(a, b) == [n \in 1 .. a - b + 1 |-> a - n + 1]

(* The sectors of a group in the order of the way out and of the way back. *)
Out(g) == IF g = "right flat" THEN Up(0, 15)
          ELSE IF g = "left steep" THEN Up(1, 15) ELSE Down(15, 1)
Back(g) == IF g = "left flat" THEN Up(0, 15)
           ELSE IF g = "right steep" THEN Up(1, 15) ELSE Down(15, 1)

(* The beam a sector sees along, which is its place in r on the way out.   *)
(* When the servo turns back it is one step on: beam 61, for the sector 0  *)
(* of the left flat loop, which shows nowhere.                             *)
BeamOf(g, i) == IF Right(g) THEN IF Flat(g) THEN i ELSE 31 - i
                            ELSE IF Flat(g) THEN 61 - i ELSE 30 + i

(* Its place in r on the way back. *)
BackPlace(g, i) == IF Right(g) THEN IF Flat(g) THEN i - 1 ELSE 30 - i
                               ELSE IF Flat(g) THEN 59 - i ELSE 29 + i

Sees(g, order, scene) == [n \in DOMAIN order |-> scene[BeamOf(g, order[n])]]

-----------------------------------------------------------------------------
(* The client.                                                             *)

Cycle == << "ring", "warn", "clear",
            "right flat", "right steep", "column", "left steep", "left flat", "report",
            "left flat", "left steep", "column", "right steep", "right flat", "report" >>
Outward == step <= 9
WayEnds == step \in {10, 16}

Swept == InDisc /\ Y <= 499 /\ (Y = 0 => X >= 0)

(* What a screen may hold from an earlier picture. *)
Old == IF InDisc /\ X # 0 /\ ~OnLine /\ ~OnCircle THEN {"black", "yellow", "red"}
       ELSE {"white"}

PictureInit ==
  /\ pixel \in Pixels /\ screen \in Old
  /\ colour \in IF Swept THEN Old ELSE Old \ {"red"}
  /\ step = 1 /\ ring = 0 /\ warn = 0 /\ sight = [k \in 0 .. 61 |-> 0] /\ buz = FALSE
  /\ r = [k \in Beam |-> 0] /\ frame = r /\ row = "none"

Does(s) == step \in DOMAIN Cycle /\ Cycle[step] = s /\ step' = step + 1

ReadRing ==
  /\ Does("ring")
  /\ buz' = FALSE
  /\ \E w \in Warns : ring' = 2 * w
  /\ UNCHANGED << pixel, warn, sight, r, colour, frame, screen, row >>

(* warn_line is read again; a button may have been let go in between. *)
ReadWarn ==
  /\ Does("warn")
  /\ \E change \in {-10, 0, 10} : warn' = (ring \div 2) + change /\ warn' \in 10 .. 250
  /\ UNCHANGED << pixel, ring, sight, r, buz, colour, frame, screen, row >>

(* Only the circle and the lines are drawn. *)
Wiped_KeepsDisc ==
  IF ~InDisc THEN colour
  ELSE IF Between(ring, ring + 10) THEN "yellow"
  ELSE IF OnLine \/ X = 0 \/ OnCircle THEN "white"
  ELSE colour

Wiped ==
  IF ~InDisc THEN colour
  ELSE IF Between(ring, ring + 10) THEN "yellow"
  ELSE IF OnLine \/ X = 0 \/ OnCircle THEN "white"
  ELSE "black"

Clear ==
  /\ Does("clear")
  /\ colour' = Wiped
  /\ UNCHANGED << pixel, ring, warn, sight, r, buz, frame, screen, row >>

Lowest(g) == IF g = "right flat" THEN 0 ELSE 1

Painted(g, order, scene) ==
  IF ~InGroup(g, Lowest(g)) THEN colour
  ELSE Loop(g, order, ring, warn, Sees(g, order, scene), colour)

Stored(g, order, scene) ==
  [k \in Beam |->
     LET at == {n \in DOMAIN order :
                  k = IF Outward THEN BeamOf(g, order[n]) ELSE BackPlace(g, order[n])}
     IN IF at = {} THEN r[k] ELSE 2 * Sees(g, order, scene)[Max(at)]]

Rings(g, order, scene) ==
  buz \/ \E n \in DOMAIN order : Sees(g, order, scene)[n] < warn

(* What there is to see changes between the ways. *)
Sweep(g) ==
  /\ Does(g)
  /\ sight' \in IF step \in {4, 10} THEN Scenes ELSE {sight}
  /\ LET order == IF Outward THEN Out(g) ELSE Back(g)
     IN /\ colour' = Painted(g, order, sight')
        /\ r' = Stored(g, order, sight')
        /\ buz' = Rings(g, order, sight')
  /\ UNCHANGED << pixel, ring, warn, frame, screen, row >>

Middle ==
  /\ Does("column")
  /\ colour' = IF X = 0 /\ Y <= 498 THEN "white" ELSE colour
  /\ UNCHANGED << pixel, ring, warn, sight, r, buz, frame, screen, row >>

(* Only a way with an alarm is reported.  No byte of a frame is 0. *)
Report ==
  /\ Does("report")
  /\ IF buz THEN frame' = [k \in Beam |-> r[k] \div 2 + 1] /\ row' = "due"
     ELSE frame' = frame /\ row' = "none"
  /\ buz' = FALSE
  /\ UNCHANGED << pixel, ring, warn, sight, r, colour, screen >>

-----------------------------------------------------------------------------
(* The server.                                                             *)

(* The two loops before the sectors.  Inside the disc they draw the circle *)
(* only, and outside they leave the lines as they are.                     *)
Prepared(limit) ==
  IF OnBorder THEN "white"
  ELSE IF Y = 0 THEN screen
  ELSE IF InDisc THEN IF Between(2 * limit, 2 * limit + 10) THEN "yellow" ELSE screen
  ELSE IF OnLine THEN screen
  ELSE "black"

ServerLowest(g) == IF Flat(g) THEN 0 ELSE 1

(* The beams on the left come in the order of the right. *)
Group_Mirrored(g, limit, data, old) ==
  IF ~InGroup(g, ServerLowest(g)) THEN old
  ELSE IF OnBorder THEN "white"
  ELSE Loop(g, Out(g), 2 * limit, limit,
            [n \in DOMAIN Out(g) |->
               data[BeamOf(g, IF Right(g) THEN Out(g)[n] ELSE 16 - Out(g)[n])] - 1], old)

Group(g, limit, data, old) ==
  IF ~InGroup(g, ServerLowest(g)) THEN old
  ELSE IF OnBorder THEN "white"
  ELSE Loop(g, Out(g), 2 * limit, limit,
            [n \in DOMAIN Out(g) |-> data[BeamOf(g, Out(g)[n])] - 1], old)

MakeRadar(limit, data) ==
  LET right == Group("right steep", limit, data,
                 Group("right flat", limit, data, Prepared(limit)))
      middle == IF X = 0 /\ Y <= 499 THEN "white" ELSE right
  IN Group("left flat", limit, data, Group("left steep", limit, data, middle))

(* The frame as it arrives, or as the history file gives it back, with 0   *)
(* for the first beam (see HistoryParser).                                 *)
Draw(from) ==
  /\ WayEnds /\ row = "due"
  /\ screen' = MakeRadar(warn, IF from = "live" THEN frame ELSE [frame EXCEPT ![0] = 0])
  /\ row' = from
  /\ UNCHANGED << pixel, step, ring, warn, sight, r, buz, colour, frame >>

PictureNext ==
  \/ ReadRing \/ ReadWarn \/ Clear \/ Middle \/ Report
  \/ \E g \in {"right flat", "right steep", "left steep", "left flat"} : Sweep(g)
  \/ \E from \in {"live", "parsed"} : Draw(from)

PictureSpec == PictureInit /\ [][PictureNext]_pictureVars

-----------------------------------------------------------------------------
(* What a picture should be: a pixel belongs to the beams whose angles it  *)
(* lies between, found without division and without loops.                 *)

Short == IF Y <= Away THEN Y ELSE Away
Long == IF Y <= Away THEN Away ELSE Y

(* Beam k counts from the right.  Sector i of a half that is measured from *)
(* the x axis ends at Tan(i), one beyond the middle from the y axis.       *)
BeamsAt ==
  {k \in Beam :
     LET half == IF k <= 30 THEN k ELSE 61 - k
         i == IF half <= 15 THEN half ELSE 31 - half
     IN /\ (k <= 30) = (X > 0)
        /\ IF half <= 15 THEN Y <= Away ELSE Y >= Away
        /\ i > 0 => Short * 10000 >= Tan(i - 1) * Long
        /\ Short * 10000 < (Tan(i) + 1) * Long}

Shows(circle, limit, d) ==
  IF X = 0 THEN "white"
  ELSE IF Between(circle, circle + 10) THEN "yellow"
  ELSE IF OnLine \/ OnCircle THEN "white"
  ELSE IF Square > 4 * d * d THEN "black"
  ELSE IF d < limit THEN "red" ELSE "swath"

-----------------------------------------------------------------------------
(* Properties.                                                             *)

(* When a way is painted, each pixel that the sectors reach shows what the *)
(* beam at its angle saw on this way, and nothing of an earlier picture:   *)
(* on the way out of the beams that meet there the last, on the way back   *)
(* the first, which has no sector 0.  Four loops with integer tangents, of *)
(* eight that differ in their order, paint it.                             *)
ClientShowsWay ==
  (WayEnds /\ Swept) =>
    LET owner == IF step = 10 THEN Max(BeamsAt) ELSE Min(BeamsAt \ {0})
    IN colour = Shows(ring, warn, sight[owner])

(* On the server each pixel of the disc shows the byte of the frame that   *)
(* belongs to its angle, less one, also when the history file has lost the *)
(* first one, and whatever frame was shown before.                         *)
ServerShowsFrame ==
  (row \in {"live", "parsed"} /\ InDisc /\ Y <= 499) =>
    screen = Shows(2 * warn, warn, frame[Max(BeamsAt)] - 1)

(* The warning distance is read twice, for the circle and for the alarm.   *)
(* A pixel is nevertheless red within the circle drawn, or one step of the *)
(* button beyond it, on a client that has cleared the picture of the cycle *)
(* before.                                                                 *)
RedInsideRing ==
  /\ (step > 3 /\ colour = "red") => Square < (ring + 20) * (ring + 20)
  /\ (row \in {"live", "parsed"} /\ screen = "red") => Square < 4 * warn * warn
====
