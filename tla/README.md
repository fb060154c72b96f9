# GAM-Z radar: TLA+ specifications, model checks and proofs

The repository collects a student's work with embedded boards. Its one complete
system is the *GAM-Z radar* in `Achro-I.MX6Q/rada_project`: a client board turns
an ultrasonic sensor on a servo, draws what it sees and reports alarms over TCP to
a server board, which keeps the last frames in a file and shows them. These
modules model that system. They were written from
`client/source/GAM-Z_client.c` ("client" below),
`server/source/GAM-Z_server.c` ("server") and the drivers in `module/`; the numbers
are lines of these files.

## The system

| Component | State | Operations | Interacts through |
|---|---|---|---|
| server receiver (server 317-383) | socket, `buff`, the rows it loads | read command, read frame, rewrite `input.txt`, publish, logout | `up_data`, `update_flag`, `semaphore`, `input.txt` |
| server updater (server 148-315) | picture, parsed history, row shown | draw the live picture, load and browse the history | the same, and SIGINT |
| client radar (client 290-1196) | servo position, `r[61]`, alarm | sweep there and back, paint, report | `data_buf`, `send_flag`, `warn_line`, `warn_data`, `buz_flag`, `side_pwm`, `semaphore` |
| client sender (client 233-282, 1488-1515) | none of its own | send `data_in` and 70 bytes; retry | socket, `data_buf`, `send_flag`, `data_semaphore` |
| client panel (client 1244-1426) | mute, brightness | switches, touch buttons, LCD, buzzer, exit | `t_x`, `t_y`, `deep`, `warn_line`, `up_down_pwm`, socket, SIGINT |
| client touch (client 1198-1242) | none of its own | decode input events | `t_x`, `t_y`, `deep` |
| client servo processes (client 1428-1486) | the count of pulses | one pulse per period | `side_pwm`, `up_down_pwm`, `up_down_flag`, SIGINT |
| sensor driver (`module/hs_04`) | `distance`, `before` | echo interrupt, `read` | GPIO, time of day |
| FPGA drivers (`module/*`) | `port_usage`, registers | open, release, read, write | device nodes |

All processes of a board are forked from one `main` and share words of anonymous
memory. There are no locks: `semaphore` and `data_semaphore` are plain words that
are set without being tested, and only some of the processes look at them. Nearly
everything that can go wrong here is therefore a matter of interleaving, and nearly
nothing of it can be tested on a desk. `PROJECT.json` lists the hazards at their
lines.

What makes each component correct:

* the server's log is, through rewrites, crashes and lost connections, the last
  frames in order, and is lost only in a known window; the picture is one frame, at
  the client's pace; the history that is browsed is whole or empty; logout ends the
  server;
* the link records every frame once, whole, in order, if the timing is right, and
  never out of order if it is not;
* the sweep stores each distance where it was measured, reports exactly what is too
  near, and never makes the servo jump;
* the panel does once what each recognised touch asks for, keeps its settings within
  their limits, shows them, and does not stop the radar;
* a reading of the sensor is what is there, or "nothing"; it is never nearer;
* a servo gets regular pulses, follows each press, and is not left with its pin high;
* a port of the board belongs to one process, and is free when that process is gone;
  the exit switch, once the panel sees it, ends all processes, Ctrl-C all children but
  a radar whose panel has died with the drawing lock;
* the history file is read back as it was written;
* each pixel shows what the beam at its angle saw, on both boards.

## Modules

| Module | Models | Source |
|---|---|---|
| `HistoryLog` | what `input.txt` promises: a log of the last `Capacity` frames | (abstract) |
| `RadarServer` | receiver, updater, file, connection, crash and restart; implements `HistoryLog` | server 42-383, 385-716 as one step per part of a frame |
| `HistoryParser` | printing a frame as a line, reading lines into the table | server 150-159, 224-240, 357-377 |
| `RadarLink` | hand-over, sender, exit, socket, the server's read loop | client 130-282, 810-818, 1181-1196, 1410-1425, 1488-1515; server 325-341 |
| `RadarScan` | the eight loops of a cycle, alarm, report, warning distance | client 353-1196, 1379-1390 |
| `RadarPicture`, `MCPicture` | one pixel on client and server | client 302-1181, server 395-712 |
| `RadarPanel` | touch screen, switches, panel, drawing lock | client 1198-1408, 1648-1706, 338-435 |
| `ServoPulse` | the two pulse loops and those who set their widths | client 55-59, 358-364, 470-474, 1323-1340, 1428-1486 |
| `ClientProcesses` | the client's processes, exclusive ports, SIGINT | client 130-231, 310-351, 1188-1196, 1233-1285, 1341-1425; `module/FND` 40-52 |
| `UltrasonicSensor` | interrupt handler, `read`, sensor, two readings | `module/hs_04` 21-76; client 453-468 |

`XProofs` holds the theorems about `X`; those about `HistoryParser` and
`RadarPicture` are together in `FrameProofs`, what becomes of a frame in the file and
on the screens, and `HistoryLog` is what `RadarServerProofs` proves the server to
implement.

How they fit together: `RadarPanel` and `ServoPulse` set what `RadarScan` reads
(`warn_line`, `side_pwm`); `UltrasonicSensor` justifies the distances 0..250 of
`RadarScan`; `RadarScan` makes the frames that `RadarLink` takes across and
`RadarServer` stores; `HistoryParser` justifies that `RadarServer` reads a row back
as one value (its `ParseRow` is what `HistoryParser` shows), and `RadarPicture` says
what a frame looks like on the server.

The definitions keep the code's names in camel case (`update_flag` is
`updateFlag`, `side_pwm` is `pwm`). Each action is one step between two points at
which another process can see or change something; a long computation on private
variables is one step. `PROJECT.json` maps every definition to its lines.

A definition `Op_Bug` next to `Op` is `Op` with a plausible programming error. It
is used by no specification: each property of a passing run names one such
definition which, in the place of the right one, makes that property fail.

Where the code works only with a certain timing, a variable that never changes says
whether a behaviour has it (`paced`, `timing`, `patient`), and the properties that
need it say so. One run then covers all timings.

### RadarServer

The receiver's `read`, `fopen`, `fprintf` and `fclose` are separate steps, because
the updater can read `input.txt` between them and the process can die between
them. `fprintf` goes to `pending` and reaches the file with `fclose`. The rows are
frames, named by number: those the file already held are negative. Four *cells* of
a frame (its first byte, the distances, the time, the warning distance) stand for
its 70 bytes, because the receiver writes and `make_radar` reads them in different
orders. A lost connection, SIGINT and a crash followed by a restart can come at any
time. `input.txt` exists from the start and may be empty: the repository holds no
such file, and without one the first `fopen` returns NULL.

`paced` is the timing under which the code works: no frame arrives while another is
drawn or a history is loaded, and no loading starts while a frame is stored. The
client reports at most one frame in half a sweep (many seconds), so this is what
usually happens, but no line enforces it. What needs it are the pictures and the
liveness. A history needs no timing: `input.txt` is smaller than a block of the C
library, so that the updater's load is one `read`, and the receiver's rows reach the
file together; a load that falls into the rewriting finds the whole log or, after
`fopen "w"`, nothing (`LoadsAllOrNothing`). The semaphore has no part in that: nobody
tests it there.

Live pictures are bounded in one direction only. A part that is drawn later can be
older than one drawn before it by one frame at most (`AtMostOneOlder`), because the
receiver writes the parts nearly in the order in which they are drawn; it can be
newer by any number, if so many frames come while one is drawn.

### HistoryParser

A line is the numbers of a frame, each digit a character, with a space behind each,
then a new line; `fgets` adds a terminator. The loop of lines 227-240 is followed
character by character, with `temp[4]` and the bytes behind it; the code's index of
a character is here a word of the line (a number with its space, or the end of the
line) and a character of that word. The end of a line
does not end a number: the new line and the terminator stay in front of the first
number of the next line, so that it is collected from `temp[2]` on, runs over the
end of `temp` by two bytes, and is read as 0 by `atoi`. Nobody sees it: the second
beam's sector is painted over the first's. `memset` clears a quarter of the table
(its size is taken for bytes), which does no harm, because each row is overwritten.

### RadarLink

The socket is a sequence of writes. A `read` takes any number of the writes that
have arrived, at least one, and `strcmp` and the 70 bytes see the first only.
`data_buf` has two parts, so that a frame can be torn. The panel's
`data_semaphore = 1` is in the model and, as in the code, nobody tests it. After a
failed `connect` the first child runs `retry`, which connects to port 4002 of its
own host (client 1500), and ends when it has: nothing answers `send_flag` from then
on, although `connected_flag` says that the client is connected. `WriteLogout` sends
such a client's `logout` to whatever answered on its own host, not to the server.

`timing` is a set of assumptions: `prompt` (the server has read a write before the
next is made), `slow` (half a sweep takes longer than sending), `quiet` (exit is
pressed only when no frame is on its way). `usleep(10)` (line 255) is all the code
does for `prompt`.

### RadarScan

A measurement is one step: two readings, the larger or the second counts, the pulse
width changes by 30, the alarm is set, the distance goes to a cell of `r`. Which
cell is written with eight different expressions in the code, `Index1` to
`Index8`, which are kept apart. `Q` is the number of steps in a quarter, 15 in the
code. `angle`, `fresh` and `reported` are history variables that say where and when a
cell was measured and with which warning distance a frame was made. Painting, the
FND and the dot matrix are left out.

### RadarPicture

One pixel, taken from a set, through a cycle that starts with any picture on either
screen. A step is a whole loop of the code: the clear pass, the four groups of
sectors on the way out and the four on the way back, the middle column, the report,
and `make_radar` with its clear pass and its four groups. What a loop leaves on a
pixel is said without running it (`Loop`): of its turns those that write the pixel at
all are found (`Touches`), and the last of them decides (`Shade`). The arithmetic is
the code's: squares, tangents times 10000 cut to integers, closed intervals. Green,
and the blue of the way back, are one value, `swath`. What there is to see is a scene,
a distance for each beam, and another one for each way; `step` is the place in `Cycle`
of the next step. The warning distances are multiples of 10, as the panel leaves them.

The reference definition (`BeamsAt`, `Shows`) finds the beam of a pixel by cross
multiplication. The properties leave out what the code does not promise or gets
wrong, and their premises name it: the left half of row 0, which no loop of the
client sweeps; (0, 500), which the server never paints; the frame of the way back,
which the code shifts by one cell, and its left flat quarter by two (client 849), so
that the server shows it turned by one or two sectors against the client.

### RadarPanel

The panel's step from polling to `while(*deep){}` to acting is modelled with the
touch as `set_process` records it: first `t_x`, then `t_y`, then `deep`. The
buttons lie in one band of the screen, so that a position is the column of a button
or `gap`, and `band` or `below`. `due` is a history variable: the touched button
that has not acted.

`set_process` compares the types of three events that `read` returned together with
the patterns of a touch that begins, moves or ends (1220-1238), and does not find them
in every grouping of the same events. `Touch`, `TouchY`, `Move` and `Release` are a
touch that is recognised. `Misread` is an event of the finger that is not: it comes
down, moves or leaves, and `deep` or the position is set as for another event, or not
at all. Which groupings occur is left open, so that `Misread` can happen at any time;
`misread` remembers that it has. A release that is not recognised leaves `deep` at 1
and the panel in its loop.

`patient` is the timing under which the code works: the finger comes down only when
the panel is back in its loop, moves, and stays until the panel has seen it.
`TouchActsOnce` and `PictureSettled` are about a patient person's touches as long as
nothing was misread; `RadarGoesOn` needs neither. The buzzer is left out.

### ServoPulse

A process reads its width twice in a period, for the pulse and for the pause. A
tick of time is a part of the pause; a pulse is shorter than a tick. The radar
changes the width of the side servo, a press of a switch that of the tilt servo,
which makes `Pulses` pulses when it sees `up_down_flag` up. `main` raises that flag
(161), and it stays up until the panel has drawn its buttons and takes it down (1302),
however long that takes: `DrawButtons` comes at any time. `used`, `error` and
`answered` are history variables: the width of the last pulse, by how much the last
period differs from 20 ms, and the pulses made since a press.

### ClientProcesses

`main` forks six children, one after the other, and becomes the panel. A child, and
`main` after its last fork, installs its handler for SIGINT in a step of its own
(`Fork`, `Handle`), so that Ctrl-C can find any of them without one. `semaphore` is 1
from the start (170) until the panel has drawn its first buttons: a panel that dies
before that leaves its radar waiting for the screen (347), and `quit` is not looked at
there. It can die of a busy buzzer, or of a Ctrl-C that comes before its handler
(221); `QuitEnds` names such a radar as the only child that can be left over. Panel
and radar open their ports in the order of the code; a driver's open tests and sets
`port_usage` in two steps. `todo` holds the ports an opener has still to come to, the
next being the first of them in the order of its calls. Without the buzzer or the dot
matrix the process exits; without the others it goes on, a panel without the switch
driver with an uninitialised buffer that may say "exit". The exit switch sends SIGINT
to each child, Ctrl-C to all: touch and sender, and whoever has no handler yet, die,
the others set `quit` and look at it at their own time. The panel never looks at its
own: Ctrl-C leaves it running, and waiting for ever if it waited for a touch to end,
because the touch process is dead. A second client can be started on the same board at
any time. A fork that fails is left out. `client/sh/end.sh` removes a module by a name
that does not exist (`fpga_fnd_dot_driver_arrow.ko`); module loading is not modelled.

### UltrasonicSensor

A burst that the sensor hears raises the echo line for as long as the sound travels.
The handler runs within `Latency` ticks of an edge, once for both if they are close,
and uses `tv_usec` only. A burst sent while the line is still high is not heard, and
the sensor may miss one at any time. `read` sleeps for 60 ms and returns `distance`,
whatever it is then. `causes` is a history variable: what went wrong in each of the
two readings. Two things can show what is not there: a missed burst, after which the
distance of the reading before is returned, and an echo whose beginning the handler
did not see, in the first 13.5 ms of a second, when the time of day itself is taken
for a distance. In the first reading that is no false alarm, in the second it is.

The cast to `char` in the driver is that of ARM, where `char` is unsigned.

## Runs

| Run | Bounds | Shows |
|---|---|---|
| `server` | 2 rows, 3 frames, 1 restart, both timings | under any timing: the file implements `HistoryLog`, rows in order, loss only between `fopen` and `fclose`, at most one row of zeros per start, a history that is loaded is the whole log or nothing, browsing inside the table, no part of a picture more than one frame older than one drawn before it; with pacing: whole pictures, every frame shown, the updater ends on logout or SIGINT |
| `link` | 4 frames; no assumption, `slow`, `prompt`, both, all three | under any timing: recorded frames in order, torn by one at most, the server leaves only for the exit button; with `prompt`: what is under a raised flag arrives, or something newer; with `prompt` and `slow`: each frame recorded once and in order, each arrives; with `quiet` as well: exit ends the server |
| `link_exit` | 3 frames | finding, see below |
| `scan` | `Q = 1`, 2 distances, 2 warning distances | cells agree with the servo, outward frames complete, alarm exact, no jump, a frame that no later cycle overtakes carries its warning distance |
| `scan_back` | `Q = 2` | finding |
| `panel` | 5 buttons, 3 warning distances, 2 widths, hasty touches of 2 buttons, patient ones of all | the radar goes on painting under any timing and whatever is misread; with a patient person each recognised touch acts once and the picture settles |
| `panel_exit` | 1 button, 1 warning distance | finding |
| `sensor` | 2 ticks a centimetre, range 4, second of 19 ticks, latency 2 | undisturbed readings are true; what can hide something and what can invent it |
| `servo` | 2 turns, periods of 2 ticks, 3 pulses, 2 widths | periods regular to one step, no press lost, through SIGINT at any moment and a start of any length |
| `processes` | 2 clients, 3 ports, a slow child, Ctrl-C and touches for one of them | ports exclusive unless two opens overlap, a start on a free board gets every port, exit ends all processes, Ctrl-C all children but a radar whose panel died with the lock |
| `parser` | 2 numbers a line, 3 lines, bytes 0, 42 and 255, 4 frames | what is read back, and where `temp` is overrun |
| `picture` | 106 pixels, 3 warning distances, 3 scenes of 3 distances | each pixel shows the beam at its angle, on client and server |

Why the bounds are enough. With two rows and three frames the log is empty, partly
filled, full, and shifted, each with a rewrite in progress. Four frames give the
link one more than can be under way at once (in `data_buf`, in the socket, being
read). With `Q = 1` each of the eight loops runs, with its first and last value, and
each borders on its neighbours; distances 0 and 15 give all outcomes of the
comparisons with 10 and 20 and the spike rule. The sensor's echo can cross the turn
of a second at any of its ticks, merge its two edges, and outlast a reading. Window
and period of the servo are in the proportion of 50 and 20 ms. One slow child, one
vital port of each opener and one that is not vital give each kind of failure of an
open, and SIGINT before, between and after the handlers; two clients give each overlap
of two. The slow children wait for nothing but `quit`, so that one stands for the three,
and for those of the other client. The numbers of a line have one, two and
three digits, in the first and in a later place, and the file is read before, while
and after it is full. The pixels lie on the axes, the diagonals, both sides of each
circle and line, on the edges of the disc, and where a tangent cut to an integer is
that of a sector; in the three scenes each beam sees each of three distances, and
neighbours see different ones. The
proofs cover the real values (8 rows, `Q = 15`, limits 250, 1400 and 2200).

What the models do without it being a property, as the code does it: without `paced`
a picture mixes frames and a published frame may not be shown (`PictureWhole` and
`FrameShown` fail), while `ShutsDown` holds. Without `patient`, or after an event that
was misread, a button can act that was not touched (`TouchActsOnce`, `PictureSettled`).
Without `prompt`, two writes that are read together are taken for one message, the rest
is lost, and the server, out of step, records commands as frames: client 270 calls 70
bytes a frame, but a frame is what one `read` returns. Without `slow` a frame reported
between `write` and `send_flag = 0` is lost. A client connected by `retry` sends
nothing, although the comments at 82 and 185 speak of it as the process that connects
again before the sender runs; the one at 1494 admits that it does not seem perfect.

`CHECK_DEADLOCK FALSE` is stated where processes end, or stop at the bound of the
run: a server that waits for a client, or a picture that waits for a frame, is no
error. `parser` has deadlock checked.

Types are proved for every module with a `Proofs` module and are not repeated in the
runs; those of `HistoryParser` are part of `InBounds`, those of `RadarPicture` of its
invariant (`PictureTypes`, `PictureArrays`).

### Fairness

Every process is scheduled by the kernel, so that the steps of each server and
client process are weakly fair. Not fair: a lost connection, SIGINT, a crash, a
button or a touch, the radar seeing something, and an answer on port 4002. In
`RadarLink` what is written to a socket is delivered. In `RadarPanel` nobody has to
touch the screen or to leave it, and no event has to be recognised; only `set_process`
writes `t_y` after `t_x`. In `ClientProcesses` no finger stays on the screen for ever.

Two steps are strongly fair. In `RadarPanel` the painter waits in a loop of loads for
the semaphore, which is 0 between two touches for as long as a scan of the switches
takes; it does not miss that every time. In `ClientProcesses` the panel waits in the
same way for `deep` to be 0: no finger comes back faster than the panel looks, each
time for ever.

## Findings

Each is a run that TLC ends with a counterexample, against a comment of the source:

1. `link_exit`: the exit button may leave the server running (client 227, 1412).
   `logout` falls between `data_in` and the frame and is recorded as a frame.
2. `panel_exit`: a release that `set_process` does not recognise (client 1228) leaves
   the panel in `while(*deep){}` (1364), where it looks at no switch, so that the exit
   button does not end the client (226).
3. `scan_back`: on the way back `r[60]` is not overwritten and `r[44]` is written
   twice (client 820, 849, 939).

## Proofs

For every value of the constants, `tlapm` proves:

* **RadarServer**: under any timing types, `HistoryBounded`, `LogSpec` (the server
  implements `HistoryLog`), `LostOnlyInRewrite`, `HistoryInOrder`, `ForgedRows`,
  `PublishedIsRecorded`, `BrowseInRange`, `LoadsAllOrNothing` and `AtMostOneOlder`;
  for paced behaviours `PictureWhole`. `FileInv` is what makes the refinement work:
  from `fopen` to `fclose`, `file \o pending` is the log the frame will have been
  added to, so that `CloseFile` is the one step that records; `ProgressInv` ties
  `pending` to the cells and rows copied so far. On it rest `OrderInv` (no row is
  newer than what was sent, and the frame being stored is the newest), `CopyInv` (the
  cells copied are of that frame), `AgeInv` and `DrawnInv` (a cell drawn earlier is
  not more than one frame newer), `TogetherInv` and `DrawsInv` (while a paced updater
  draws, nothing is stored), and `ForgeInv`, which counts the rows of zeros.
* **RadarLink**: types, `FramesInOrder`, `TornByOne` and `LeavesOnLogout` under any
  timing: what is recorded is not after what is in the socket, that not after
  `data_buf`, and `data_buf` goes only forward. With `prompt` and `slow`,
  `RecordsEachFrame`: at most one message is in the socket and is the one the server
  expects, and the frames produced are those recorded, plus one in the socket, plus
  one not yet sent.
* **RadarScan**: types, `StoredWhereMeasured`, `OutwardComplete`, `AlarmIsInFrame`,
  `ServoInRange`, `ServoNeverJumps`, `NeverACommand` (no byte of a frame is 0 or wraps
  around) and `SentWithItsLine`. The lemmas `CellOfNumber` and `NextNumber` turn the
  eight loops into one count from 0 to 4Q for each half of the cycle; the invariant
  says that the servo points where the count says and which cells are filled by then.
* **RadarPanel**: types with limits and `LcdIsCurrent` under any timing and whatever
  is misread; with a patient person, until something is, `TouchActsOnce` and
  `PictureSettled`. The limits need `InSteps`: the settings are multiples of their
  steps, otherwise they could step over a limit.
* **ServoPulse**: types, `EndsLow` (SIGINT at any moment leaves both pins low),
  `PeriodKept` and `PressAnswered`, from the assumption that the flag is up for more
  than two periods and the radar turns less than once in a period.
* **ClientProcesses**: types, `PortExclusive` and `CleanStart`, for any number of
  clients. For `PortExclusive` the invariant says that, unless two opens overlapped, a
  port that is not marked is held by nobody, and between the two halves of an open the
  port is free and nobody else is there. `CleanStart` needs the converse (`Restart`),
  and needs it even after a race: a marked port is held by some client, what an opener
  holds and what it has still to open or to close fit together at each of its steps
  (an opener that has ended holds nothing, whether it closed its ports or died at
  one), and while a client is `clean` no other has an opener alive.
* **UltrasonicSensor**: types (`distance` and both readings stay in 0..250, late,
  merged and unheard echoes included, which is why nothing wraps around further on),
  `UndisturbedIsTrue`, `NeverInvented` and `FirstSpikeHarmless`, for any unit, range
  and latency that fit in a second. None of the three is inductive: they speak of the
  moment a result is there, and what decides about it happened two echoes earlier. The
  invariant follows one echo: while the handler has only the rising edge, the time
  that has passed on its clock is the age of the echo but for the latency, unless the
  second has turned, and then `causes` says so (`TimeInv`); the echo that answers a
  burst is as long as what is there says, and one that goes on when a reading begins
  is that of nothing (`EchoInv`); `causes` names no burst to come (`BurstInv`). The
  lemmas `Stored`, `Blurred` and `OutOfReach` are the arithmetic of the handler.
* **HistoryParser**: `InBounds` and `ReadBack`, for frames of any length and bytes and
  files of any number of lines. The invariant says that `temp` holds the characters of
  the present word up to the cursor, behind the two that the line before has left
  (`Collected`), and that the table holds the words before the cursor (`Copied`);
  `AtoiOfNumeral` and `AtoiOfEnd` say that `atoi` undoes `"%d "` or stops at once.
* **RadarPicture**: `ClientShowsWay`, `ServerShowsFrame` and `RedInsideRing`, for
  every pixel of the screen, every scene and every warning distance. None is
  inductive: they speak of a way that is painted, and in between it is painted in
  part. The invariant `PictureInv` says that after each step the pixel shows the owner
  among the beams the way has come to so far, if it lies at any of them (`Shown`),
  that the middle column and what is red are what they will be at the end
  (`MiddleWhite`, `RedInside`), and what is left on the server (`OnServer`). The
  argument is in four parts. The sectors that touch a pixel are those of its beams
  (`CoversMeans`, `CoversIsBeam`): a quotient cut to an integer, compared with an
  integer, against the cross multiplication of `BeamsAt`. They leave no gap: every
  pixel is at a beam, and at one that is not beam 0 (`NoGap`, `Reached`). A loop gives
  the pixel to the highest of its beams on the way out and to the lowest on the way
  back (`OutOwner`, `BackOwner`), as the eight loops run over their sectors in orders
  of their own (`OutTurns`, `BackTurns`). The groups follow one another so that a
  later one overrules an earlier one in the right way (`OwnerOut`, `OwnerBack`), and
  on the server that the beam 0 which the file loses never owns a pixel (`TopGroup`,
  `RadarShows`). `OnePicture` puts both boards together and has no run of its own: the
  way out fills `r` from beam 0 upwards (`SentInv`, `StoredOut`), so when the server
  has drawn the frame of that way, live or from the history, its picture is the
  client's, if the client's circle is of the same warning distance.

Every invariant was model-checked, on the constants of the module's run, before it was
proved. The assumptions are the `ASSUME`s of the modules, which TLC evaluates in the
runs, and the timing named in the properties.

Only model-checked: liveness (`ShutsDown`, `FrameShown`, `FrameArrives`,
`NewestArrives`, `QuietExitEndsServer`, `RadarGoesOn`, `ExitEndsClient`, `QuitEnds`),
which is out of the prover's reach. Every safety property that a run finds true is proved.

## Hazards without a property

* After a hang-up `read` returns 0 for ever and the receiver spins (server 325); SIGINT
  sets a `quit` that it does not look at. The model does the same.
* A missing `input.txt` (server 343) ends the process at `fgets(NULL)`.
* `str[16]` gets sixteen characters and a terminator (server 245); the client does the
  same with its warning line (client 1398). The switch driver's loop runs to
  `i <= length` and writes one byte too many. All three are fixed, without a state.
* The FND driver shifts digits into nibbles without a mask; the radar passes decimal
  digits only.
* `fork` is not checked (client 177): a failed one gives `kill(-1, SIGINT)` at exit.
* `read` of touch events may return fewer than three (client 1220).
* The middle line of the picture is painted without a test of the semaphore
  (client 410), which does no harm: the buttons are above row 80 and the radar paints
  from row 89 down.
* At a warning distance of 250 cm the yellow circle lies on the white border, which is
  drawn once and never again (client 503).

## Not modelled

* What is formatted for displays and serial lines; FND, dot matrix and buzzer; the
  pixels of the buttons; module loading, GPIO set-up and the codecs of the FPGA
  drivers, which keep no state.
* The exercises at the top level, `test/`, `temptest/` and `practice/`: earlier or
  unfinished versions of the drivers and programs, without settled intentions.
  `Embedded-board/` repeats the tree. `linux/`, `sys2/`, `test/random` and the OpenGL
  and framebuffer samples are third-party code. These are by far the most of the
  repository's lines; the radar's own logic is what the modules above map.
* Short or failing writes; more than one client of a server.
* The start and network scripts.

## Plan

1. Done: `HistoryLog`, `RadarServer`, `RadarLink`, `RadarScan`, `RadarPanel`,
   `UltrasonicSensor`, `ServoPulse`, `ClientProcesses`, `HistoryParser`,
   `RadarPicture`, each with its run, and the proofs above.
2. `RadarSystem`: panel, sweep, link and server composed, so that the timing of one is
   a fact of another, and proofs of what it says about the parts together.
