---------------------------- MODULE RadarServer ----------------------------
(***************************************************************************)
(* The GAM-Z radar server (rada_project/server/source/GAM-Z_server.c).     *)
(*                                                                         *)
(* Two processes share memory: the receiver (client_receive_process, the   *)
(* parent) takes frames from the socket, keeps the last Capacity of them   *)
(* in input.txt and publishes the newest in up_data; the updater           *)
(* (update_process, the child) draws up_data when update_flag is raised    *)
(* and, on a button, loads input.txt and lets the user browse it.  The     *)
(* shared word "semaphore" is written by both and tested only by the       *)
(* updater.                                                                *)
(*                                                                         *)
(* A frame is named by the order in which it was sent: 1, 2, ... in this   *)
(* history of the server, negative numbers for the rows that input.txt     *)
(* held before it.  The 70 bytes of a frame fall into the four cells that  *)
(* the code treats apart.                                                  *)
(***************************************************************************)
EXTENDS Integers, Sequences, FiniteSets

CONSTANTS Capacity,     \* rows kept in input.txt (8 in the code)
          MaxFrames,    \* bound: frames the client sends
          MaxRestarts   \* bound: crashes followed by a restart

ASSUME ServerAssumption ==
  /\ Capacity \in Nat \ {0}
  /\ MaxFrames \in Nat
  /\ MaxRestarts \in Nat

(* "first" is byte 0, "scan" bytes 1..60, "stamp" bytes 61..66 and "warn"  *)
(* byte 67.  The receiver copies them in index order; make_radar reads the *)
(* measurements, then the warning distance, and the caller the time stamp. *)
Cell      == {"first", "scan", "stamp", "warn"}
CopyOrder == << "first", "scan", "stamp", "warn" >>
DrawOrder == << "first", "scan", "warn", "stamp" >>

Zero    == 0                  \* a cell of value 0: fresh memory, empty read
Garbage == -(Capacity + 1)    \* whatever lies in front of data[0]
Frame   == -Capacity .. MaxFrames
Content == Frame \cup {Garbage}

VARIABLES
  receiver,   \* where client_receive_process stands
  frame,      \* its buff, after the second read
  rows,       \* its str_buff: input.txt as it was loaded
  copied,     \* cells of up_data it has written for this frame
  pending,    \* rows fprintf'ed and not yet flushed by fclose
  file,       \* input.txt as another process sees it
  upData,     \* up_data, per cell the frame the cell came from
  updateFlag, \* update_flag
  semaphore,  \* semaphore
  quit,       \* the updater's quit, set by SIGINT
  updater,    \* where update_process stands
  drawn,      \* cells of the live picture it has read
  picture,    \* what the screen shows, per cell
  data,       \* its parsed history, one [Cell -> Content] per row
  num,        \* the row shown
  sent,       \* frames taken from the client so far
  peer,       \* "up", or "gone" when the connection has ended
  restarts,
  paced       \* whether the timing assumptions below hold, never changed

receiverVars == << receiver, frame, rows, copied, pending >>
updaterVars  == << updater, drawn, picture, data, num >>
shared       == << file, upData, updateFlag, semaphore, quit >>
env          == << sent, peer, restarts, paced >>
vars         == << receiverVars, updaterVars, shared, env >>

ReceiverState ==
  {"command", "frame", "lock", "load", "open", "copy", "flag", "close",
   "unlock", "leave", "done"}
UpdaterState ==
  {"idle", "wait", "draw", "clear", "button", "load", "unlock",
   "show", "browse", "done"}

Storing == {"lock", "load", "open", "copy", "flag", "close", "unlock"}
Writing == {"copy", "flag", "close"}
Drawing == {"wait", "draw", "clear"}

Fresh == [c \in Cell |-> Zero]

OldRows(k) == [i \in 1 .. k |-> i - k - 1]

Init ==
  /\ receiver = "command" /\ frame = Zero /\ rows = << >> /\ copied = 0
  /\ pending = << >>
  /\ file \in {OldRows(k) : k \in 0 .. Capacity}
  /\ upData = Fresh /\ updateFlag = 0 /\ semaphore = 0 /\ quit = FALSE
  /\ updater = "idle" /\ drawn = 0 /\ picture = Fresh
  /\ data = << >> /\ num = -1
  /\ sent = 0 /\ peer = "up" /\ restarts = 0
  /\ paced \in BOOLEAN

-----------------------------------------------------------------------------
(* Timing.  The client leaves more than a second between two frames, so a  *)
(* frame finds the updater at rest; storing a frame takes milliseconds, so *)
(* a button is not pressed inside it.  Nothing in the server enforces      *)
(* either: in the behaviours where paced is FALSE they are dropped.        *)

QuietUpdater ==
  paced => \/ updater = "browse"
           \/ updater = "idle" /\ updateFlag = 0
QuietReceiver == paced => receiver = "command"
NotBetweenReads == paced => receiver \notin {"frame", "lock"}

-----------------------------------------------------------------------------
(* The receiver.  An operator Op_Bug, in this section and the next, is Op  *)
(* with a bug the code might have had; no action uses it.                  *)

(* Neither memset: after an empty read the buffer still says data_in. *)
ReadDataIn_NoMemset ==
  /\ receiver = "command" /\ sent < MaxFrames
  /\ QuietUpdater
  /\ receiver' = "frame"
  /\ UNCHANGED << frame, rows, copied, pending, updaterVars, shared, env >>

(* The first read of an iteration.  Anything but the two commands, the     *)
(* empty read of a closed connection included, leaves the loop where it    *)
(* is.                                                                     *)
ReadDataIn ==
  /\ receiver = "command" /\ peer = "up" /\ sent < MaxFrames
  /\ QuietUpdater
  /\ receiver' = "frame"
  /\ UNCHANGED << frame, rows, copied, pending, updaterVars, shared, env >>

ReadLogout ==
  /\ receiver = "command" /\ peer = "up"
  /\ receiver' = "leave"
  /\ UNCHANGED << frame, rows, copied, pending, updaterVars, shared, env >>

(* The second read: the client's next frame or, if the connection ended    *)
(* after the command, nothing: the cleared buffer is taken for a frame.    *)
ReadFrame ==
  /\ receiver = "frame"
  /\ IF peer = "up" THEN frame' = sent + 1 /\ sent' = sent + 1
                    ELSE frame' = Zero /\ sent' = sent
  /\ receiver' = "lock"
  /\ UNCHANGED << rows, copied, pending, updaterVars, shared,
                  peer, restarts, paced >>

Lock ==
  /\ receiver = "lock"
  /\ semaphore' = 1
  /\ receiver' = "load"
  /\ UNCHANGED << frame, rows, copied, pending, updaterVars,
                  file, upData, updateFlag, quit, env >>

LoadFile ==
  /\ receiver = "load"
  /\ rows' = file
  /\ receiver' = "open"
  /\ UNCHANGED << frame, copied, pending, updaterVars, shared, env >>

(* The new row is printed before the old ones. *)
OpenFile_NewestFirst ==
  /\ receiver = "open"
  /\ IF Len(rows) < Capacity
       THEN pending' = << frame >> /\ file' = file
       ELSE pending' = << frame >> \o Tail(rows) /\ file' = << >>
  /\ copied' = 0
  /\ receiver' = "copy"
  /\ UNCHANGED << frame, rows, updaterVars,
                  upData, updateFlag, semaphore, quit, env >>

(* The rows are not shifted before they are written back. *)
OpenFile_NoShift ==
  /\ receiver = "open"
  /\ IF Len(rows) < Capacity
       THEN pending' = << frame >> /\ file' = file
       ELSE /\ pending' = Append(SubSeq(rows, 1, Len(rows) - 1), frame)
            /\ file' = << >>
  /\ copied' = 0
  /\ receiver' = "copy"
  /\ UNCHANGED << frame, rows, updaterVars,
                  upData, updateFlag, semaphore, quit, env >>

(* The old rows are flushed before the new one is printed. *)
OpenFile_Flushes ==
  /\ receiver = "open"
  /\ pending' = << frame >>
  /\ file' = IF Len(rows) < Capacity THEN file ELSE Tail(rows)
  /\ copied' = 0
  /\ receiver' = "copy"
  /\ UNCHANGED << frame, rows, updaterVars,
                  upData, updateFlag, semaphore, quit, env >>

(* Fewer than Capacity rows: "a+", which adds one row.  Otherwise "w",     *)
(* which empties the file at once and later writes the rows back without   *)
(* the oldest.  Either way everything printed stays in the stdio buffer.   *)
OpenFile ==
  /\ receiver = "open"
  /\ IF Len(rows) < Capacity
       THEN pending' = << frame >> /\ file' = file
       ELSE pending' = Append(Tail(rows), frame) /\ file' = << >>
  /\ copied' = 0
  /\ receiver' = "copy"
  /\ UNCHANGED << frame, rows, updaterVars,
                  upData, updateFlag, semaphore, quit, env >>

CopyCell ==
  /\ receiver = "copy"
  /\ upData' = [upData EXCEPT ![CopyOrder[copied + 1]] = frame]
  /\ copied' = copied + 1
  /\ receiver' = IF copied + 1 = Len(CopyOrder) THEN "flag" ELSE "copy"
  /\ UNCHANGED << frame, rows, pending, updaterVars,
                  file, updateFlag, semaphore, quit, env >>

(* The flag is raised in the append branch only. *)
RaiseFlag_AppendOnly ==
  /\ receiver = "flag"
  /\ updateFlag' = IF Len(rows) < Capacity THEN 1 ELSE updateFlag
  /\ receiver' = "close"
  /\ UNCHANGED << frame, rows, copied, pending, updaterVars,
                  file, upData, semaphore, quit, env >>

RaiseFlag ==
  /\ receiver = "flag"
  /\ updateFlag' = 1
  /\ receiver' = "close"
  /\ UNCHANGED << frame, rows, copied, pending, updaterVars,
                  file, upData, semaphore, quit, env >>

(* No fclose: what was printed never reaches the file. *)
CloseFile_NoFlush ==
  /\ receiver = "close"
  /\ pending' = << >>
  /\ receiver' = "unlock"
  /\ UNCHANGED << frame, rows, copied, updaterVars, shared, env >>

CloseFile ==
  /\ receiver = "close"
  /\ file' = file \o pending
  /\ pending' = << >>
  /\ receiver' = "unlock"
  /\ UNCHANGED << frame, rows, copied, updaterVars,
                  upData, updateFlag, semaphore, quit, env >>

(* The semaphore is not cleared. *)
Unlock_Forgotten ==
  /\ receiver = "unlock"
  /\ receiver' = "command"
  /\ UNCHANGED << frame, rows, copied, pending, updaterVars, shared, env >>

Unlock ==
  /\ receiver = "unlock"
  /\ semaphore' = 0
  /\ receiver' = "command"
  /\ UNCHANGED << frame, rows, copied, pending, updaterVars,
                  file, upData, updateFlag, quit, env >>

(* After logout, main sends SIGINT to the updater and the parent returns. *)
Leave ==
  /\ receiver = "leave"
  /\ quit' = TRUE
  /\ receiver' = "done"
  /\ UNCHANGED << frame, rows, copied, pending, updaterVars,
                  file, upData, updateFlag, semaphore, env >>

-----------------------------------------------------------------------------
(* The updater. *)

(* Top of the loop.  The buttons are sampled before the flag is looked at, *)
(* and acted upon after the drawing; nothing in between depends on them,   *)
(* so the press is chosen where it is acted upon.                          *)
SeeFlag ==
  /\ updater = "idle" /\ ~quit
  /\ updater' = IF updateFlag = 1 THEN "wait" ELSE "button"
  /\ UNCHANGED << drawn, picture, data, num, receiverVars, shared, env >>

QuitUpdater ==
  /\ updater = "idle" /\ quit
  /\ updater' = "done"
  /\ UNCHANGED << drawn, picture, data, num, receiverVars, shared, env >>

(* No wait for the semaphore. *)
PassSemaphore_NoWait ==
  /\ updater = "wait"
  /\ updater' = "draw" /\ drawn' = 0
  /\ UNCHANGED << picture, data, num, receiverVars, shared, env >>

(* The updater spins while the semaphore is up. *)
PassSemaphore ==
  /\ updater = "wait" /\ semaphore = 0
  /\ updater' = "draw" /\ drawn' = 0
  /\ UNCHANGED << picture, data, num, receiverVars, shared, env >>

(* The date on the text LCD is not written anew. *)
DrawCell_OldDate ==
  /\ updater = "draw"
  /\ LET c == DrawOrder[drawn + 1]
     IN  picture' = [picture EXCEPT ![c] = IF c = "stamp" THEN @ ELSE upData[c]]
  /\ drawn' = drawn + 1
  /\ updater' = IF drawn + 1 = Len(DrawOrder) THEN "clear" ELSE "draw"
  /\ UNCHANGED << data, num, receiverVars, shared, env >>

DrawCell ==
  /\ updater = "draw"
  /\ LET c == DrawOrder[drawn + 1]
     IN  picture' = [picture EXCEPT ![c] = upData[c]]
  /\ drawn' = drawn + 1
  /\ updater' = IF drawn + 1 = Len(DrawOrder) THEN "clear" ELSE "draw"
  /\ UNCHANGED << data, num, receiverVars, shared, env >>

ClearFlag ==
  /\ updater = "clear"
  /\ updateFlag' = 0
  /\ updater' = "button"
  /\ UNCHANGED << drawn, picture, data, num, receiverVars,
                  file, upData, semaphore, quit, env >>

NoPress ==
  /\ updater = "button"
  /\ updater' = "idle"
  /\ UNCHANGED << drawn, picture, data, num, receiverVars, shared, env >>

PressHistory ==
  /\ updater = "button" /\ QuietReceiver
  /\ semaphore' = 1
  /\ updater' = "load"
  /\ UNCHANGED << drawn, picture, data, num, receiverVars,
                  file, upData, updateFlag, quit, env >>

(* The parser drops neither the newline nor the terminator of a line, and  *)
(* both end up in front of the first number of the next one: from the      *)
(* second row on the first value reads as 0.                               *)
ParseRow(i, f) ==
  [c \in Cell |-> IF c = "first" /\ i > 1 THEN Zero ELSE f]

(* The file is shorter than a stdio block, so it comes with one read.  A   *)
(* second read finds its end, as long as no whole frame is stored between  *)
(* the two.                                                                *)
LoadHistory ==
  /\ updater = "load"
  /\ data' = [i \in 1 .. Len(file) |-> ParseRow(i, file[i])]
  /\ num' = Len(file) - 1
  /\ updater' = "unlock"
  /\ UNCHANGED << drawn, picture, receiverVars, shared, env >>

(* The semaphore is cleared, whoever set it. *)
UnlockHistory ==
  /\ updater = "unlock"
  /\ semaphore' = 0
  /\ updater' = "show"
  /\ UNCHANGED << drawn, picture, data, num, receiverVars,
                  file, upData, updateFlag, quit, env >>

Row(k) == IF k + 1 \in DOMAIN data THEN data[k + 1]
                                   ELSE [c \in Cell |-> Garbage]

ShowNewest ==
  /\ updater = "show"
  /\ picture' = Row(num)
  /\ updater' = "browse"
  /\ UNCHANGED << drawn, data, num, receiverVars, shared, env >>

Back ==
  /\ updater = "browse"
  /\ num' = IF num > 0 THEN num - 1 ELSE num
  /\ picture' = Row(num')
  /\ UNCHANGED << updater, drawn, data, receiverVars, shared, env >>

(* num < n for num < n-1. *)
Forward_OffByOne ==
  /\ updater = "browse"
  /\ num' = IF num < Len(data) THEN num + 1 ELSE num
  /\ picture' = Row(num')
  /\ UNCHANGED << updater, drawn, data, receiverVars, shared, env >>

Forward ==
  /\ updater = "browse"
  /\ num' = IF num < Len(data) - 1 THEN num + 1 ELSE num
  /\ picture' = Row(num')
  /\ UNCHANGED << updater, drawn, data, receiverVars, shared, env >>

LeaveHistory ==
  /\ updater = "browse" /\ NotBetweenReads
  /\ updater' = "idle"
  /\ UNCHANGED << drawn, picture, data, num, receiverVars, shared, env >>

-----------------------------------------------------------------------------
(* The surroundings. *)

(* The client is gone without a logout: the socket delivers end of file. *)
Hangup ==
  /\ peer = "up" /\ peer' = "gone"
  /\ UNCHANGED << receiverVars, updaterVars, shared, sent, restarts, paced >>

(* SIGINT from the terminal.  Only the updater looks at quit. *)
Interrupt ==
  /\ ~quit /\ quit' = TRUE
  /\ UNCHANGED << receiverVars, updaterVars,
                  file, upData, updateFlag, semaphore, env >>

(* The server dies at any point, or has ended, and is started again: only *)
(* the file survives, without what was still in the stdio buffer.         *)
Restart ==
  /\ restarts < MaxRestarts /\ restarts' = restarts + 1
  /\ receiver' = "command" /\ frame' = Zero /\ rows' = << >> /\ copied' = 0
  /\ pending' = << >>
  /\ upData' = Fresh /\ updateFlag' = 0 /\ semaphore' = 0 /\ quit' = FALSE
  /\ updater' = "idle" /\ drawn' = 0 /\ picture' = Fresh
  /\ data' = << >> /\ num' = -1
  /\ peer' = "up"
  /\ UNCHANGED << file, sent, paced >>

-----------------------------------------------------------------------------
Receiver ==
  \/ ReadDataIn \/ ReadLogout \/ ReadFrame \/ Lock \/ LoadFile \/ OpenFile
  \/ CopyCell \/ RaiseFlag \/ CloseFile \/ Unlock \/ Leave

(* What the updater does without the user. *)
UpdaterStep ==
  \/ SeeFlag \/ QuitUpdater \/ PassSemaphore \/ DrawCell \/ ClearFlag
  \/ NoPress \/ LoadHistory \/ UnlockHistory \/ ShowNewest

User == PressHistory \/ Back \/ Forward \/ LeaveHistory

Environment == Hangup \/ Interrupt \/ Restart

Next == Receiver \/ UpdaterStep \/ User \/ Environment

Spec == Init /\ [][Next]_vars

(* The scheduler runs both processes; nobody is obliged to press a button, *)
(* to send a frame or to log out.  A frame announced is sent, or the       *)
(* connection ends: either way the second read returns.                    *)
Fairness ==
  /\ WF_vars(ReadFrame \/ Lock \/ LoadFile \/ OpenFile \/ CopyCell
             \/ RaiseFlag \/ CloseFile \/ Unlock \/ Leave)
  /\ WF_vars(UpdaterStep)

FairSpec == Spec /\ Fairness

-----------------------------------------------------------------------------
ReceiverTypeOK ==
  /\ receiver \in ReceiverState /\ frame \in Frame
  /\ rows \in Seq(Frame) /\ pending \in Seq(Frame)
  /\ copied \in 0 .. Len(CopyOrder)
UpdaterTypeOK ==
  /\ updater \in UpdaterState /\ drawn \in 0 .. Len(DrawOrder)
  /\ picture \in [Cell -> Content]
  /\ data \in Seq([Cell -> Content]) /\ num \in -1 .. Capacity
SharedTypeOK ==
  /\ file \in Seq(Frame) /\ upData \in [Cell -> Content]
  /\ updateFlag \in {0, 1} /\ semaphore \in {0, 1} /\ quit \in BOOLEAN
EnvTypeOK ==
  /\ sent \in 0 .. MaxFrames /\ peer \in {"up", "gone"}
  /\ restarts \in 0 .. MaxRestarts /\ paced \in BOOLEAN

(* Types: every variable of the two processes, of the memory they share    *)
(* and of their surroundings stays in its set.                             *)
TypeOK == ReceiverTypeOK /\ UpdaterTypeOK /\ SharedTypeOK /\ EnvTypeOK

(* input.txt, the copy the receiver loads and the table the updater parses *)
(* into never hold more than Capacity rows (str_buff and data have room    *)
(* for ten), whatever the two processes do and wherever the server dies.   *)
HistoryBounded ==
  /\ Len(file) <= Capacity
  /\ Len(rows) <= Capacity
  /\ Len(data) <= Capacity

(* The rows of input.txt are in the order in which their frames were sent, *)
(* through rewrites, crashes and restarts.  (A row of zeros, recorded when *)
(* the connection ends between the two reads, is no frame.)                *)
HistoryInOrder ==
  \A i, j \in DOMAIN file :
    i < j /\ file[i] # Zero /\ file[j] # Zero => file[i] < file[j]

(* A lost connection can put a row of zeros into the log, but one at most  *)
(* for each time the server ran: after it the receiver sees no command.    *)
ForgedRows ==
  Cardinality({i \in DOMAIN file : file[i] = Zero}) <= restarts + 1

(* Between two frames, a raised update_flag means that up_data is, cell by *)
(* cell, the row that input.txt ends with: what is going to be drawn is    *)
(* what was recorded.                                                      *)
PublishedIsRecorded ==
  updateFlag = 1 /\ receiver \in ReceiverState \ (Writing \cup {"open"})
    => file # << >> /\ upData = [c \in Cell |-> file[Len(file)]]

(* The browsed row exists, unless the history was empty when it was loaded *)
(* (then num is -1 and the code draws what lies in front of the table).    *)
BrowseInRange ==
  updater = "browse" =>
    IF data = << >> THEN num = -1 ELSE num + 1 \in DOMAIN data

(* A live picture can be torn, because the receiver never tests the        *)
(* semaphore.  A cell may be newer than one read before it by any number   *)
(* of frames, if the drawing is slow, but it is at most one frame older.   *)
AtMostOneOlder ==
  updater = "clear" /\ (\A c \in Cell : picture[c] > Zero) =>
    \A i, j \in 1 .. Len(DrawOrder) :
      i < j => picture[DrawOrder[j]] >= picture[DrawOrder[i]] - 1

(* Under the timing assumptions a finished live picture is one frame: the  *)
(* semaphore covers the one case they leave, the user coming back from the *)
(* history while a frame is being stored.                                  *)
PictureWhole ==
  paced /\ updater = "clear" => \A c, d \in Cell : picture[c] = picture[d]

(* input.txt as its owner means it: while the rows are being written back, *)
(* what was loaded.                                                        *)
History == IF receiver \in Writing THEN rows ELSE file

(* Under any timing the user browses the whole log or, when the load falls *)
(* between fopen "w" and fclose, an empty one: never a part of it, and     *)
(* never the row that is being stored before it is recorded.  It is the    *)
(* buffer of stdio that sees to it, not the semaphore, which no one tests  *)
(* here.                                                                   *)
LoadsAllOrNothing ==
  [][updater = "load" /\ updater' = "unlock" =>
       \/ data' = [i \in 1 .. Len(History) |-> ParseRow(i, History[i])]
       \/ data' = << >> /\ receiver \in Writing /\ Len(rows) = Capacity]_vars

(* The file implements the log of the last Capacity frames: a frame is     *)
(* recorded in one step, when the file is closed, and the only other thing *)
(* that can happen to the log is its loss.                                 *)
Log == INSTANCE HistoryLog WITH log <- History
LogSpec == Log!Spec

(* What makes the refinement work: from fopen to fclose, the file together *)
(* with the unflushed rows is the log the frame will have been added to.   *)
FileInv ==
  /\ receiver = "open" => rows = file
  /\ receiver \in Writing =>
       /\ file = IF Len(rows) < Capacity THEN rows ELSE << >>
       /\ file \o pending = Log!Latest(Append(rows, frame))

(* The log is lost only when the server dies between fopen "w" and fclose. *)
LostOnlyInRewrite ==
  [][History # << >> /\ History' = << >> =>
       receiver \in Writing /\ file = << >> /\ restarts' # restarts]_vars

(* Under the timing assumptions the updater ends after logout or SIGINT,   *)
(* or the user is browsing: the history screen has its own loop, which     *)
(* does not look at quit.  (Only a new start of the server clears quit.)   *)
ShutsDown == (paced /\ quit) ~> (updater \in {"done", "browse"} \/ ~quit)

(* Under the timing assumptions a published frame gets on the screen: from *)
(* the moment the flag is raised the picture catches up with up_data,      *)
(* unless the updater is told to quit or the user never leaves the history.*)
FrameShown ==
  (paced /\ receiver = "flag") ~> \/ picture = upData
                                  \/ quit
                                  \/ [](updater = "browse")
=============================================================================
