----------------------------- MODULE RadarLink -----------------------------
(***************************************************************************)
(* The connection between the radar client and the radar server: the       *)
(* processes of GAM-Z_client.c that touch the socket or data_buf, the      *)
(* socket, and the read loop of GAM-Z_server.c.                            *)
(*                                                                         *)
(* The client's radar process fills data_buf and raises send_flag; its     *)
(* sender writes "data_in", pauses, and writes the 70 bytes of data_buf;   *)
(* its panel process (fpga_process), on the exit button, writes "logout"   *)
(* on the same socket and kills the others.  The server takes whatever one *)
(* read returns for one command or for one frame.                          *)
(***************************************************************************)
EXTENDS Integers, Sequences

CONSTANTS MaxFrames,  \* bound: frames the radar produces
          Timings     \* sets of timing assumptions considered, see below

ASSUME LinkAssumption ==
  /\ MaxFrames \in Nat
  /\ Timings \subseteq SUBSET {"prompt", "slow", "quiet"}

VARIABLES
  radar,         \* where radar_process stands with the frame it reports
  dataBuf,       \* data_buf, in two parts: the frame each part belongs to
  produced,      \* frames the radar has begun to put into data_buf
  sendFlag,      \* send_flag
  sender,        \* where retry and client_send_process stand
  panel,         \* where fpga_process stands with its exit
  dataSemaphore, \* data_semaphore; nobody tests it
  connected,     \* connected_flag
  radarQuit,     \* the radar's quit, set by SIGINT
  sock,          \* written and not yet read, one element per write
  server,        \* where the server stands
  recorded,      \* what the server took for frames, oldest first
  timing         \* the timing assumptions that hold, never changed

client == << radar, dataBuf, produced, sendFlag, sender, panel,
             dataSemaphore, connected, radarQuit, timing >>
vars == << client, sock, server, recorded >>

Part == {"left", "right"}

(* A write, or what one read was taken for.  Only frames have contents.    *)
NoContents == [p \in Part |-> 0]
Message(k) == [kind |-> k, part |-> NoContents]
FrameOf(b) == [kind |-> "frame", part |-> b]

Messages == [kind : {"data_in", "logout", "frame", "zeros"},
             part : [Part -> 0 .. MaxFrames]]

(* connect() succeeds when the client starts, or it does not: then the     *)
(* server stays in accept(), and the first child retries elsewhere.        *)
Init ==
  /\ radar = "sweep" /\ dataBuf = NoContents /\ produced = 0 /\ sendFlag = 0
  /\ panel = "run" /\ dataSemaphore = 0 /\ radarQuit = FALSE
  /\ connected \in {0, 1}
  /\ sender = IF connected = 1 THEN "poll" ELSE "retry"
  /\ server = IF connected = 1 THEN "command" ELSE "accept"
  /\ sock = << >> /\ recorded = << >>
  /\ timing \in Timings

-----------------------------------------------------------------------------
(* Timing.  Prompt: the server has read a write before the next one is     *)
(* made.  SlowRadar: half a sweep takes longer than sending a frame.       *)
(* QuietExit: the exit button is not pressed while a frame is on its way,  *)
(* and none is begun before the client has ended.  The code contains       *)
(* nothing that makes them true.                                           *)

Prompt    == "prompt" \in timing
SlowRadar == "slow" \in timing
QuietExit == "quiet" \in timing

SocketReady == Prompt => sock = << >>
Idle == sendFlag = 0 /\ sender = "poll"
RadarReady ==
  /\ SlowRadar => Idle \/ sender \in {"retry", "ended", "dead"}
  /\ QuietExit => panel = "run"
ExitReady ==
  QuietExit => radar = "sweep" /\ sock = << >> /\ server # "frame"
                 /\ (Idle \/ sender \in {"retry", "ended"})

-----------------------------------------------------------------------------
(* The radar.  As in RadarServer, Op_Bug is Op with a plausible bug.       *)

(* After half a sweep with a warning in it (buz_flag) the 61 distances are *)
(* copied into data_buf; without a warning nothing happens here.           *)
StartFill ==
  /\ radar = "sweep" /\ ~radarQuit /\ produced < MaxFrames /\ RadarReady
  /\ produced' = produced + 1
  /\ dataBuf' = [dataBuf EXCEPT !["left"] = produced + 1]
  /\ radar' = "fill"
  /\ UNCHANGED << timing, sendFlag, sender, panel, dataSemaphore, connected,
                  radarQuit,
                  sock, server, recorded >>

(* The flag is raised before the last distances are copied. *)
EndFill_FlagFirst ==
  /\ radar = "fill"
  /\ sendFlag' = 1
  /\ radar' = "flag"
  /\ UNCHANGED << timing, dataBuf, produced, sender, panel, dataSemaphore,
                  connected,
                  radarQuit, sock, server, recorded >>

EndFill ==
  /\ radar = "fill"
  /\ dataBuf' = [dataBuf EXCEPT !["right"] = produced]
  /\ radar' = "flag"
  /\ UNCHANGED << timing, produced, sendFlag, sender, panel, dataSemaphore,
                  connected,
                  radarQuit, sock, server, recorded >>

RaiseSendFlag ==
  /\ radar = "flag"
  /\ sendFlag' = 1
  /\ radar' = "sweep"
  /\ UNCHANGED << timing, dataBuf, produced, sender, panel, dataSemaphore,
                  connected,
                  radarQuit, sock, server, recorded >>

StopRadar ==
  /\ radar = "sweep" /\ radarQuit
  /\ radar' = "ended"
  /\ UNCHANGED << timing, dataBuf, produced, sendFlag, sender, panel,
                  dataSemaphore,
                  connected, radarQuit, sock, server, recorded >>

-----------------------------------------------------------------------------
(* The sender. *)

SeeSendFlag ==
  /\ sender = "poll" /\ sendFlag = 1
  /\ dataSemaphore' = 1
  /\ sender' = "command"
  /\ UNCHANGED << timing, radar, dataBuf, produced, sendFlag, panel, connected,
                  radarQuit, sock, server, recorded >>

WriteCommand ==
  /\ sender = "command" /\ SocketReady
  /\ sock' = Append(sock, Message("data_in"))
  /\ sender' = "frame"
  /\ UNCHANGED << timing, radar, dataBuf, produced, sendFlag, panel,
                  dataSemaphore,
                  connected, radarQuit, server, recorded >>

(* The frame is not written: the flag is cleared first. *)
WriteFrame_Skipped ==
  /\ sender = "frame"
  /\ sender' = "clear"
  /\ UNCHANGED << timing, radar, dataBuf, produced, sendFlag, panel,
                  dataSemaphore,
                  connected, radarQuit, sock, server, recorded >>

(* The frame is sent before its last distances are in it. *)
WriteFrame_Early ==
  /\ sender = "frame" /\ SocketReady
  /\ sock' = Append(sock, FrameOf([dataBuf EXCEPT !["right"] = 0]))
  /\ sender' = "clear"
  /\ UNCHANGED << timing, radar, dataBuf, produced, sendFlag, panel,
                  dataSemaphore,
                  connected, radarQuit, server, recorded >>

(* data_buf is sent as it is at this moment. *)
WriteFrame ==
  /\ sender = "frame" /\ SocketReady
  /\ sock' = Append(sock, FrameOf(dataBuf))
  /\ sender' = "clear"
  /\ UNCHANGED << timing, radar, dataBuf, produced, sendFlag, panel,
                  dataSemaphore,
                  connected, radarQuit, server, recorded >>

ClearSendFlag ==
  /\ sender = "clear"
  /\ sendFlag' = 0
  /\ sender' = "unlock"
  /\ UNCHANGED << timing, radar, dataBuf, produced, panel, dataSemaphore,
                  connected,
                  radarQuit, sock, server, recorded >>

ReleaseData ==
  /\ sender = "unlock"
  /\ dataSemaphore' = 0
  /\ sender' = "poll"
  /\ UNCHANGED << timing, radar, dataBuf, produced, sendFlag, panel, connected,
                  radarQuit, sock, server, recorded >>

(* retry connects to port 4002 of its own host.  If anything answers there *)
(* the flag is set and the process returns: nobody is left to send.        *)
Reconnect ==
  /\ sender = "retry"
  /\ connected' = 1
  /\ sender' = "ended"
  /\ UNCHANGED << timing, radar, dataBuf, produced, sendFlag, panel,
                  dataSemaphore,
                  radarQuit, sock, server, recorded >>

-----------------------------------------------------------------------------
(* The panel's exit. *)

PressExit ==
  /\ panel = "run" /\ ExitReady
  /\ IF connected = 1 THEN dataSemaphore' = 1 /\ panel' = "logout"
                      ELSE dataSemaphore' = dataSemaphore /\ panel' = "kill"
  /\ UNCHANGED << timing, radar, dataBuf, produced, sendFlag, sender,
                  connected,
                  radarQuit, sock, server, recorded >>

(* The socket is closed before logout is written. *)
WriteLogout_Closed ==
  /\ panel = "logout" /\ SocketReady
  /\ dataSemaphore' = 0
  /\ panel' = "kill"
  /\ UNCHANGED << timing, radar, dataBuf, produced, sendFlag, sender,
                  connected,
                  radarQuit, sock, server, recorded >>

(* A connected client is connected to the server if its first connect      *)
(* succeeded.  After a retry it is connected to whatever answered on port  *)
(* 4002 of its own host, and logout goes there.                            *)
WriteLogout ==
  /\ panel = "logout" /\ SocketReady
  /\ sock' = IF server = "accept" THEN sock ELSE Append(sock, Message("logout"))
  /\ dataSemaphore' = 0
  /\ panel' = "kill"
  /\ UNCHANGED << timing, radar, dataBuf, produced, sendFlag, sender,
                  connected,
                  radarQuit, server, recorded >>

(* SIGINT: the sender has no handler and dies, the radar sets its quit.    *)
KillChildren ==
  /\ panel = "kill"
  /\ sender' = "dead"
  /\ radarQuit' = TRUE
  /\ panel' = "ended"
  /\ UNCHANGED << timing, radar, dataBuf, produced, sendFlag, dataSemaphore,
                  connected,
                  sock, server, recorded >>

ClientGone == panel = "ended" /\ sender = "dead" /\ radar = "ended"

-----------------------------------------------------------------------------
(* The server.  read() returns what has arrived of what was written, at    *)
(* least one byte; short writes arrive whole.  strcmp sees the first       *)
(* message of what was read, and so do the 70 bytes that are recorded; the *)
(* rest of what was read is thrown away.                                   *)

(* Anything but data_in ends the loop. *)
ReadCommand_LeavesOnOther ==
  /\ server = "command"
  /\ \E k \in 1 .. Len(sock) :
       /\ sock' = SubSeq(sock, k + 1, Len(sock))
       /\ server' = IF sock[1].kind = "data_in" THEN "frame" ELSE "left"
  /\ UNCHANGED << client, recorded >>

ReadCommand ==
  /\ server = "command"
  /\ \E k \in 1 .. Len(sock) :
       /\ sock' = SubSeq(sock, k + 1, Len(sock))
       /\ server' = CASE sock[1].kind = "logout"  -> "left"
                      [] sock[1].kind = "data_in" -> "frame"
                      [] OTHER                    -> "command"
  /\ UNCHANGED << client, recorded >>

(* The new row is put in front of the others. *)
ReadFrame_NewestFirst ==
  /\ server = "frame"
  /\ \E k \in 1 .. Len(sock) :
       /\ sock' = SubSeq(sock, k + 1, Len(sock))
       /\ recorded' = << sock[1] >> \o recorded
  /\ server' = "command"
  /\ UNCHANGED client

ReadFrame ==
  /\ server = "frame"
  /\ \E k \in 1 .. Len(sock) :
       /\ sock' = SubSeq(sock, k + 1, Len(sock))
       /\ recorded' = Append(recorded, sock[1])
  /\ server' = "command"
  /\ UNCHANGED client

(* End of file instead of a frame: the cleared buffer is recorded.  (End   *)
(* of file instead of a command changes nothing: the loop reads again.)    *)
ReadNothing ==
  /\ server = "frame" /\ sock = << >> /\ ClientGone
  /\ recorded' = Append(recorded, Message("zeros"))
  /\ server' = "command"
  /\ UNCHANGED << client, sock >>

-----------------------------------------------------------------------------
RadarStep  == StartFill \/ EndFill \/ RaiseSendFlag \/ StopRadar
SenderStep ==
  \/ SeeSendFlag \/ WriteCommand \/ WriteFrame \/ ClearSendFlag \/ ReleaseData
PanelStep  == WriteLogout \/ KillChildren
ServerStep == ReadCommand \/ ReadFrame \/ ReadNothing

Next == \/ RadarStep \/ SenderStep \/ Reconnect \/ PressExit \/ PanelStep
        \/ ServerStep

Spec == Init /\ [][Next]_vars

(* Every process is scheduled and every write is delivered.  Nobody has to *)
(* come near the radar, press exit, or answer on port 4002.                *)
Fairness ==
  /\ WF_vars(EndFill \/ RaiseSendFlag \/ StopRadar)
  /\ WF_vars(SenderStep) /\ WF_vars(PanelStep) /\ WF_vars(ServerStep)

FairSpec == Spec /\ Fairness

-----------------------------------------------------------------------------
(* Types of the client's and the server's state and of the socket. *)
TypeOK ==
  /\ radar \in {"sweep", "fill", "flag", "ended"}
  /\ dataBuf \in [Part -> 0 .. MaxFrames] /\ produced \in 0 .. MaxFrames
  /\ sendFlag \in {0, 1} /\ connected \in {0, 1} /\ dataSemaphore \in {0, 1}
  /\ sender \in {"poll", "command", "frame", "clear", "unlock", "retry",
                 "ended", "dead"}
  /\ panel \in {"run", "logout", "kill", "ended"} /\ radarQuit \in BOOLEAN
  /\ server \in {"accept", "command", "frame", "left"}
  /\ sock \in Seq(Messages) /\ recorded \in Seq(Messages)
  /\ timing \in Timings

IsFrame(m) == m.kind = "frame"
NotAfter(m, n) == \A p \in Part : m.part[p] <= n.part[p]

(* Whatever the timing: what is recorded of the frames is in the order in  *)
(* which the radar made them (a frame may be lost, or recorded twice when  *)
(* the radar overtakes the sender, but never comes after a later one).     *)
FramesInOrder ==
  \A i, j \in DOMAIN recorded :
    i < j /\ IsFrame(recorded[i]) /\ IsFrame(recorded[j])
      => NotAfter(recorded[i], recorded[j])

(* A frame the radar was filling when it was sent mixes two half sweeps,   *)
(* never more: its beginning is at most one frame ahead of its end.        *)
TornByOne ==
  \A i \in DOMAIN recorded :
    IsFrame(recorded[i]) =>
      recorded[i].part["left"] - recorded[i].part["right"] \in {0, 1}

(* The server leaves only because the exit button was pressed on a client  *)
(* that is connected to it; a lost client is no reason.                    *)
LeavesOnLogout == server = "left" => panel \in {"kill", "ended"} /\ connected = 1

(* With a prompt server and a slow radar, and until exit is pressed, the   *)
(* server records exactly the radar's frames: none torn, none doubled,     *)
(* nothing else in between, and when nothing is under way all of them.     *)
RecordsEachFrame ==
  Prompt /\ SlowRadar /\ panel = "run" /\ server # "accept" =>
    /\ \A i \in DOMAIN recorded : recorded[i] = FrameOf([p \in Part |-> i])
    /\ radar = "sweep" /\ Idle /\ sock = << >> => Len(recorded) = produced

(* With a prompt server and a slow radar a frame put into data_buf reaches *)
(* the server's log, unless exit comes first or there is no connection.    *)
FrameArrives ==
  \A f \in 1 .. MaxFrames :
    (Prompt /\ SlowRadar /\ produced = f)
      ~> \/ f \in DOMAIN recorded /\ recorded[f].kind = "frame"
         \/ panel # "run" \/ server = "accept"

(* With a prompt server, however often the radar overtakes the sender: what *)
(* is in data_buf while its flag is up, and not about to be cleared, comes *)
(* to the server's log, as that frame or mixed with or replaced by a newer *)
(* one, unless exit comes first.  A flag that is raised between the write  *)
(* and its clearing is lost.                                               *)
NewestArrives ==
  \A f \in 1 .. MaxFrames :
    (/\ Prompt /\ server # "accept" /\ sendFlag = 1 /\ sender # "clear"
     /\ dataBuf["right"] = f)
      ~> \/ \E i \in DOMAIN recorded : recorded[i].part["right"] >= f
         \/ panel # "run"

(* The exit button ends the server as well, as the comment in the client's *)
(* main says, provided that the two were connected when it was pressed.    *)
ExitEndsServer == (panel = "logout" /\ server # "accept") ~> (server = "left")

(* It does when all three timing assumptions hold.                         *)
QuietExitEndsServer ==
  (Prompt /\ SlowRadar /\ QuietExit /\ panel = "logout" /\ server # "accept")
    ~> (server = "left")
=============================================================================
