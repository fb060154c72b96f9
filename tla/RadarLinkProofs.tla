-------------------------- MODULE RadarLinkProofs --------------------------
(***************************************************************************)
(* Proof that with a prompt server and a slow radar the link records every *)
(* frame exactly once, in order and untorn, for any number of frames.      *)
(***************************************************************************)
EXTENDS RadarLink, TLAPS

Whole(k) == FrameOf([p \in Part |-> k])

(* The frame that is in data_buf, or on its way there, and not yet written *)
(* to the socket.                                                          *)
Unsent == \/ radar \in {"fill", "flag"}
          \/ sendFlag = 1 /\ sender \in {"poll", "command", "frame"}

(* data_buf holds one frame except while the radar fills it, which it does *)
(* only when the sender is idle.                                           *)
BufferInv ==
  /\ produced \in Nat /\ dataBuf \in [Part -> Int]
  /\ radar \in {"sweep", "fill", "flag"} /\ sendFlag \in {0, 1}
  /\ dataBuf["left"] = produced
  /\ radar # "fill" => dataBuf["right"] = produced
  /\ radar # "sweep" => Idle
  /\ ~radarQuit
  /\ sender \in {"poll", "command", "frame", "clear", "unlock"}
  /\ sender \in {"command", "frame", "clear"} => sendFlag = 1
  /\ sender = "unlock" => sendFlag = 0

(* At most one message is in the socket, and the server expects the        *)
(* message that is, or will be, there.                                     *)
SocketInv ==
  \/ /\ sock = << >>
     /\ server = IF sender = "frame" THEN "frame" ELSE "command"
  \/ /\ sock = << Message("data_in") >>
     /\ server = "command" /\ sender = "frame"
  \/ /\ sock = << Whole(Len(recorded) + 1) >>
     /\ server = "frame" /\ sender # "frame"

InSocket == IF sock # << >> /\ server = "frame" THEN 1 ELSE 0

(* Every frame produced is recorded, in the socket or unsent. *)
CountInv ==
  /\ recorded \in Seq(Messages \cup {Whole(k) : k \in Nat})
  /\ \A i \in DOMAIN recorded : recorded[i] = Whole(i)
  /\ produced = Len(recorded) + InSocket + (IF Unsent THEN 1 ELSE 0)

Linked == panel = "run" /\ server # "accept"

IInv == Prompt /\ SlowRadar /\ Linked => BufferInv /\ SocketInv /\ CountInv

LEMMA Initial == Init => IInv
<1> SUFFICES ASSUME Init, Linked PROVE BufferInv /\ SocketInv /\ CountInv
  BY DEF IInv
<1>1. sender = "poll" /\ server = "command"
  BY DEF Init, Linked
<1>2. BufferInv
  BY <1>1 DEF Init, BufferInv, NoContents, Part, Idle
<1>3. SocketInv
  BY <1>1 DEF Init, SocketInv
<1>4. CountInv
  BY <1>1 DEF Init, CountInv, InSocket, Unsent
<1>5. QED
  BY <1>2, <1>3, <1>4

LEMMA WholeFacts ==
  \A k \in Int : /\ Whole(k).kind = "frame"
                 /\ \A b \in [Part -> Int] :
                      b["left"] = k /\ b["right"] = k => FrameOf(b) = Whole(k)
  BY DEF Whole, FrameOf, Part

LEMMA TimingFixed == [Next]_vars => timing' = timing
  BY DEF Next, RadarStep, SenderStep, PanelStep, ServerStep, vars, client,
     StartFill, EndFill, RaiseSendFlag, StopRadar, SeeSendFlag, WriteCommand,
     WriteFrame, ClearSendFlag, ReleaseData, Reconnect, PressExit, WriteLogout,
     KillChildren, ReadCommand, ReadFrame, ReadNothing

LEMMA Step == IInv /\ [Next]_vars => IInv'
<1> SUFFICES ASSUME Prompt, SlowRadar, IInv, [Next]_vars, Linked'
             PROVE  BufferInv' /\ SocketInv' /\ CountInv'
  BY TimingFixed DEF IInv, Prompt, SlowRadar
<1>1. Linked
  BY DEF Linked, Next, RadarStep, SenderStep, PanelStep, ServerStep, vars, client,
     StartFill, EndFill, RaiseSendFlag, StopRadar, SeeSendFlag, WriteCommand,
     WriteFrame, ClearSendFlag, ReleaseData, Reconnect, PressExit, WriteLogout,
     KillChildren, ReadCommand, ReadFrame, ReadNothing
<1>2. BufferInv /\ SocketInv /\ CountInv
  BY <1>1 DEF IInv
<1> USE <1>1, <1>2 DEF Idle
<1>3. CASE StartFill
  <2>1. BufferInv'
    BY <1>3 DEF StartFill, BufferInv, RadarReady, Part
  <2>2. SocketInv'
    BY <1>3, WholeFacts DEF StartFill, BufferInv, SocketInv, Message, RadarReady
  <2>3. ~Unsent /\ Unsent' /\ InSocket' = InSocket
    BY <1>3 DEF StartFill, BufferInv, InSocket, Unsent, RadarReady
  <2>4. CountInv'
    BY <1>3, <2>3 DEF StartFill, BufferInv, CountInv, InSocket
  <2>5. QED
    BY <2>1, <2>2, <2>4
<1>4. CASE EndFill
  <2>1. BufferInv'
    BY <1>4 DEF EndFill, BufferInv, Part
  <2>2. SocketInv'
    BY <1>4, WholeFacts DEF EndFill, BufferInv, SocketInv, Message
  <2>3. CountInv'
    BY <1>4, WholeFacts DEF EndFill, BufferInv, SocketInv, CountInv, InSocket, Unsent,
       Message
  <2>4. QED
    BY <2>1, <2>2, <2>3
<1>5. CASE RaiseSendFlag
  <2>1. BufferInv'
    BY <1>5 DEF RaiseSendFlag, BufferInv, Part
  <2>2. SocketInv'
    BY <1>5, WholeFacts DEF RaiseSendFlag, BufferInv, SocketInv, Message
  <2>3. CountInv'
    BY <1>5, WholeFacts DEF RaiseSendFlag, BufferInv, SocketInv, CountInv, InSocket, Unsent,
       Message
  <2>4. QED
    BY <2>1, <2>2, <2>3
<1>6. CASE StopRadar
  <2>1. BufferInv'
    BY <1>6 DEF StopRadar, BufferInv, Part
  <2>2. SocketInv'
    BY <1>6, WholeFacts DEF StopRadar, BufferInv, SocketInv, Message
  <2>3. CountInv'
    BY <1>6, WholeFacts DEF StopRadar, BufferInv, SocketInv, CountInv, InSocket, Unsent,
       Message
  <2>4. QED
    BY <2>1, <2>2, <2>3
<1>7. CASE SeeSendFlag
  <2>1. BufferInv'
    BY <1>7 DEF SeeSendFlag, BufferInv, Part
  <2>2. SocketInv'
    BY <1>7, WholeFacts DEF SeeSendFlag, BufferInv, SocketInv, Message
  <2>3. CountInv'
    BY <1>7, WholeFacts DEF SeeSendFlag, BufferInv, SocketInv, CountInv, InSocket, Unsent,
       Message
  <2>4. QED
    BY <2>1, <2>2, <2>3
<1>8. CASE WriteCommand
  <2>1. BufferInv'
    BY <1>8 DEF WriteCommand, BufferInv, SocketReady, Part
  <2>2. SocketInv'
    BY <1>8, WholeFacts DEF WriteCommand, BufferInv, SocketInv, Message, SocketReady
  <2>3. CountInv'
    BY <1>8, WholeFacts DEF WriteCommand, BufferInv, SocketInv, CountInv, InSocket, Unsent,
       Message, SocketReady
  <2>4. QED
    BY <2>1, <2>2, <2>3
<1>9. CASE WriteFrame
  <2>1. BufferInv'
    BY <1>9 DEF WriteFrame, BufferInv
  <2>2. sock = << >> /\ server = "frame" /\ sender = "frame" /\ sendFlag = 1
    BY <1>9 DEF WriteFrame, SocketReady, SocketInv, BufferInv
  <2>3. radar = "sweep"
    BY <2>2 DEF BufferInv
  <2>4. produced = Len(recorded) + 1
    BY <2>2 DEF CountInv, InSocket, Unsent
  <2>5. FrameOf(dataBuf) = Whole(Len(recorded) + 1)
    BY <2>3, <2>4, WholeFacts DEF BufferInv
  <2>6. sock' = << Whole(Len(recorded) + 1) >>
    BY <1>9, <2>2, <2>5 DEF WriteFrame
  <2>7. SocketInv'
    BY <1>9, <2>2, <2>6 DEF WriteFrame, SocketInv
  <2>8. InSocket' = 1 /\ ~Unsent'
    BY <1>9, <2>2, <2>3, <2>6 DEF WriteFrame, InSocket, Unsent
  <2>9. CountInv'
    BY <1>9, <2>4, <2>8 DEF WriteFrame, CountInv
  <2>10. QED
    BY <2>1, <2>7, <2>9
<1>10. CASE ClearSendFlag
  <2>1. BufferInv'
    BY <1>10 DEF ClearSendFlag, BufferInv, Part
  <2>2. SocketInv'
    BY <1>10, WholeFacts DEF ClearSendFlag, BufferInv, SocketInv, Message
  <2>3. CountInv'
    BY <1>10, WholeFacts DEF ClearSendFlag, BufferInv, SocketInv, CountInv, InSocket, Unsent,
       Message
  <2>4. QED
    BY <2>1, <2>2, <2>3
<1>11. CASE ReleaseData
  <2>1. BufferInv'
    BY <1>11 DEF ReleaseData, BufferInv, Part
  <2>2. SocketInv'
    BY <1>11, WholeFacts DEF ReleaseData, BufferInv, SocketInv, Message
  <2>3. CountInv'
    BY <1>11, WholeFacts DEF ReleaseData, BufferInv, SocketInv, CountInv, InSocket, Unsent,
       Message
  <2>4. QED
    BY <2>1, <2>2, <2>3
<1>12. CASE Reconnect
  BY <1>12 DEF Reconnect, BufferInv, ClientGone, Linked
<1>13. CASE PressExit
  BY <1>13 DEF PressExit, Linked
<1>14. CASE WriteLogout
  BY <1>14 DEF WriteLogout, Linked
<1>15. CASE KillChildren
  BY <1>15 DEF KillChildren, Linked
<1>16. CASE ReadCommand
  <2>1. /\ sock = << Message("data_in") >> /\ sender = "frame"
        /\ server = "command"
    BY <1>16 DEF ReadCommand, SocketInv
  <2>2. sock' = << >> /\ server' = "frame"
    BY <1>16, <2>1 DEF ReadCommand, Message
  <2>3. BufferInv' /\ SocketInv'
    BY <1>16, <2>1, <2>2 DEF ReadCommand, client, BufferInv, SocketInv
  <2>4. InSocket = 0 /\ InSocket' = 0 /\ Unsent' = Unsent
    BY <1>16, <2>1, <2>2 DEF ReadCommand, client, InSocket, Unsent
  <2>5. CountInv'
    BY <1>16, <2>4 DEF ReadCommand, client, CountInv
  <2>6. QED
    BY <2>3, <2>5
<1>17. CASE ReadFrame
  <2>1. /\ sock = << Whole(Len(recorded) + 1) >> /\ sender # "frame"
        /\ server = "frame"
    BY <1>17 DEF ReadFrame, SocketInv
  <2>2. /\ sock' = << >> /\ server' = "command"
        /\ recorded' = Append(recorded, Whole(Len(recorded) + 1))
    BY <1>17, <2>1 DEF ReadFrame
  <2>3. BufferInv' /\ SocketInv'
    BY <1>17, <2>1, <2>2 DEF ReadFrame, client, BufferInv, SocketInv
  <2>4. InSocket = 1 /\ InSocket' = 0 /\ Unsent' = Unsent
    BY <1>17, <2>1, <2>2 DEF ReadFrame, client, InSocket, Unsent
  <2>5. /\ recorded' \in Seq(Messages \cup {Whole(k) : k \in Nat})
        /\ Len(recorded') = Len(recorded) + 1
        /\ \A i \in DOMAIN recorded' : recorded'[i] = Whole(i)
    BY <2>2 DEF CountInv
  <2>6. CountInv'
    BY <1>17, <2>4, <2>5 DEF ReadFrame, client, CountInv
  <2>7. QED
    BY <2>3, <2>6
<1>18. CASE ReadNothing
  BY <1>18 DEF ReadNothing, BufferInv, ClientGone, Linked
<1>19. CASE UNCHANGED vars
  BY <1>19 DEF vars, client, BufferInv, SocketInv, CountInv, InSocket, Unsent
<1>20. QED
  BY <1>3, <1>4, <1>5, <1>6, <1>7, <1>8, <1>9, <1>10, <1>11, <1>12, <1>13, <1>14, <1>15, <1>16, <1>17, <1>18, <1>19
  DEF Next, RadarStep, SenderStep, PanelStep, ServerStep

(* With a prompt server and a slow radar, and until exit is pressed, the   *)
(* server's log is the radar's frames 1, 2, 3, ..., and all of them when   *)
(* nothing is under way.                                                   *)
THEOREM EachFrameRecorded == Spec => []RecordsEachFrame
<1>1. IInv => RecordsEachFrame
  <2> SUFFICES ASSUME IInv, Linked, Prompt, SlowRadar
               PROVE  RecordsEachFrame
    BY DEF RecordsEachFrame, Linked
  <2>1. BufferInv /\ SocketInv /\ CountInv
    BY DEF IInv
  <2>2. \A i \in DOMAIN recorded : recorded[i] = FrameOf([p \in Part |-> i])
    BY <2>1 DEF CountInv, Whole
  <2>3. radar = "sweep" /\ Idle /\ sock = << >> => Len(recorded) = produced
    BY <2>1 DEF CountInv, BufferInv, InSocket, Unsent, Idle
  <2>4. QED
    BY <2>2, <2>3 DEF RecordsEachFrame
<1>2. QED
  BY <1>1, Initial, Step, PTL DEF Spec

-----------------------------------------------------------------------------
(* Whatever the timing.  First the types.                                  *)

ClientOK ==
  /\ radar \in {"sweep", "fill", "flag", "ended"} /\ sendFlag \in {0, 1}
  /\ connected \in {0, 1} /\ dataSemaphore \in {0, 1}
  /\ sender \in {"poll", "command", "frame", "clear", "unlock", "retry",
                 "ended", "dead"}
  /\ panel \in {"run", "logout", "kill", "ended"}
FixedOK == radarQuit \in BOOLEAN /\ timing \in Timings
ServerOK == server \in {"accept", "command", "frame", "left"}
BufferOK == dataBuf \in [Part -> 0 .. MaxFrames] /\ produced \in 0 .. MaxFrames
SockOK == sock \in Seq(Messages)
RecordedOK == recorded \in Seq(Messages)

LEMMA Parts == TypeOK <=>
  ClientOK /\ FixedOK /\ ServerOK /\ BufferOK /\ SockOK /\ RecordedOK
BY DEF TypeOK, ClientOK, FixedOK, ServerOK, BufferOK, SockOK, RecordedOK

LEMMA MessageTypes ==
  /\ \A k \in {"data_in", "logout", "zeros"} : Message(k) \in Messages
  /\ \A b \in [Part -> 0 .. MaxFrames] : FrameOf(b) \in Messages
<1>1. NoContents \in [Part -> 0 .. MaxFrames]
  BY LinkAssumption DEF NoContents
<1> QED BY <1>1 DEF Message, FrameOf, Messages

LEMMA Dropped ==
  ASSUME NEW s \in Seq(Messages), NEW k \in 1 .. Len(s)
  PROVE  /\ SubSeq(s, k + 1, Len(s)) \in Seq(Messages)
         /\ Len(SubSeq(s, k + 1, Len(s))) = Len(s) - k
         /\ \A i \in 1 .. Len(s) - k : SubSeq(s, k + 1, Len(s))[i] = s[i + k]
         /\ s[1] \in Messages
OBVIOUS

LEMMA TypesInit == Init => TypeOK
<1> SUFFICES ASSUME Init PROVE TypeOK
  OBVIOUS
<1>1. ClientOK /\ ServerOK
  BY DEF Init, ClientOK, ServerOK
<1>2. FixedOK
  BY Zenon DEF Init, FixedOK
<1>3. BufferOK
  BY LinkAssumption DEF Init, BufferOK, NoContents
<1>4. SockOK /\ RecordedOK
  BY DEF Init, SockOK, RecordedOK
<1> QED BY <1>1, <1>2, <1>3, <1>4, Parts

LEMMA TypesKept == TypeOK /\ [Next]_vars => TypeOK'
<1> SUFFICES ASSUME TypeOK, [Next]_vars PROVE TypeOK'
  OBVIOUS
<1>0. ClientOK /\ FixedOK /\ ServerOK /\ BufferOK /\ SockOK /\ RecordedOK
  BY Parts
<1>1. CASE RadarStep
  <2>1. ClientOK' /\ ServerOK' /\ SockOK' /\ RecordedOK'
    BY <1>0, <1>1 DEF ClientOK, ServerOK, SockOK, RecordedOK, RadarStep, StartFill,
       EndFill, RaiseSendFlag, StopRadar
  <2>2. FixedOK'
    BY <1>0, <1>1, Zenon DEF FixedOK, RadarStep, StartFill, EndFill, RaiseSendFlag,
       StopRadar
  <2>3. BufferOK'
    BY <1>0, <1>1, LinkAssumption DEF BufferOK, RadarStep, StartFill, EndFill,
       RaiseSendFlag, StopRadar, Part
  <2> QED BY <2>1, <2>2, <2>3 DEF TypeOK, ClientOK, FixedOK, ServerOK, BufferOK,
             SockOK, RecordedOK
<1>2. CASE SenderStep \/ Reconnect
  <2>1. ClientOK' /\ ServerOK' /\ BufferOK' /\ RecordedOK'
    BY <1>0, <1>2 DEF ClientOK, ServerOK, BufferOK, RecordedOK, SenderStep, SeeSendFlag,
       WriteCommand, WriteFrame, ClearSendFlag, ReleaseData, Reconnect
  <2>2. FixedOK'
    BY <1>0, <1>2, Zenon DEF FixedOK, SenderStep, SeeSendFlag, WriteCommand, WriteFrame,
       ClearSendFlag, ReleaseData, Reconnect
  <2>3. SockOK'
    <3>1. CASE WriteCommand
      <4>1. Message("data_in") \in Messages
        BY MessageTypes
      <4> QED BY <1>0, <3>1, <4>1 DEF SockOK, WriteCommand
    <3>2. CASE WriteFrame
      <4>1. FrameOf(dataBuf) \in Messages
        BY <1>0, MessageTypes DEF BufferOK
      <4> QED BY <1>0, <3>2, <4>1 DEF SockOK, WriteFrame
    <3>3. CASE ~WriteCommand /\ ~WriteFrame
      BY <1>0, <1>2, <3>3 DEF SockOK, SenderStep, SeeSendFlag, ClearSendFlag, ReleaseData,
         Reconnect
    <3> QED BY <3>1, <3>2, <3>3
  <2> QED BY <2>1, <2>2, <2>3 DEF TypeOK, ClientOK, FixedOK, ServerOK, BufferOK,
             SockOK, RecordedOK
<1>3. CASE PressExit \/ PanelStep
  <2>1. ClientOK' /\ ServerOK' /\ BufferOK' /\ RecordedOK'
    BY <1>0, <1>3 DEF ClientOK, ServerOK, BufferOK, RecordedOK, PressExit, PanelStep,
       WriteLogout, KillChildren
  <2>2. FixedOK'
    BY <1>0, <1>3, Zenon DEF FixedOK, PressExit, PanelStep, WriteLogout, KillChildren
  <2>3. SockOK'
    BY <1>0, <1>3, MessageTypes DEF SockOK, PressExit, PanelStep, WriteLogout, KillChildren
  <2> QED BY <2>1, <2>2, <2>3 DEF TypeOK, ClientOK, FixedOK, ServerOK, BufferOK,
             SockOK, RecordedOK
<1>4. CASE ServerStep
  <2>1. ClientOK' /\ BufferOK' /\ FixedOK'
    BY <1>0, <1>4, Zenon DEF ClientOK, BufferOK, FixedOK, ServerStep, ReadCommand, ReadFrame,
       ReadNothing, client
  <2>2. ServerOK'
    BY <1>0, <1>4 DEF ServerOK, ServerStep, ReadCommand, ReadFrame, ReadNothing
  <2>3. SockOK' /\ RecordedOK'
    <3>1. CASE ReadCommand
      BY <1>0, <3>1, Dropped DEF SockOK, RecordedOK, ReadCommand
    <3>2. CASE ReadFrame
      BY <1>0, <3>2, Dropped DEF SockOK, RecordedOK, ReadFrame
    <3>3. CASE ReadNothing
      <4>1. Message("zeros") \in Messages
        BY MessageTypes
      <4> QED BY <1>0, <3>3, <4>1 DEF SockOK, RecordedOK, ReadNothing
    <3> QED BY <1>4, <3>1, <3>2, <3>3 DEF ServerStep
  <2> QED BY <2>1, <2>2, <2>3 DEF TypeOK, ClientOK, FixedOK, ServerOK, BufferOK,
             SockOK, RecordedOK
<1>5. CASE UNCHANGED vars
  BY <1>5 DEF vars, client, TypeOK
<1> QED BY <1>1, <1>2, <1>3, <1>4, <1>5 DEF Next

(* Every variable stays in its set, for every timing and number of frames. *)
THEOREM TypeCorrect == Spec => []TypeOK
  BY TypesInit, TypesKept, PTL DEF Spec

-----------------------------------------------------------------------------
(* logout is in the socket, or was read, only after exit on a connection;  *)
(* a client that the server never accepted has nobody that sends.          *)

LogoutInv ==
  /\ panel = "logout" => connected = 1
  /\ server = "left" \/ (\E i \in DOMAIN sock : sock[i].kind = "logout")
       => panel \in {"kill", "ended"} /\ connected = 1

LEMMA LogoutInit == Init => LogoutInv
BY DEF Init, LogoutInv

LEMMA LogoutKept == TypeOK /\ LogoutInv /\ [Next]_vars => LogoutInv'
<1> SUFFICES ASSUME TypeOK, LogoutInv, [Next]_vars PROVE LogoutInv'
  OBVIOUS
<1> USE DEF LogoutInv
<1>0. sock \in Seq(Messages)
  BY DEF TypeOK
<1>1. CASE RadarStep
  BY <1>1 DEF RadarStep, StartFill, EndFill, RaiseSendFlag, StopRadar
<1>2. CASE SenderStep \/ Reconnect
  <2>1. CASE WriteCommand
    BY <1>0, <2>1 DEF WriteCommand, Message
  <2>2. CASE WriteFrame
    BY <1>0, <2>2 DEF WriteFrame, FrameOf
  <2>3. CASE ~WriteCommand /\ ~WriteFrame
    BY <1>2, <2>3 DEF SenderStep, SeeSendFlag, ClearSendFlag, ReleaseData, Reconnect
  <2> QED BY <2>1, <2>2, <2>3
<1>3. CASE PressExit
  BY <1>3 DEF PressExit
<1>4. CASE WriteLogout
  BY <1>0, <1>4 DEF WriteLogout
<1>5. CASE KillChildren
  BY <1>5 DEF KillChildren
<1>6. CASE ReadCommand
  <2>1. PICK k \in 1 .. Len(sock) :
          /\ sock' = SubSeq(sock, k + 1, Len(sock))
          /\ server' = "left" => sock[1].kind = "logout"
    BY <1>6 DEF ReadCommand
  <2>2. server' = "left" => \E i \in DOMAIN sock : sock[i].kind = "logout"
    BY <1>0, <2>1
  <2>3. \A i \in DOMAIN sock' : i + k \in DOMAIN sock /\ sock'[i] = sock[i + k]
    BY <1>0, <2>1, Dropped
  <2>4. UNCHANGED << panel, connected >>
    BY <1>6 DEF ReadCommand, client
  <2> QED BY <2>2, <2>3, <2>4
<1>7. CASE ReadFrame
  <2>1. PICK k \in 1 .. Len(sock) : sock' = SubSeq(sock, k + 1, Len(sock))
    BY <1>7 DEF ReadFrame
  <2>2. \A i \in DOMAIN sock' : i + k \in DOMAIN sock /\ sock'[i] = sock[i + k]
    BY <1>0, <2>1, Dropped
  <2>3. UNCHANGED << panel, connected >> /\ server' = "command"
    BY <1>7 DEF ReadFrame, client
  <2> QED BY <2>2, <2>3
<1>8. CASE ReadNothing
  BY <1>8 DEF ReadNothing, client
<1>9. CASE UNCHANGED vars
  BY <1>9 DEF vars, client
<1> QED BY <1>1, <1>2, <1>3, <1>4, <1>5, <1>6, <1>7, <1>8, <1>9
        DEF Next, PanelStep, ServerStep

(* The server leaves only because exit was pressed on a connected client.  *)
THEOREM OnlyLogoutEnds == Spec => []LeavesOnLogout
<1>1. LogoutInv => LeavesOnLogout
  BY DEF LogoutInv, LeavesOnLogout
<1> QED BY TypeCorrect, LogoutInit, LogoutKept, <1>1, PTL DEF Spec

-----------------------------------------------------------------------------
(* The order of the frames, however late the sender and however greedy the *)
(* server's reads: data_buf only ever goes forward, so what is recorded is *)
(* not after what is in the socket, and that not after data_buf.           *)

Later(s, t) == \A i \in DOMAIN s, j \in DOMAIN t :
  IsFrame(s[i]) /\ IsFrame(t[j]) => NotAfter(s[i], t[j])
Ordered(s) == \A i, j \in DOMAIN s :
  i < j /\ IsFrame(s[i]) /\ IsFrame(s[j]) => NotAfter(s[i], s[j])
UpTo(s, b) == \A i \in DOMAIN s : IsFrame(s[i]) => NotAfter(s[i], FrameOf(b))
Torn(m) == m.part["left"] - m.part["right"] \in {0, 1}
AllTorn(s) == \A i \in DOMAIN s : IsFrame(s[i]) => Torn(s[i])

FillInv ==
  /\ dataBuf["left"] = produced
  /\ dataBuf["right"] = IF radar = "fill" THEN produced - 1 ELSE produced
LogInv == Ordered(recorded) /\ UpTo(recorded, dataBuf) /\ AllTorn(recorded)
WaitInv == Ordered(sock) /\ UpTo(sock, dataBuf) /\ AllTorn(sock)
OrderInv == FillInv /\ LogInv /\ WaitInv /\ Later(recorded, sock)

LEMMA OrderInit == Init => OrderInv
<1> SUFFICES ASSUME Init PROVE OrderInv
  OBVIOUS
<1>1. FillInv
  BY DEF Init, FillInv, NoContents, Part
<1>2. LogInv /\ WaitInv /\ Later(recorded, sock)
  BY DEF Init, LogInv, WaitInv, Later, Ordered, UpTo, AllTorn
<1> QED BY <1>1, <1>2 DEF OrderInv

LEMMA Comparable ==
  /\ \A m \in Messages : m.part \in [Part -> 0 .. MaxFrames]
  /\ \A b \in [Part -> 0 .. MaxFrames] : FrameOf(b).part = b /\ IsFrame(FrameOf(b))
BY DEF Messages, FrameOf, IsFrame

(* A later data_buf is after all that the earlier one was after.           *)
LEMMA BufferForward ==
  ASSUME TypeOK, BufferOK', NEW s \in Seq(Messages), UpTo(s, dataBuf),
         \A p \in Part : dataBuf[p] <= dataBuf'[p]
  PROVE  UpTo(s, dataBuf')
<1> SUFFICES ASSUME NEW i \in DOMAIN s, IsFrame(s[i]), NEW p \in Part
             PROVE  s[i].part[p] <= dataBuf'[p]
  BY Comparable DEF UpTo, NotAfter, BufferOK
<1>1. s[i].part[p] <= dataBuf[p]
  BY Comparable DEF UpTo, NotAfter, TypeOK
<1>2. s[i].part[p] \in Int /\ dataBuf[p] \in Int /\ dataBuf'[p] \in Int
  BY Comparable, LinkAssumption DEF TypeOK, BufferOK
<1> QED BY <1>1, <1>2

(* A message put behind the others.                                        *)
LEMMA Appended ==
  ASSUME NEW s \in Seq(Messages), NEW m \in Messages, AllTorn(s), Ordered(s),
         IsFrame(m) => Torn(m),
         \A i \in DOMAIN s : IsFrame(s[i]) /\ IsFrame(m) => NotAfter(s[i], m)
  PROVE  AllTorn(Append(s, m)) /\ Ordered(Append(s, m))
<1>1. /\ Len(Append(s, m)) = Len(s) + 1 /\ Append(s, m)[Len(s) + 1] = m
      /\ \A i \in 1 .. Len(s) : Append(s, m)[i] = s[i]
      /\ DOMAIN Append(s, m) = 1 .. Len(s) + 1 /\ DOMAIN s = 1 .. Len(s)
      /\ Len(s) \in Nat
  OBVIOUS
<1>2. AllTorn(Append(s, m))
  BY <1>1 DEF AllTorn
<1>3. Ordered(Append(s, m))
  BY <1>1 DEF Ordered
<1> QED BY <1>2, <1>3

LEMMA OfAppended ==
  ASSUME NEW s \in Seq(Messages), NEW m \in Messages
  PROVE  \A i \in DOMAIN Append(s, m) :
           Append(s, m)[i] = m \/ (i \in DOMAIN s /\ Append(s, m)[i] = s[i])
<1>1. /\ Append(s, m)[Len(s) + 1] = m /\ Len(s) \in Nat
      /\ \A i \in 1 .. Len(s) : Append(s, m)[i] = s[i]
      /\ DOMAIN Append(s, m) = 1 .. Len(s) + 1 /\ DOMAIN s = 1 .. Len(s)
  OBVIOUS
<1> SUFFICES ASSUME NEW i \in 1 .. Len(s) + 1
             PROVE  Append(s, m)[i] = m \/ (i \in 1 .. Len(s) /\ Append(s, m)[i] = s[i])
  BY <1>1
<1>2. CASE i = Len(s) + 1
  BY <1>1, <1>2
<1>3. CASE i # Len(s) + 1
  <2>1. i \in 1 .. Len(s)
    BY <1>1, <1>3
  <2> QED BY <1>1, <2>1
<1> QED BY <1>2, <1>3

LEMMA OrderKept == TypeOK /\ TypeOK' /\ OrderInv /\ [Next]_vars => OrderInv'
<1> SUFFICES ASSUME TypeOK, TypeOK', OrderInv, [Next]_vars PROVE OrderInv'
  OBVIOUS
<1>0. /\ FillInv /\ LogInv /\ WaitInv /\ Later(recorded, sock)
      /\ sock \in Seq(Messages) /\ recorded \in Seq(Messages)
      /\ BufferOK /\ BufferOK'
  BY DEF OrderInv, TypeOK, BufferOK
<1>1. CASE RadarStep
  <2>1. UNCHANGED << sock, recorded >>
    BY <1>1 DEF RadarStep, StartFill, EndFill, RaiseSendFlag, StopRadar
  <2>2. FillInv'
    <3>1. CASE StartFill
      BY <1>0, <3>1, LinkAssumption DEF StartFill, FillInv, BufferOK, Part
    <3>2. CASE EndFill
      BY <1>0, <3>2, LinkAssumption DEF EndFill, FillInv, BufferOK, Part
    <3>3. CASE RaiseSendFlag \/ StopRadar
      BY <1>0, <3>3 DEF RaiseSendFlag, StopRadar, FillInv
    <3> QED BY <1>1, <3>1, <3>2, <3>3 DEF RadarStep
  <2>3. \A p \in Part : dataBuf[p] <= dataBuf'[p]
    <3>1. produced \in Int /\ produced <= produced'
      BY <1>0, <1>1, LinkAssumption DEF RadarStep, StartFill, EndFill, RaiseSendFlag,
         StopRadar, BufferOK
    <3>2. CASE StartFill
      BY <1>0, <3>2, LinkAssumption DEF StartFill, FillInv, BufferOK, Part
    <3>3. CASE EndFill
      BY <1>0, <3>3, LinkAssumption DEF EndFill, FillInv, BufferOK, Part
    <3>4. CASE RaiseSendFlag \/ StopRadar
      BY <1>0, <3>4, LinkAssumption DEF RaiseSendFlag, StopRadar, BufferOK
    <3> QED BY <1>1, <3>2, <3>3, <3>4 DEF RadarStep
  <2>4. UpTo(sock, dataBuf') /\ UpTo(recorded, dataBuf')
    BY <1>0, <2>3, BufferForward DEF LogInv, WaitInv
  <2> QED BY <1>0, <2>1, <2>2, <2>4 DEF OrderInv, LogInv, WaitInv
<1>2. CASE \E m \in Messages :
             /\ IsFrame(m) => m = FrameOf(dataBuf)
             /\ sock' = Append(sock, m) /\ UNCHANGED << recorded, dataBuf, produced, radar >>
  <2>1. PICK m \in Messages :
             /\ IsFrame(m) => m = FrameOf(dataBuf)
             /\ sock' = Append(sock, m) /\ UNCHANGED << recorded, dataBuf, produced, radar >>
    BY <1>2
  <2>2. IsFrame(m) => Torn(m) /\ NotAfter(m, FrameOf(dataBuf))
    BY <1>0, <2>1, Comparable, LinkAssumption DEF FillInv, Torn, BufferOK, NotAfter
  <2>3. \A s \in Seq(Messages), i \in Int :
          UpTo(s, dataBuf) /\ i \in DOMAIN s /\ IsFrame(s[i]) /\ IsFrame(m)
            => NotAfter(s[i], m)
    BY <2>1 DEF UpTo
  <2>4. AllTorn(sock') /\ Ordered(sock')
    BY <1>0, <2>1, <2>2, <2>3, Appended DEF WaitInv
  <2>5. \A i \in DOMAIN sock' : sock'[i] = m \/ (i \in DOMAIN sock /\ sock'[i] = sock[i])
    BY <1>0, <2>1, OfAppended
  <2>6. UpTo(sock', dataBuf)
    BY <1>0, <2>2, <2>5 DEF WaitInv, UpTo
  <2>7. Later(recorded, sock')
    BY <1>0, <2>3, <2>5 DEF LogInv, Later
  <2> QED BY <1>0, <2>1, <2>4, <2>6, <2>7 DEF OrderInv, FillInv, LogInv, WaitInv
<1>3. CASE UNCHANGED << sock, recorded, dataBuf, produced, radar >>
  BY <1>0, <1>3 DEF OrderInv, FillInv, LogInv, WaitInv
<1>4. CASE ReadCommand \/ ReadFrame
  <2>1. PICK k \in 1 .. Len(sock) :
          /\ sock' = SubSeq(sock, k + 1, Len(sock))
          /\ recorded' = recorded \/ recorded' = Append(recorded, sock[1])
    BY <1>4 DEF ReadCommand, ReadFrame
  <2>2. UNCHANGED << dataBuf, produced, radar >> /\ FillInv'
    BY <1>0, <1>4 DEF ReadCommand, ReadFrame, client, FillInv
  <2>3. /\ AllTorn(sock') /\ Ordered(sock') /\ UpTo(sock', dataBuf)
        /\ \A j \in DOMAIN sock' : j + k \in DOMAIN sock /\ j + k # 1
                                   /\ sock'[j] = sock[j + k]
    <3>1. AllTorn(sock) /\ Ordered(sock) /\ UpTo(sock, dataBuf)
      BY <1>0 DEF WaitInv
    <3>2. \A j \in DOMAIN sock' : /\ j \in Nat /\ j + k \in DOMAIN sock /\ j + k > 1
                                 /\ sock'[j] = sock[j + k]
      BY <1>0, <2>1, Dropped
    <3>3. AllTorn(sock') /\ UpTo(sock', dataBuf)
      BY <3>1, <3>2 DEF AllTorn, UpTo
    <3>4. Ordered(sock')
      BY <3>1, <3>2 DEF Ordered
    <3> QED BY <3>1, <3>2, <3>3, <3>4
  <2>4. Later(recorded, sock')
    BY <1>0, <2>3 DEF Later
  <2>5. CASE recorded' = recorded
    BY <1>0, <2>2, <2>3, <2>4, <2>5 DEF OrderInv, LogInv, WaitInv
  <2>6. CASE recorded' = Append(recorded, sock[1])
    <3>1. 1 \in DOMAIN sock /\ sock[1] \in Messages
      BY <1>0
    <3>2. AllTorn(recorded') /\ Ordered(recorded')
      BY <1>0, <2>6, <3>1, Appended DEF LogInv, WaitInv, Later, AllTorn
    <3>3. \A i \in DOMAIN recorded' :
            recorded'[i] = sock[1] \/ (i \in DOMAIN recorded /\ recorded'[i] = recorded[i])
      BY <1>0, <2>6, <3>1, OfAppended
    <3>4. UpTo(recorded', dataBuf)
      BY <1>0, <3>1, <3>3 DEF LogInv, WaitInv, UpTo
    <3>5. \A j \in DOMAIN sock' :
            IsFrame(sock[1]) /\ IsFrame(sock'[j]) => NotAfter(sock[1], sock'[j])
      <4>1. \A j \in DOMAIN sock' : j + k \in DOMAIN sock /\ 1 < j + k /\ sock'[j] = sock[j + k]
        BY <1>0, <2>1, <2>3
      <4> QED BY <1>0, <3>1, <4>1 DEF WaitInv, Ordered
    <3>6. Later(recorded', sock')
      BY <2>4, <3>3, <3>5 DEF Later
    <3> QED BY <2>2, <2>3, <3>2, <3>4, <3>6 DEF OrderInv, LogInv, WaitInv
  <2> QED BY <2>1, <2>5, <2>6
<1>5. CASE ReadNothing
  <2>1. /\ recorded' = Append(recorded, Message("zeros")) /\ sock' = sock
        /\ UNCHANGED << dataBuf, produced, radar >>
    BY <1>5 DEF ReadNothing, client
  <2>2. Message("zeros") \in Messages /\ ~IsFrame(Message("zeros"))
    BY MessageTypes DEF Message, IsFrame
  <2>3. AllTorn(recorded') /\ Ordered(recorded')
    BY <1>0, <2>1, <2>2, Appended DEF LogInv
  <2>4. \A i \in DOMAIN recorded' : IsFrame(recorded'[i]) =>
          i \in DOMAIN recorded /\ recorded'[i] = recorded[i]
    BY <1>0, <2>1, <2>2
  <2>5. UpTo(recorded', dataBuf) /\ Later(recorded', sock)
    BY <1>0, <2>4 DEF LogInv, UpTo, Later
  <2> QED BY <1>0, <2>1, <2>3, <2>5 DEF OrderInv, FillInv, LogInv, WaitInv
<1>6. CASE WriteCommand
  BY <1>2, <1>6, MessageTypes DEF WriteCommand, Message, IsFrame
<1>7. CASE WriteFrame
  BY <1>0, <1>2, <1>7, MessageTypes DEF WriteFrame, BufferOK
<1>8. CASE WriteLogout
  BY <1>2, <1>3, <1>8, MessageTypes DEF WriteLogout, Message, IsFrame
<1>9. CASE SeeSendFlag \/ ClearSendFlag \/ ReleaseData \/ Reconnect \/ PressExit
             \/ KillChildren \/ UNCHANGED vars
  BY <1>3, <1>9 DEF SeeSendFlag, ClearSendFlag, ReleaseData, Reconnect, PressExit,
     KillChildren, vars, client
<1> QED BY <1>1, <1>4, <1>5, <1>6, <1>7, <1>8, <1>9
        DEF Next, SenderStep, PanelStep, ServerStep

LEMMA OrderInvariant == Spec => []OrderInv
<1>1. TypeOK /\ OrderInv /\ [Next]_vars => OrderInv'
  BY TypesKept, OrderKept
<1> QED BY TypeCorrect, OrderInit, <1>1, PTL DEF Spec

(* A frame never comes after a later one in the server's log, with no      *)
(* assumption on the timing.                                               *)
THEOREM NoFrameOvertakes == Spec => []FramesInOrder
<1>1. OrderInv => FramesInOrder
  BY DEF OrderInv, LogInv, Ordered, FramesInOrder
<1> QED BY OrderInvariant, <1>1, PTL

(* A frame that is sent while it is filled mixes two neighbours only.      *)
THEOREM TornByOneOnly == Spec => []TornByOne
<1>1. OrderInv => TornByOne
  BY DEF OrderInv, LogInv, AllTorn, Torn, TornByOne
<1> QED BY OrderInvariant, <1>1, PTL
=============================================================================
