------------------------- MODULE RadarServerProofs -------------------------
(***************************************************************************)
(* Proofs about RadarServer, for every Capacity, every number of frames    *)
(* and restarts, with and without the timing assumptions: the types, the   *)
(* bound of the history, and that input.txt implements HistoryLog.         *)
(***************************************************************************)
EXTENDS RadarServer, FiniteSetTheorems, TLAPS

(* The counters behind the types: a loop that copies has cells left, and a *)
(* frame that was announced can still be counted.                          *)
ProgressInv ==
  /\ receiver = "copy" => copied < Len(CopyOrder)
  /\ updater = "draw" => drawn < Len(DrawOrder)
  /\ receiver = "frame" => sent < MaxFrames

IInv == TypeOK /\ HistoryBounded /\ ProgressInv /\ FileInv

LEMMA OrderLengths == Len(CopyOrder) = 4 /\ Len(DrawOrder) = 4
  BY DEF CopyOrder, DrawOrder

(* Adding a frame to a log of at most Capacity rows leaves a log of at     *)
(* most Capacity rows, and is what the two branches of OpenFile prepare.   *)
LEMMA LatestOfAppend ==
  ASSUME NEW s \in Seq(Frame), NEW f \in Frame, Len(s) <= Capacity
  PROVE  /\ Log!Latest(Append(s, f)) \in Seq(Frame)
         /\ Len(Log!Latest(Append(s, f))) \in 1 .. Capacity
         /\ Len(s) < Capacity => Log!Latest(Append(s, f)) = s \o << f >>
         /\ ~(Len(s) < Capacity) =>
              /\ Log!Latest(Append(s, f)) = << >> \o Append(Tail(s), f)
              /\ Append(Tail(s), f) \in Seq(Frame)
<1>1. Capacity \in Nat \ {0}
  BY ServerAssumption
<1>2. Append(s, f) \in Seq(Frame) /\ Len(Append(s, f)) = Len(s) + 1
  OBVIOUS
<1>3. CASE Len(s) < Capacity
  <2>1. Log!Latest(Append(s, f)) = Append(s, f)
    BY <1>1, <1>2, <1>3 DEF Log!Latest
  <2>2. Append(s, f) = s \o << f >>
    OBVIOUS
  <2>3. QED
    BY <1>1, <1>2, <1>3, <2>1, <2>2
<1>4. CASE ~(Len(s) < Capacity)
  <2>1. Len(s) = Capacity
    BY <1>1, <1>4
  <2>2. Log!Latest(Append(s, f)) = SubSeq(Append(s, f), 2, Capacity + 1)
    BY <1>1, <1>2, <2>1 DEF Log!Latest
  <2>3. SubSeq(Append(s, f), 2, Capacity + 1) \in Seq(Frame)
    BY <1>1, <1>2, <2>1
  <2>4. Len(SubSeq(Append(s, f), 2, Capacity + 1)) = Capacity
    BY <1>1, <1>2, <2>1
  <2>5. s # << >>
    BY <1>1, <2>1
  <2>6. /\ Tail(s) \in Seq(Frame) /\ Len(Tail(s)) = Capacity - 1
        /\ \A i \in 1 .. Capacity - 1 : Tail(s)[i] = s[i + 1]
    BY <1>1, <2>1, <2>5
  <2>7. /\ Append(Tail(s), f) \in Seq(Frame)
        /\ Len(Append(Tail(s), f)) = Capacity
    BY <1>1, <2>6
  <2>8. ASSUME NEW i \in 1 .. Capacity
        PROVE  SubSeq(Append(s, f), 2, Capacity + 1)[i] = Append(Tail(s), f)[i]
    BY <1>1, <1>2, <2>1, <2>6
  <2>9. SubSeq(Append(s, f), 2, Capacity + 1) = Append(Tail(s), f)
    BY <1>1, <2>3, <2>4, <2>7, <2>8
  <2>10. << >> \o Append(Tail(s), f) = Append(Tail(s), f)
    BY <2>7
  <2>11. QED
    BY <1>1, <1>4, <2>1, <2>2, <2>3, <2>4, <2>7, <2>9, <2>10
<1>5. QED
  BY <1>3, <1>4

LEMMA FrameFacts ==
  /\ Zero \in Frame /\ Garbage \in Content /\ Frame \subseteq Content
  /\ Fresh \in [Cell -> Content]
  /\ \A k \in 0 .. Capacity : OldRows(k) \in Seq(Frame) /\ Len(OldRows(k)) = k
<1>1. Zero \in Frame /\ Garbage \in Content /\ Frame \subseteq Content
  BY ServerAssumption DEF Zero, Garbage, Frame, Content
<1>2. Fresh \in [Cell -> Content]
  BY <1>1 DEF Fresh
<1>3. ASSUME NEW k \in 0 .. Capacity
      PROVE  OldRows(k) \in Seq(Frame) /\ Len(OldRows(k)) = k
  <2>1. \A i \in 1 .. k : i - k - 1 \in Frame
    BY ServerAssumption DEF Frame
  <2>2. QED
    BY <2>1, ServerAssumption DEF OldRows
<1>4. QED
  BY <1>1, <1>2, <1>3

LEMMA RowType ==
  ASSUME UpdaterTypeOK, NEW k \in Int
  PROVE  Row(k) \in [Cell -> Content]
  BY FrameFacts DEF UpdaterTypeOK, Row

LEMMA Initial == Init => IInv
<1>1. SUFFICES ASSUME Init PROVE IInv
  OBVIOUS
<1>2. file \in Seq(Frame) /\ Len(file) <= Capacity
  BY <1>1, FrameFacts, ServerAssumption DEF Init
<1>3. ReceiverTypeOK
  BY <1>1, FrameFacts, OrderLengths DEF Init, ReceiverTypeOK, ReceiverState
<1>4. UpdaterTypeOK
  BY <1>1, FrameFacts, OrderLengths, ServerAssumption
  DEF Init, UpdaterTypeOK, UpdaterState
<1>5. SharedTypeOK
  BY <1>1, <1>2, FrameFacts DEF Init, SharedTypeOK
<1>6. EnvTypeOK
  BY <1>1, ServerAssumption DEF Init, EnvTypeOK
<1>7. HistoryBounded /\ ProgressInv /\ FileInv
  BY <1>1, <1>2, ServerAssumption
  DEF Init, HistoryBounded, ProgressInv, FileInv, Writing
<1>8. QED
  BY <1>3, <1>4, <1>5, <1>6, <1>7 DEF IInv, TypeOK

(* The receiver's steps.  FileInv is at stake where rows, pending or file  *)
(* change; everything of the updater is left alone.                        *)
LEMMA ReceiverStep == IInv /\ Receiver => IInv'
<1> SUFFICES ASSUME IInv, Receiver PROVE IInv'
  OBVIOUS
<1> USE ServerAssumption, FrameFacts, OrderLengths DEF IInv, TypeOK
<1>1. CASE ReadDataIn
  BY <1>1 DEF ReadDataIn, ReceiverTypeOK, UpdaterTypeOK, SharedTypeOK, EnvTypeOK,
     HistoryBounded, ProgressInv, FileInv, Writing, ReceiverState, UpdaterState,
     receiverVars, updaterVars, shared, env
<1>2. CASE ReadLogout
  BY <1>2 DEF ReadLogout, ReceiverTypeOK, UpdaterTypeOK, SharedTypeOK, EnvTypeOK,
     HistoryBounded, ProgressInv, FileInv, Writing, ReceiverState, UpdaterState,
     receiverVars, updaterVars, shared, env
<1>3. CASE ReadFrame
  <2>1. ReceiverTypeOK'
    BY <1>3 DEF ReadFrame, ReceiverTypeOK, SharedTypeOK, EnvTypeOK,
       ProgressInv, ReceiverState, Frame, receiverVars, updaterVars, shared, env
  <2>2. UpdaterTypeOK'
    BY <1>3 DEF ReadFrame, UpdaterTypeOK, SharedTypeOK, ProgressInv,
       HistoryBounded, UpdaterState, receiverVars, updaterVars, shared, env
  <2>3. SharedTypeOK'
    BY <1>3 DEF ReadFrame, SharedTypeOK, ReceiverTypeOK, receiverVars,
       updaterVars, shared, env
  <2>4. EnvTypeOK'
    BY <1>3 DEF ReadFrame, EnvTypeOK, ReceiverTypeOK, ProgressInv,
       receiverVars, updaterVars, shared, env
  <2>5. HistoryBounded'
    BY <1>3 DEF ReadFrame, HistoryBounded, ReceiverTypeOK, SharedTypeOK,
       UpdaterTypeOK, receiverVars, updaterVars, shared, env
  <2>6. ProgressInv'
    BY <1>3 DEF ReadFrame, ProgressInv, ReceiverTypeOK, UpdaterTypeOK,
       EnvTypeOK, receiverVars, updaterVars, shared, env
  <2>7. FileInv'
    BY <1>3 DEF ReadFrame, FileInv, ReceiverTypeOK, SharedTypeOK,
       HistoryBounded, Writing, receiverVars, updaterVars, shared, env
  <2>8. QED
    BY <2>1, <2>2, <2>3, <2>4, <2>5, <2>6, <2>7
<1>4. CASE Lock
  BY <1>4 DEF Lock, ReceiverTypeOK, UpdaterTypeOK, SharedTypeOK, EnvTypeOK,
     HistoryBounded, ProgressInv, FileInv, Writing, ReceiverState, UpdaterState,
     receiverVars, updaterVars, shared, env
<1>5. CASE LoadFile
  BY <1>5 DEF LoadFile, ReceiverTypeOK, UpdaterTypeOK, SharedTypeOK, EnvTypeOK,
     HistoryBounded, ProgressInv, FileInv, Writing, ReceiverState, UpdaterState,
     receiverVars, updaterVars, shared, env
<1>6. CASE OpenFile
  <2>1. rows = file /\ rows \in Seq(Frame) /\ frame \in Frame /\ Len(rows) <= Capacity
    BY <1>6 DEF OpenFile, FileInv, ReceiverTypeOK, HistoryBounded
  <2>. DEFINE after == Log!Latest(Append(rows, frame))
  <2>a. /\ Len(rows) < Capacity => after = rows \o << frame >>
        /\ ~(Len(rows) < Capacity) =>
              /\ after = << >> \o Append(Tail(rows), frame)
              /\ Append(Tail(rows), frame) \in Seq(Frame)
    BY <2>1, LatestOfAppend
  <2> HIDE DEF after
  <2>2. /\ pending' \in Seq(Frame) /\ file' \in Seq(Frame)
        /\ Len(file') <= Capacity
        /\ file' \in {rows, << >>} /\ file' \o pending' = after
    <3>1. CASE Len(rows) < Capacity
      <4>1. pending' = << frame >> /\ file' = file
        BY <1>6, <3>1 DEF OpenFile
      <4>2. QED
        BY <2>1, <2>a, <3>1, <4>1
    <3>2. CASE ~(Len(rows) < Capacity)
      <4>1. pending' = Append(Tail(rows), frame) /\ file' = << >>
        BY <1>6, <3>2 DEF OpenFile
      <4>2. << >> \in Seq(Frame) /\ Len(<< >>) = 0
        OBVIOUS
      <4>3. QED
        BY <2>1, <2>a, <3>2, <4>1, <4>2
    <3>3. QED
      BY <3>1, <3>2
  <2>3. ReceiverTypeOK' /\ SharedTypeOK'
    BY <1>6, <2>2 DEF OpenFile, ReceiverTypeOK, SharedTypeOK, ReceiverState
  <2>4. UpdaterTypeOK' /\ EnvTypeOK'
    BY <1>6 DEF OpenFile, UpdaterTypeOK, EnvTypeOK, updaterVars, env
  <2>5. HistoryBounded' /\ FileInv'
    BY <1>6, <2>2
    DEF OpenFile, HistoryBounded, FileInv, Writing, updaterVars, after
  <2>6. ProgressInv'
    BY <1>6 DEF OpenFile, ProgressInv, updaterVars, env
  <2>7. QED
    BY <2>3, <2>4, <2>5, <2>6
<1>7. CASE CopyCell
  <2>1. ReceiverTypeOK'
    BY <1>7 DEF CopyCell, ReceiverTypeOK, SharedTypeOK, EnvTypeOK, ProgressInv,
       ReceiverState, receiverVars, updaterVars, shared, env
  <2>2. UpdaterTypeOK'
    BY <1>7 DEF CopyCell, UpdaterTypeOK, SharedTypeOK, ProgressInv,
       HistoryBounded, UpdaterState, receiverVars, updaterVars, shared, env
  <2>3. SharedTypeOK'
    BY <1>7 DEF CopyCell, SharedTypeOK, ReceiverTypeOK, receiverVars,
       updaterVars, shared, env
  <2>4. EnvTypeOK'
    BY <1>7 DEF CopyCell, EnvTypeOK, ReceiverTypeOK, ProgressInv, receiverVars,
       updaterVars, shared, env
  <2>5. HistoryBounded'
    BY <1>7 DEF CopyCell, HistoryBounded, ReceiverTypeOK, SharedTypeOK,
       UpdaterTypeOK, receiverVars, updaterVars, shared, env
  <2>6. ProgressInv'
    BY <1>7 DEF CopyCell, ProgressInv, ReceiverTypeOK, UpdaterTypeOK,
       EnvTypeOK, receiverVars, updaterVars, shared, env
  <2>7. FileInv'
    BY <1>7 DEF CopyCell, FileInv, ReceiverTypeOK, SharedTypeOK,
       HistoryBounded, Writing, receiverVars, updaterVars, shared, env
  <2>8. QED
    BY <2>1, <2>2, <2>3, <2>4, <2>5, <2>6, <2>7
<1>8. CASE RaiseFlag
  BY <1>8 DEF RaiseFlag, ReceiverTypeOK, UpdaterTypeOK, SharedTypeOK, EnvTypeOK,
     HistoryBounded, ProgressInv, FileInv, Writing, ReceiverState, UpdaterState,
     receiverVars, updaterVars, shared, env
<1>9. CASE CloseFile
  <2>1. ReceiverTypeOK'
    BY <1>9 DEF CloseFile, ReceiverTypeOK, SharedTypeOK, EnvTypeOK,
       ProgressInv, ReceiverState, receiverVars, updaterVars, shared, env
  <2>2. UpdaterTypeOK'
    BY <1>9 DEF CloseFile, UpdaterTypeOK, SharedTypeOK, ProgressInv,
       HistoryBounded, UpdaterState, receiverVars, updaterVars, shared, env
  <2>3. SharedTypeOK'
    BY <1>9 DEF CloseFile, SharedTypeOK, ReceiverTypeOK, receiverVars,
       updaterVars, shared, env
  <2>4. EnvTypeOK'
    BY <1>9 DEF CloseFile, EnvTypeOK, ReceiverTypeOK, ProgressInv,
       receiverVars, updaterVars, shared, env
  <2>5. HistoryBounded'
    <3>1. file' = Log!Latest(Append(rows, frame))
      BY <1>9 DEF CloseFile, FileInv, Writing
    <3>2. Len(file') \in 1 .. Capacity
      BY <3>1, LatestOfAppend DEF ReceiverTypeOK, HistoryBounded
    <3>3. QED
      BY <1>9, <3>2 DEF CloseFile, HistoryBounded, updaterVars
  <2>6. ProgressInv'
    BY <1>9 DEF CloseFile, ProgressInv, ReceiverTypeOK, UpdaterTypeOK,
       EnvTypeOK, receiverVars, updaterVars, shared, env
  <2>7. FileInv'
    BY <1>9 DEF CloseFile, FileInv, ReceiverTypeOK, SharedTypeOK,
       HistoryBounded, Writing, receiverVars, updaterVars, shared, env
  <2>8. QED
    BY <2>1, <2>2, <2>3, <2>4, <2>5, <2>6, <2>7
<1>10. CASE Unlock
  BY <1>10 DEF Unlock, ReceiverTypeOK, UpdaterTypeOK, SharedTypeOK, EnvTypeOK,
     HistoryBounded, ProgressInv, FileInv, Writing, ReceiverState, UpdaterState,
     receiverVars, updaterVars, shared, env
<1>11. CASE Leave
  BY <1>11 DEF Leave, ReceiverTypeOK, UpdaterTypeOK, SharedTypeOK, EnvTypeOK,
     HistoryBounded, ProgressInv, FileInv, Writing, ReceiverState, UpdaterState,
     receiverVars, updaterVars, shared, env
<1>12. QED
  BY <1>1, <1>2, <1>3, <1>4, <1>5, <1>6, <1>7, <1>8, <1>9, <1>10, <1>11 DEF Receiver

(* The updater's steps, those of the user included.  The receiver, the     *)
(* file and up_data are left alone.                                        *)
LEMMA UpdaterSteps == IInv /\ (UpdaterStep \/ User) => IInv'
<1> SUFFICES ASSUME IInv, UpdaterStep \/ User PROVE IInv'
  OBVIOUS
<1> USE ServerAssumption, FrameFacts, OrderLengths DEF IInv, TypeOK
<1>1. CASE SeeFlag
  BY <1>1 DEF SeeFlag, ReceiverTypeOK, UpdaterTypeOK, SharedTypeOK, EnvTypeOK,
     HistoryBounded, ProgressInv, FileInv, Writing, ReceiverState, UpdaterState,
     receiverVars, updaterVars, shared, env
<1>2. CASE QuitUpdater
  BY <1>2 DEF QuitUpdater, ReceiverTypeOK, UpdaterTypeOK, SharedTypeOK, EnvTypeOK,
     HistoryBounded, ProgressInv, FileInv, Writing, ReceiverState, UpdaterState,
     receiverVars, updaterVars, shared, env
<1>3. CASE PassSemaphore
  BY <1>3 DEF PassSemaphore, ReceiverTypeOK, UpdaterTypeOK, SharedTypeOK, EnvTypeOK,
     HistoryBounded, ProgressInv, FileInv, Writing, ReceiverState, UpdaterState,
     receiverVars, updaterVars, shared, env
<1>4. CASE DrawCell
  <2>1. ReceiverTypeOK'
    BY <1>4 DEF DrawCell, ReceiverTypeOK, SharedTypeOK, EnvTypeOK, ProgressInv,
       ReceiverState, receiverVars, updaterVars, shared, env
  <2>2. UpdaterTypeOK'
    <3>1. picture' \in [Cell -> Content]
      BY <1>4 DEF DrawCell, UpdaterTypeOK, SharedTypeOK
    <3>2. drawn' \in 0 .. 4 /\ updater' \in UpdaterState
      BY <1>4 DEF DrawCell, UpdaterTypeOK, ProgressInv, UpdaterState
    <3>3. QED
      BY <1>4, <3>1, <3>2 DEF DrawCell, UpdaterTypeOK
  <2>3. SharedTypeOK'
    BY <1>4 DEF DrawCell, SharedTypeOK, ReceiverTypeOK, receiverVars,
       updaterVars, shared, env
  <2>4. EnvTypeOK'
    BY <1>4 DEF DrawCell, EnvTypeOK, ReceiverTypeOK, ProgressInv, receiverVars,
       updaterVars, shared, env
  <2>5. HistoryBounded'
    BY <1>4 DEF DrawCell, HistoryBounded, ReceiverTypeOK, SharedTypeOK,
       UpdaterTypeOK, receiverVars, updaterVars, shared, env
  <2>6. ProgressInv'
    BY <1>4 DEF DrawCell, ProgressInv, ReceiverTypeOK, UpdaterTypeOK,
       EnvTypeOK, receiverVars, updaterVars, shared, env
  <2>7. FileInv'
    BY <1>4 DEF DrawCell, FileInv, ReceiverTypeOK, SharedTypeOK,
       HistoryBounded, Writing, receiverVars, updaterVars, shared, env
  <2>8. QED
    BY <2>1, <2>2, <2>3, <2>4, <2>5, <2>6, <2>7
<1>5. CASE ClearFlag
  BY <1>5 DEF ClearFlag, ReceiverTypeOK, UpdaterTypeOK, SharedTypeOK, EnvTypeOK,
     HistoryBounded, ProgressInv, FileInv, Writing, ReceiverState, UpdaterState,
     receiverVars, updaterVars, shared, env
<1>6. CASE NoPress
  BY <1>6 DEF NoPress, ReceiverTypeOK, UpdaterTypeOK, SharedTypeOK, EnvTypeOK,
     HistoryBounded, ProgressInv, FileInv, Writing, ReceiverState, UpdaterState,
     receiverVars, updaterVars, shared, env
<1>7. CASE LoadHistory
  <2>1. ReceiverTypeOK'
    BY <1>7 DEF LoadHistory, ReceiverTypeOK, SharedTypeOK, EnvTypeOK,
       ProgressInv, ReceiverState, receiverVars, updaterVars, shared, env
  <2>2. UpdaterTypeOK'
    <3>1. ASSUME NEW i \in 1 .. Len(file)
          PROVE  ParseRow(i, file[i]) \in [Cell -> Content]
      BY DEF SharedTypeOK, ParseRow
    <3>2. data' \in Seq([Cell -> Content])
      BY <1>7, <3>1 DEF LoadHistory, SharedTypeOK
    <3>3. num' \in -1 .. Capacity
      BY <1>7 DEF LoadHistory, SharedTypeOK, HistoryBounded
    <3>4. QED
      BY <1>7, <3>2, <3>3 DEF LoadHistory, UpdaterTypeOK, UpdaterState
  <2>3. SharedTypeOK'
    BY <1>7 DEF LoadHistory, SharedTypeOK, ReceiverTypeOK, receiverVars,
       updaterVars, shared, env
  <2>4. EnvTypeOK'
    BY <1>7 DEF LoadHistory, EnvTypeOK, ReceiverTypeOK, ProgressInv,
       receiverVars, updaterVars, shared, env
  <2>5. HistoryBounded'
    BY <1>7 DEF LoadHistory, HistoryBounded, ReceiverTypeOK, SharedTypeOK,
       UpdaterTypeOK, receiverVars, updaterVars, shared, env
  <2>6. ProgressInv'
    BY <1>7 DEF LoadHistory, ProgressInv, ReceiverTypeOK, UpdaterTypeOK,
       EnvTypeOK, receiverVars, updaterVars, shared, env
  <2>7. FileInv'
    BY <1>7 DEF LoadHistory, FileInv, ReceiverTypeOK, SharedTypeOK,
       HistoryBounded, Writing, receiverVars, updaterVars, shared, env
  <2>8. QED
    BY <2>1, <2>2, <2>3, <2>4, <2>5, <2>6, <2>7
<1>8. CASE UnlockHistory
  BY <1>8 DEF UnlockHistory, ReceiverTypeOK, UpdaterTypeOK, SharedTypeOK, EnvTypeOK,
     HistoryBounded, ProgressInv, FileInv, Writing, ReceiverState, UpdaterState,
     receiverVars, updaterVars, shared, env
<1>9. CASE ShowNewest
  <2>1. ReceiverTypeOK'
    BY <1>9 DEF ShowNewest, ReceiverTypeOK, SharedTypeOK, EnvTypeOK,
       ProgressInv, ReceiverState, receiverVars, updaterVars, shared, env
  <2>2. UpdaterTypeOK'
    BY <1>9, RowType DEF ShowNewest, UpdaterTypeOK, SharedTypeOK, ProgressInv,
       HistoryBounded, UpdaterState, receiverVars, updaterVars, shared, env
  <2>3. SharedTypeOK'
    BY <1>9 DEF ShowNewest, SharedTypeOK, ReceiverTypeOK, receiverVars,
       updaterVars, shared, env
  <2>4. EnvTypeOK'
    BY <1>9 DEF ShowNewest, EnvTypeOK, ReceiverTypeOK, ProgressInv,
       receiverVars, updaterVars, shared, env
  <2>5. HistoryBounded'
    BY <1>9 DEF ShowNewest, HistoryBounded, ReceiverTypeOK, SharedTypeOK,
       UpdaterTypeOK, receiverVars, updaterVars, shared, env
  <2>6. ProgressInv'
    BY <1>9 DEF ShowNewest, ProgressInv, ReceiverTypeOK, UpdaterTypeOK,
       EnvTypeOK, receiverVars, updaterVars, shared, env
  <2>7. FileInv'
    BY <1>9 DEF ShowNewest, FileInv, ReceiverTypeOK, SharedTypeOK,
       HistoryBounded, Writing, receiverVars, updaterVars, shared, env
  <2>8. QED
    BY <2>1, <2>2, <2>3, <2>4, <2>5, <2>6, <2>7
<1>10. CASE PressHistory
  BY <1>10 DEF PressHistory, ReceiverTypeOK, UpdaterTypeOK, SharedTypeOK, EnvTypeOK,
     HistoryBounded, ProgressInv, FileInv, Writing, ReceiverState, UpdaterState,
     receiverVars, updaterVars, shared, env
<1>11. CASE Back
  <2>1. ReceiverTypeOK'
    BY <1>11 DEF Back, ReceiverTypeOK, SharedTypeOK, EnvTypeOK, ProgressInv,
       ReceiverState, receiverVars, updaterVars, shared, env
  <2>2. UpdaterTypeOK'
    BY <1>11, RowType DEF Back, UpdaterTypeOK, SharedTypeOK, ProgressInv,
       HistoryBounded, UpdaterState, receiverVars, updaterVars, shared, env
  <2>3. SharedTypeOK'
    BY <1>11 DEF Back, SharedTypeOK, ReceiverTypeOK, receiverVars, updaterVars,
       shared, env
  <2>4. EnvTypeOK'
    BY <1>11 DEF Back, EnvTypeOK, ReceiverTypeOK, ProgressInv, receiverVars,
       updaterVars, shared, env
  <2>5. HistoryBounded'
    BY <1>11 DEF Back, HistoryBounded, ReceiverTypeOK, SharedTypeOK,
       UpdaterTypeOK, receiverVars, updaterVars, shared, env
  <2>6. ProgressInv'
    BY <1>11 DEF Back, ProgressInv, ReceiverTypeOK, UpdaterTypeOK, EnvTypeOK,
       receiverVars, updaterVars, shared, env
  <2>7. FileInv'
    BY <1>11 DEF Back, FileInv, ReceiverTypeOK, SharedTypeOK, HistoryBounded,
       Writing, receiverVars, updaterVars, shared, env
  <2>8. QED
    BY <2>1, <2>2, <2>3, <2>4, <2>5, <2>6, <2>7
<1>12. CASE Forward
  <2>1. ReceiverTypeOK'
    BY <1>12 DEF Forward, ReceiverTypeOK, SharedTypeOK, EnvTypeOK, ProgressInv,
       ReceiverState, receiverVars, updaterVars, shared, env
  <2>2. UpdaterTypeOK'
    BY <1>12, RowType DEF Forward, UpdaterTypeOK, SharedTypeOK, ProgressInv,
       HistoryBounded, UpdaterState, receiverVars, updaterVars, shared, env
  <2>3. SharedTypeOK'
    BY <1>12 DEF Forward, SharedTypeOK, ReceiverTypeOK, receiverVars,
       updaterVars, shared, env
  <2>4. EnvTypeOK'
    BY <1>12 DEF Forward, EnvTypeOK, ReceiverTypeOK, ProgressInv, receiverVars,
       updaterVars, shared, env
  <2>5. HistoryBounded'
    BY <1>12 DEF Forward, HistoryBounded, ReceiverTypeOK, SharedTypeOK,
       UpdaterTypeOK, receiverVars, updaterVars, shared, env
  <2>6. ProgressInv'
    BY <1>12 DEF Forward, ProgressInv, ReceiverTypeOK, UpdaterTypeOK,
       EnvTypeOK, receiverVars, updaterVars, shared, env
  <2>7. FileInv'
    BY <1>12 DEF Forward, FileInv, ReceiverTypeOK, SharedTypeOK,
       HistoryBounded, Writing, receiverVars, updaterVars, shared, env
  <2>8. QED
    BY <2>1, <2>2, <2>3, <2>4, <2>5, <2>6, <2>7
<1>13. CASE LeaveHistory
  BY <1>13 DEF LeaveHistory, ReceiverTypeOK, UpdaterTypeOK, SharedTypeOK, EnvTypeOK,
     HistoryBounded, ProgressInv, FileInv, Writing, ReceiverState, UpdaterState,
     receiverVars, updaterVars, shared, env
<1>14. QED
  BY <1>1, <1>2, <1>3, <1>4, <1>5, <1>6, <1>7, <1>8, <1>9, <1>10, <1>11, <1>12, <1>13 DEF UpdaterStep, User

LEMMA EnvironmentStep == IInv /\ Environment => IInv'
<1> SUFFICES ASSUME IInv, Environment PROVE IInv'
  OBVIOUS
<1> USE ServerAssumption, FrameFacts, OrderLengths DEF IInv, TypeOK
<1>1. CASE Hangup
  BY <1>1 DEF Hangup, ReceiverTypeOK, UpdaterTypeOK, SharedTypeOK, EnvTypeOK,
     HistoryBounded, ProgressInv, FileInv, Writing, ReceiverState, UpdaterState,
     receiverVars, updaterVars, shared, env
<1>2. CASE Interrupt
  BY <1>2 DEF Interrupt, ReceiverTypeOK, UpdaterTypeOK, SharedTypeOK, EnvTypeOK,
     HistoryBounded, ProgressInv, FileInv, Writing, ReceiverState, UpdaterState,
     receiverVars, updaterVars, shared, env
<1>3. CASE Restart
  <2>1. ReceiverTypeOK'
    BY <1>3 DEF Restart, ReceiverTypeOK, SharedTypeOK, EnvTypeOK, ProgressInv,
       ReceiverState, receiverVars, updaterVars, shared, env
  <2>2. UpdaterTypeOK'
    BY <1>3 DEF Restart, UpdaterTypeOK, SharedTypeOK, ProgressInv,
       HistoryBounded, UpdaterState, receiverVars, updaterVars, shared, env
  <2>3. SharedTypeOK'
    BY <1>3 DEF Restart, SharedTypeOK, ReceiverTypeOK, receiverVars,
       updaterVars, shared, env
  <2>4. EnvTypeOK'
    BY <1>3 DEF Restart, EnvTypeOK, ReceiverTypeOK, ProgressInv, receiverVars,
       updaterVars, shared, env
  <2>5. HistoryBounded'
    BY <1>3 DEF Restart, HistoryBounded, ReceiverTypeOK, SharedTypeOK,
       UpdaterTypeOK, receiverVars, updaterVars, shared, env
  <2>6. ProgressInv'
    BY <1>3 DEF Restart, ProgressInv, ReceiverTypeOK, UpdaterTypeOK, EnvTypeOK,
       receiverVars, updaterVars, shared, env
  <2>7. FileInv'
    BY <1>3 DEF Restart, FileInv, ReceiverTypeOK, SharedTypeOK, HistoryBounded,
       Writing, receiverVars, updaterVars, shared, env
  <2>8. QED
    BY <2>1, <2>2, <2>3, <2>4, <2>5, <2>6, <2>7
<1>4. QED
  BY <1>1, <1>2, <1>3 DEF Environment

(* IInv holds throughout. *)
THEOREM Invariance == Spec => []IInv
<1>1. IInv /\ UNCHANGED vars => IInv'
  BY DEF IInv, TypeOK, ReceiverTypeOK, UpdaterTypeOK, SharedTypeOK, EnvTypeOK,
     HistoryBounded, ProgressInv, FileInv, vars,
     receiverVars, updaterVars, shared, env
<1>2. IInv /\ [Next]_vars => IInv'
  BY <1>1, ReceiverStep, UpdaterSteps, EnvironmentStep DEF Next
<1>3. QED
  BY <1>2, Initial, PTL DEF Spec

(* Every variable of the server stays in its set. *)
THEOREM TypeCorrect == Spec => []TypeOK
  BY Invariance, PTL DEF IInv

(* input.txt and the tables its rows are loaded into stay within Capacity  *)
(* rows, whoever crashes where.                                            *)
THEOREM HistoryStaysBounded == Spec => []HistoryBounded
  BY Invariance, PTL DEF IInv

-----------------------------------------------------------------------------
(* Only three steps change the log: closing the file records the frame, a  *)
(* restart in the middle of a rewrite loses the log, and a restart in the  *)
(* middle of an append loses nothing but the frame.                        *)

LEMMA CloseRecords ==
  ASSUME IInv, CloseFile
  PROVE  frame \in Frame /\ Log!Record(frame) /\ History' # << >>
<1>1. /\ rows \in Seq(Frame) /\ frame \in Frame /\ Len(rows) <= Capacity
      /\ receiver = "close" /\ receiver' = "unlock"
      /\ file' = Log!Latest(Append(rows, frame))
  BY DEF IInv, TypeOK, ReceiverTypeOK, HistoryBounded, FileInv, Writing,
     CloseFile
<1>2. History = rows /\ History' = file'
  BY <1>1 DEF History, Writing
<1>3. file' # << >>
  <2>1. Len(file') \in 1 .. Capacity
    BY <1>1, LatestOfAppend
  <2>2. QED
    BY <2>1, ServerAssumption
<1>4. QED
  BY <1>1, <1>2, <1>3 DEF Log!Record

LEMMA RestartLoses ==
  ASSUME IInv, Restart
  PROVE  \/ History' = History
         \/ History' = << >> /\ receiver \in Writing /\ file = << >>
<1>1. History' = file
  BY DEF Restart, History, Writing
<1>2. receiver \in Writing => file \in {rows, << >>}
  BY DEF IInv, FileInv
<1>3. QED
  BY <1>1, <1>2 DEF History

LEMMA OthersKeepLog ==
  ASSUME IInv, [Next]_vars, ~CloseFile, ~Restart
  PROVE  History' = History
<1> USE DEF History, Writing
<1>1. CASE ReadDataIn
  BY <1>1 DEF ReadDataIn, shared
<1>2. CASE ReadLogout
  BY <1>2 DEF ReadLogout, shared
<1>3. CASE ReadFrame
  BY <1>3 DEF ReadFrame, shared
<1>4. CASE Lock
  BY <1>4 DEF Lock, shared
<1>5. CASE LoadFile
  BY <1>5 DEF LoadFile, shared
<1>6. CASE OpenFile
  BY <1>6 DEF OpenFile, shared, IInv, FileInv
<1>7. CASE CopyCell
  BY <1>7 DEF CopyCell, shared
<1>8. CASE RaiseFlag
  BY <1>8 DEF RaiseFlag, shared
<1>9. CASE Unlock
  BY <1>9 DEF Unlock, shared
<1>10. CASE Leave
  BY <1>10 DEF Leave, shared
<1>11. CASE UpdaterStep \/ User
  BY <1>11 DEF UpdaterStep, User, SeeFlag, QuitUpdater, PassSemaphore, DrawCell,
     ClearFlag, NoPress, LoadHistory, UnlockHistory, ShowNewest, PressHistory,
     Back, Forward, LeaveHistory, receiverVars, shared
<1>12. CASE Hangup \/ Interrupt
  BY <1>12 DEF Hangup, Interrupt, receiverVars, shared
<1>13. CASE UNCHANGED vars
  BY <1>13 DEF vars, receiverVars, shared
<1>14. QED
  BY <1>1, <1>2, <1>3, <1>4, <1>5, <1>6, <1>7, <1>8, <1>9, <1>10, <1>11, <1>12, <1>13
  DEF Next, Receiver, Environment

(* The server implements the abstract log: its history is always the most  *)
(* recent Capacity frames recorded since the last loss.                    *)
THEOREM ImplementsLog == Spec => LogSpec
<1>1. Init => Log!Init
  BY FrameFacts, ServerAssumption DEF Init, Log!Init, History, Writing
<1>2. IInv /\ [Next]_vars => [Log!Next]_History
  <2>1. SUFFICES ASSUME IInv, [Next]_vars PROVE Log!Next \/ History' = History
    BY DEF Log!Next
  <2>2. CASE CloseFile
    BY <2>1, <2>2, CloseRecords DEF Log!Next
  <2>3. CASE Restart
    BY <2>1, <2>3, RestartLoses DEF Log!Next, Log!Lose
  <2>4. QED
    BY <2>1, <2>2, <2>3, OthersKeepLog
<1>3. QED
  BY <1>1, <1>2, Invariance, PTL DEF Spec, LogSpec, Log!Spec

(* Losing the log takes a restart between fopen "w" and fclose.            *)
THEOREM LossNeedsCrash == Spec => LostOnlyInRewrite
<1>1. IInv /\ [Next]_vars =>
        [History # << >> /\ History' = << >> =>
           receiver \in Writing /\ file = << >> /\ restarts' # restarts]_vars
  <2>1. SUFFICES ASSUME IInv, [Next]_vars, History # << >>, History' = << >>
                 PROVE  /\ receiver \in Writing /\ file = << >>
                        /\ restarts' # restarts
    OBVIOUS
  <2>2. CASE CloseFile
    BY <2>1, <2>2, CloseRecords
  <2>3. CASE Restart
    <3>1. restarts' # restarts
      BY <2>1, <2>3 DEF Restart, IInv, TypeOK, EnvTypeOK
    <3>2. QED
      BY <2>1, <2>3, <3>1, RestartLoses
  <2>4. QED
    BY <2>1, <2>2, <2>3, OthersKeepLog
<1>2. QED
  BY <1>1, Invariance, PTL DEF Spec, LostOnlyInRewrite

(* What makes it so.                                                       *)
THEOREM FileConsistent == Spec => []FileInv
  BY Invariance, PTL DEF IInv

-----------------------------------------------------------------------------
(* What the two processes leave alone.                                     *)

LEMMA UpdaterLeaves ==
  UpdaterStep \/ User => UNCHANGED << receiverVars, file, upData, quit, env >>
BY DEF UpdaterStep, User, SeeFlag, QuitUpdater, PassSemaphore, DrawCell, ClearFlag,
   NoPress, LoadHistory, UnlockHistory, ShowNewest, PressHistory, Back, Forward,
   LeaveHistory, receiverVars, shared, env

LEMMA ReceiverLeaves == Receiver => UNCHANGED << updaterVars, peer, restarts, paced >>
BY DEF Receiver, ReadDataIn, ReadLogout, ReadFrame, Lock, LoadFile, OpenFile, CopyCell,
   RaiseFlag, CloseFile, Unlock, Leave, updaterVars, shared, env

-----------------------------------------------------------------------------
(* The order of the rows: all frames of the log were sent, the one being   *)
(* recorded after all of them.                                             *)

Increasing(s) == \A i, j \in DOMAIN s :
  i < j /\ s[i] # Zero /\ s[j] # Zero => s[i] < s[j]
Taken == receiver \in {"lock", "load", "open"} \cup Writing

OrderInv ==
  /\ Increasing(History) /\ \A i \in DOMAIN History : History[i] <= sent
  /\ Taken => frame = Zero \/ (frame = sent /\ \A i \in DOMAIN History : History[i] < frame)

LEMMA HistoryType == IInv => History \in Seq(Frame) /\ Len(History) <= Capacity
BY DEF IInv, TypeOK, ReceiverTypeOK, SharedTypeOK, HistoryBounded, History

LEMMA OrderInit == Init => OrderInv
<1> SUFFICES ASSUME Init PROVE OrderInv
  OBVIOUS
<1>1. /\ receiver = "command" /\ sent = 0 /\ History = file
      /\ file \in {OldRows(k) : k \in 0 .. Capacity}
  BY DEF Init, History, Writing
<1>2. PICK k \in 0 .. Capacity : file = OldRows(k)
  BY <1>1
<1>3. k \in Nat /\ DOMAIN file = 1 .. k /\ \A i \in 1 .. k : file[i] = i - k - 1
  BY <1>2, ServerAssumption DEF OldRows
<1> QED BY <1>1, <1>3 DEF OrderInv, Increasing, Taken, Writing

(* A row behind rows that are all smaller.                                 *)
LEMMA Newest ==
  ASSUME NEW s \in Seq(Frame), NEW f \in Frame, NEW n \in Nat, Len(s) <= Capacity,
         Increasing(s), \A i \in DOMAIN s : s[i] <= n,
         f = Zero \/ (f = n /\ \A i \in DOMAIN s : s[i] < f)
  PROVE  /\ Increasing(Log!Latest(Append(s, f)))
         /\ \A i \in DOMAIN Log!Latest(Append(s, f)) : Log!Latest(Append(s, f))[i] <= n
<1> DEFINE a == Append(s, f)
<1>0. Frame \subseteq Int /\ Capacity \in Nat /\ 0 <= n
  BY ServerAssumption DEF Frame
<1>1. /\ Len(s) \in Nat /\ DOMAIN s = 1 .. Len(s) /\ DOMAIN a = 1 .. Len(s) + 1
      /\ a[Len(s) + 1] = f /\ \A i \in 1 .. Len(s) : a[i] = s[i] /\ s[i] \in Frame
      /\ a \in Seq(Frame) /\ Len(a) = Len(s) + 1
  OBVIOUS
<1>2. \A i \in DOMAIN a : a[i] <= n
  BY <1>0, <1>1 DEF Zero
<1>3. Increasing(a)
  <2> SUFFICES ASSUME NEW i \in 1 .. Len(s) + 1, NEW j \in 1 .. Len(s) + 1, i < j,
                      a[i] # Zero, a[j] # Zero
               PROVE  a[i] < a[j]
    BY <1>1 DEF Increasing
  <2>1. i \in 1 .. Len(s) /\ a[i] = s[i]
    BY <1>1
  <2>2. CASE j = Len(s) + 1
    BY <1>1, <2>1, <2>2
  <2>3. CASE j # Len(s) + 1
    <3>1. j \in 1 .. Len(s) /\ a[j] = s[j]
      BY <1>1, <2>3
    <3> QED BY <1>1, <2>1, <3>1 DEF Increasing
  <2> QED BY <2>2, <2>3
<1> SUFFICES /\ Increasing(Log!Latest(a))
             /\ \A i \in DOMAIN Log!Latest(a) : Log!Latest(a)[i] <= n
  OBVIOUS
<1> HIDE DEF a
<1>4. CASE Len(a) <= Capacity
  BY <1>2, <1>3, <1>4 DEF Log!Latest
<1>5. CASE ~(Len(a) <= Capacity)
  <2>1. Len(a) = Capacity + 1 /\ Log!Latest(a) = SubSeq(a, 2, Capacity + 1)
    BY <1>0, <1>1, <1>5 DEF Log!Latest
  <2>2. /\ DOMAIN Log!Latest(a) = 1 .. Capacity
        /\ \A i \in 1 .. Capacity : Log!Latest(a)[i] = a[i + 1] /\ i + 1 \in DOMAIN a
    BY <1>0, <1>1, <2>1
  <2>3. Increasing(Log!Latest(a))
    BY <1>3, <2>2 DEF Increasing
  <2> QED BY <1>2, <2>2, <2>3
<1> QED BY <1>4, <1>5

LEMMA OrderKept == IInv /\ OrderInv /\ [Next]_vars => OrderInv'
<1> SUFFICES ASSUME IInv, OrderInv, [Next]_vars PROVE OrderInv'
  OBVIOUS
<1>0. sent \in Nat /\ History \in Seq(Frame) /\ Frame \subseteq Int
  BY HistoryType, ServerAssumption DEF IInv, TypeOK, EnvTypeOK, Frame
<1>1. CASE CloseFile
  <2>1. /\ rows \in Seq(Frame) /\ frame \in Frame /\ Len(rows) <= Capacity
        /\ receiver = "close" /\ receiver' = "unlock" /\ sent' = sent
        /\ file' = Log!Latest(Append(rows, frame))
    BY <1>1 DEF IInv, TypeOK, ReceiverTypeOK, HistoryBounded, FileInv, Writing, CloseFile, env
  <2>2. History = rows /\ History' = file'
    BY <2>1 DEF History, Writing
  <2>3. frame = Zero \/ (frame = sent /\ \A i \in DOMAIN rows : rows[i] < frame)
    BY <2>1, <2>2 DEF OrderInv, Taken, Writing
  <2>4. Increasing(rows) /\ \A i \in DOMAIN rows : rows[i] <= sent
    BY <2>2 DEF OrderInv
  <2>5. Increasing(file') /\ \A i \in DOMAIN file' : file'[i] <= sent
    BY <1>0, <2>1, <2>3, <2>4, Newest
  <2> QED BY <2>1, <2>2, <2>5 DEF OrderInv, Taken, Writing
<1>2. CASE Restart
  <2>1. History' = History \/ History' = << >>
    BY <1>2, RestartLoses
  <2>2. sent' = sent /\ ~Taken'
    BY <1>2 DEF Restart, Taken, Writing
  <2> QED BY <2>1, <2>2 DEF OrderInv, Increasing
<1>3. CASE ReadFrame
  <2>1. History' = History
    BY <1>1, <1>3, OthersKeepLog DEF ReadFrame, Restart, History, Writing, shared
  <2>2. \/ frame' = Zero /\ sent' = sent
        \/ frame' = sent + 1 /\ sent' = sent + 1
    BY <1>3 DEF ReadFrame
  <2>3. \A i \in DOMAIN History : History[i] \in Int
    <3>1. \A s \in Seq(Frame) : \A i \in DOMAIN s : s[i] \in Frame
      OBVIOUS
    <3> QED BY <1>0, <3>1
  <2> QED BY <1>0, <2>1, <2>2, <2>3 DEF OrderInv
<1>4. CASE ~CloseFile /\ ~Restart /\ ~ReadFrame
  <2>1. History' = History
    BY <1>4, OthersKeepLog
  <2>2. sent' = sent /\ (Taken' => Taken /\ frame' = frame)
    <3>1. CASE UpdaterStep \/ User
      BY <3>1, UpdaterLeaves DEF receiverVars, env, Taken
    <3>2. CASE Receiver
      BY <1>4, <3>2 DEF Receiver, ReadDataIn, ReadLogout, Lock, LoadFile, OpenFile, CopyCell,
         RaiseFlag, Unlock, Leave, env, Taken, Writing
    <3>3. CASE Hangup \/ Interrupt \/ UNCHANGED vars
      BY <3>3 DEF Hangup, Interrupt, vars, receiverVars, env, Taken
    <3> QED BY <1>4, <3>1, <3>2, <3>3 DEF Next, Environment
  <2> QED BY <2>1, <2>2 DEF OrderInv
<1> QED BY <1>1, <1>2, <1>3, <1>4

(* The rows of input.txt are in the order in which their frames were sent. *)
THEOREM RowsInOrder == Spec => []HistoryInOrder
<1>1. IInv /\ OrderInv => HistoryInOrder
  <2> SUFFICES ASSUME IInv, OrderInv PROVE Increasing(file)
    BY DEF HistoryInOrder, Increasing
  <2>1. Increasing(History)
    BY DEF OrderInv
  <2>2. CASE receiver \in Writing
    BY <2>1, <2>2 DEF IInv, FileInv, History, Increasing
  <2>3. CASE receiver \notin Writing
    BY <2>1, <2>3 DEF History
  <2> QED BY <2>2, <2>3
<1> QED BY Invariance, OrderInit, OrderKept, <1>1, PTL DEF Spec

-----------------------------------------------------------------------------
(* What up_data holds: while a frame is copied its beginning, otherwise    *)
(* one frame, which is the last row of the file when the flag is up.       *)

CopyInv ==
  /\ receiver = "copy" => \A j \in 1 .. copied : upData[CopyOrder[j]] = frame
  /\ receiver \in {"flag", "close"} => \A c \in Cell : upData[c] = frame
  /\ receiver # "copy" => \A c, d \in Cell : upData[c] = upData[d]
PublishInv == CopyInv /\ PublishedIsRecorded

LEMMA Cells ==
  /\ Cell = {CopyOrder[j] : j \in 1 .. 4} /\ Cell = {DrawOrder[j] : j \in 1 .. 4}
  /\ \A i, j \in 1 .. 4 : CopyOrder[i] = CopyOrder[j] => i = j
  /\ \A i, j \in 1 .. 4 : DrawOrder[i] = DrawOrder[j] => i = j
BY DEF Cell, CopyOrder, DrawOrder

LEMMA PublishInit == Init => PublishInv
BY DEF Init, PublishInv, CopyInv, PublishedIsRecorded, Fresh

LEMMA CopyingKeeps ==
  ASSUME IInv, CopyInv, CopyCell PROVE CopyInv'
<1>1. /\ upData \in [Cell -> Content] /\ copied \in 0 .. 3 /\ copied' = copied + 1
      /\ frame' = frame /\ receiver = "copy"
      /\ receiver' = IF copied + 1 = 4 THEN "flag" ELSE "copy"
  BY OrderLengths DEF IInv, TypeOK, SharedTypeOK, ReceiverTypeOK, ProgressInv, CopyCell
<1>2. CopyOrder[copied + 1] \in Cell
  BY <1>1, Cells
<1>3. \A c \in Cell : upData'[c] = IF c = CopyOrder[copied + 1] THEN frame ELSE upData[c]
  BY <1>1, <1>2 DEF CopyCell
<1>4. \A j \in 1 .. copied + 1 : upData'[CopyOrder[j]] = frame
  <2> SUFFICES ASSUME NEW j \in 1 .. copied + 1 PROVE upData'[CopyOrder[j]] = frame
    OBVIOUS
  <2>1. CopyOrder[j] \in Cell
    BY <1>1, Cells
  <2>2. CASE j = copied + 1
    BY <1>3, <2>1, <2>2
  <2>3. CASE j # copied + 1
    <3>1. j \in 1 .. copied
      BY <1>1, <2>3
    <3> QED BY <1>1, <1>3, <2>1, <3>1 DEF CopyInv
  <2> QED BY <2>2, <2>3
<1>5. CASE copied + 1 = 4
  <2>1. \A c \in Cell : upData'[c] = frame
    BY <1>4, <1>5, Cells
  <2> QED BY <1>1, <1>5, <2>1 DEF CopyInv
<1>6. CASE copied + 1 # 4
  BY <1>1, <1>4, <1>6 DEF CopyInv
<1> QED BY <1>5, <1>6

LEMMA PublishKept == IInv /\ PublishInv /\ [Next]_vars => PublishInv'
<1> SUFFICES ASSUME IInv, PublishInv, [Next]_vars PROVE PublishInv'
  OBVIOUS
<1> USE DEF PublishInv
<1>1. CASE CloseFile
  <2>1. /\ rows \in Seq(Frame) /\ frame \in Frame /\ Len(rows) <= Capacity
        /\ receiver = "close" /\ receiver' = "unlock" /\ upData' = upData
        /\ file' = Log!Latest(Append(rows, frame))
    BY <1>1 DEF IInv, TypeOK, ReceiverTypeOK, HistoryBounded, FileInv, Writing, CloseFile
  <2>2. file' # << >> /\ file'[Len(file')] = frame
    <3>1. CASE Len(rows) < Capacity
      <4>1. file' = rows \o << frame >>
        BY <2>1, <3>1, LatestOfAppend
      <4> QED BY <2>1, <4>1
    <3>2. CASE ~(Len(rows) < Capacity)
      <4>1. rows # << >> /\ Len(rows) \in Nat \ {0}
        BY <2>1, <3>2, ServerAssumption
      <4>2. Tail(rows) \in Seq(Frame) /\ file' = Append(Tail(rows), frame)
        <5>1. file' = << >> \o Append(Tail(rows), frame)
          BY <2>1, <3>2, LatestOfAppend
        <5>2. Tail(rows) \in Seq(Frame)
          BY <2>1, <4>1
        <5>3. Append(Tail(rows), frame) \in Seq(Frame)
          BY <2>1, <5>2
        <5> QED BY <5>1, <5>2, <5>3
      <4> QED BY <2>1, <4>2
    <3> QED BY <3>1, <3>2
  <2>3. upData \in [Cell -> Content] /\ \A c \in Cell : upData[c] = frame
    BY <2>1 DEF CopyInv, IInv, TypeOK, SharedTypeOK
  <2>4. upData' = [c \in Cell |-> file'[Len(file')]]
    BY <2>1, <2>2, <2>3
  <2> QED BY <2>1, <2>2, <2>3, <2>4 DEF CopyInv, PublishedIsRecorded
<1>2. CASE CopyCell
  <2>1. CopyInv'
    BY <1>2, CopyingKeeps
  <2>2. receiver' \in Writing
    BY <1>2 DEF CopyCell, Writing
  <2> QED BY <2>1, <2>2 DEF PublishedIsRecorded
<1>3. CASE OpenFile
  BY <1>3 DEF OpenFile, CopyInv, PublishedIsRecorded, Writing
<1>4. CASE Restart
  BY <1>4 DEF Restart, CopyInv, PublishedIsRecorded, Fresh
<1>5. CASE RaiseFlag \/ Unlock \/ Lock
  BY <1>5 DEF RaiseFlag, Unlock, Lock, CopyInv, PublishedIsRecorded, Writing, ReceiverState
<1>6. CASE ReadDataIn \/ ReadLogout \/ ReadFrame \/ LoadFile \/ Leave
  BY <1>6 DEF ReadDataIn, ReadLogout, ReadFrame, LoadFile, Leave, shared, CopyInv,
     PublishedIsRecorded, Writing, ReceiverState
<1>7. CASE UpdaterStep \/ User
  <2>1. UNCHANGED << receiver, frame, copied, file, upData >>
    BY <1>7, UpdaterLeaves DEF receiverVars
  <2>2. updateFlag' = 1 => updateFlag = 1
    BY <1>7 DEF UpdaterStep, User, SeeFlag, QuitUpdater, PassSemaphore, DrawCell, ClearFlag,
       NoPress, LoadHistory, UnlockHistory, ShowNewest, PressHistory, Back, Forward,
       LeaveHistory, shared
  <2> QED BY <2>1, <2>2 DEF CopyInv, PublishedIsRecorded
<1>8. CASE Hangup \/ Interrupt \/ UNCHANGED vars
  BY <1>8 DEF Hangup, Interrupt, vars, receiverVars, shared, CopyInv, PublishedIsRecorded
<1> QED BY <1>1, <1>2, <1>3, <1>4, <1>5, <1>6, <1>7, <1>8 DEF Next, Receiver, Environment

LEMMA PublishInvariant == Spec => []PublishInv
  BY Invariance, PublishInit, PublishKept, PTL DEF Spec

(* What update_flag announces is the last row of the file.                 *)
THEOREM FlagMeansRecorded == Spec => []PublishedIsRecorded
  BY PublishInvariant, PTL DEF PublishInv

-----------------------------------------------------------------------------
(* The row that is browsed.                                                *)

LoadedInv == updater \in {"unlock", "show"} => num = Len(data) - 1

(* Browsing stays inside the table whatever is pressed, also when the file *)
(* was loaded in the middle of a rewrite.                                  *)
THEOREM BrowsesInside == Spec => []BrowseInRange
<1>1. Init => LoadedInv /\ BrowseInRange
  BY DEF Init, LoadedInv, BrowseInRange
<1>2. IInv /\ LoadedInv /\ BrowseInRange /\ [Next]_vars => LoadedInv' /\ BrowseInRange'
  <2> SUFFICES ASSUME IInv, LoadedInv, BrowseInRange, [Next]_vars
               PROVE  LoadedInv' /\ BrowseInRange'
    OBVIOUS
  <2>0. /\ Len(data) \in Nat /\ DOMAIN data = 1 .. Len(data) /\ num \in Int
        /\ data = << >> <=> Len(data) = 0
    BY ServerAssumption DEF IInv, TypeOK, UpdaterTypeOK
  <2>1. CASE LoadHistory
    <3>1. file \in Seq(Frame)
      BY DEF IInv, TypeOK, SharedTypeOK
    <3>2. Len(data') = Len(file)
      BY <2>1, <3>1 DEF LoadHistory
    <3> QED BY <2>1, <3>2 DEF LoadHistory, LoadedInv, BrowseInRange
  <2>2. CASE ShowNewest
    BY <2>0, <2>2 DEF ShowNewest, LoadedInv, BrowseInRange
  <2>3. CASE Back \/ Forward
    <3>1. /\ data' = data /\ updater = "browse" /\ updater' = "browse"
          /\ \/ num' = IF num > 0 THEN num - 1 ELSE num
             \/ num' = IF num < Len(data) - 1 THEN num + 1 ELSE num
      BY <2>3 DEF Back, Forward
    <3>2. IF Len(data) = 0 THEN num = -1 ELSE num + 1 \in 1 .. Len(data)
      BY <2>0, <3>1 DEF BrowseInRange
    <3>3. IF Len(data) = 0 THEN num' = -1 ELSE num' + 1 \in 1 .. Len(data)
      BY <2>0, <3>1, <3>2
    <3> QED BY <2>0, <3>1, <3>3 DEF LoadedInv, BrowseInRange
  <2>4. CASE Receiver
    BY <2>4, ReceiverLeaves DEF updaterVars, LoadedInv, BrowseInRange
  <2>5. CASE Environment \/ UNCHANGED vars
    BY <2>5 DEF Environment, Hangup, Interrupt, Restart, vars, updaterVars, LoadedInv,
       BrowseInRange
  <2>6. CASE SeeFlag \/ QuitUpdater \/ PassSemaphore \/ DrawCell \/ ClearFlag \/ NoPress
             \/ UnlockHistory \/ PressHistory \/ LeaveHistory
    BY <2>6 DEF SeeFlag, QuitUpdater, PassSemaphore, DrawCell, ClearFlag, NoPress,
       UnlockHistory, PressHistory, LeaveHistory, LoadedInv, BrowseInRange
  <2> QED BY <2>1, <2>2, <2>3, <2>4, <2>5, <2>6 DEF Next, UpdaterStep, User
<1> QED BY Invariance, <1>1, <1>2, PTL DEF Spec

-----------------------------------------------------------------------------
(* The live picture.  A cell of up_data is of the newest frame, of the one *)
(* before while the newest is being stored, or cleared; so a cell that is  *)
(* drawn later is at most one frame older.                                 *)

Behind == {"lock", "load", "open", "copy"}
Oldest == IF receiver \in Behind THEN sent - 1 ELSE sent
AgeInv == \A c \in Cell :
  upData[c] <= sent /\ (upData[c] = Zero \/ upData[c] >= Oldest)

Live == updater \in {"draw", "clear"}
DrawnInv == Live =>
  /\ updater = "clear" => drawn = 4
  /\ \A i \in 1 .. drawn : picture[DrawOrder[i]] <= sent
  /\ \A i, j \in 1 .. drawn : i < j =>
       picture[DrawOrder[j]] = Zero \/ picture[DrawOrder[j]] >= picture[DrawOrder[i]] - 1

LEMMA Numbers ==
  IInv => /\ Content \subseteq Int /\ sent \in Nat /\ upData \in [Cell -> Content]
          /\ picture \in [Cell -> Content] /\ drawn \in 0 .. 4
BY ServerAssumption, OrderLengths
   DEF IInv, TypeOK, SharedTypeOK, UpdaterTypeOK, EnvTypeOK, Content, Frame, Garbage

LEMMA AgeInit == Init => AgeInv /\ DrawnInv
BY DEF Init, AgeInv, DrawnInv, Fresh, Live, Zero, Oldest, Behind

LEMMA AgeKept ==
  IInv /\ OrderInv /\ PublishInv /\ PublishInv' /\ AgeInv /\ [Next]_vars => AgeInv'
<1> SUFFICES ASSUME IInv, OrderInv, PublishInv, PublishInv', AgeInv, [Next]_vars
             PROVE  AgeInv'
  OBVIOUS
<1>0. sent \in Nat /\ \A c \in Cell : upData[c] \in Int
  BY Numbers
<1>1. CASE CopyCell
  <2>1. /\ receiver = "copy" /\ sent' = sent /\ receiver' \in {"copy", "flag"}
        /\ frame \in {Zero, sent} /\ frame' = frame
    BY <1>1 DEF CopyCell, env, OrderInv, Taken, Writing
  <2>2. \A c \in Cell : upData'[c] \in {frame, upData[c]}
    BY <1>1, Numbers DEF CopyCell
  <2>3. receiver' = "flag" => \A c \in Cell : upData'[c] = frame
    BY <2>1 DEF PublishInv, CopyInv
  <2>4. CASE receiver' = "flag"
    BY <1>0, <2>1, <2>3, <2>4 DEF AgeInv, Oldest, Behind, Zero
  <2>5. CASE receiver' = "copy"
    BY <1>0, <2>1, <2>2, <2>5 DEF AgeInv, Oldest, Behind, Zero
  <2> QED BY <2>1, <2>4, <2>5
<1>2. CASE ReadFrame
  <2>1. receiver = "frame" /\ receiver' = "lock" /\ upData' = upData /\ sent' \in {sent, sent + 1}
    BY <1>2 DEF ReadFrame, shared
  <2> QED BY <1>0, <2>1 DEF AgeInv, Oldest, Behind
<1>3. CASE Restart
  <2>1. sent' = sent /\ \A c \in Cell : upData'[c] = Zero
    BY <1>3 DEF Restart, Fresh
  <2> QED BY <1>0, <2>1 DEF AgeInv, Zero
<1>4. CASE ~CopyCell /\ ~ReadFrame /\ ~Restart
  <2>1. UNCHANGED << upData, sent >> /\ (receiver' \in Behind <=> receiver \in Behind)
    <3>1. CASE UpdaterStep \/ User
      BY <3>1, UpdaterLeaves DEF receiverVars, env
    <3>2. CASE Receiver
      BY <1>4, <3>2 DEF Receiver, ReadDataIn, ReadLogout, Lock, LoadFile, OpenFile, CloseFile,
         RaiseFlag, Unlock, Leave, env, shared, Behind
    <3>3. CASE Hangup \/ Interrupt \/ UNCHANGED vars
      BY <3>3 DEF Hangup, Interrupt, vars, receiverVars, env, shared
    <3> QED BY <1>4, <3>1, <3>2, <3>3 DEF Next, Environment
  <2> QED BY <2>1 DEF AgeInv, Oldest
<1> QED BY <1>1, <1>2, <1>3, <1>4

(* The cell that DrawCell draws, and the ones it leaves.                   *)
LEMMA Drawing1 ==
  ASSUME IInv, DrawCell
  PROVE  /\ drawn \in 0 .. 3 /\ drawn' = drawn + 1 /\ updater = "draw"
         /\ updater' = IF drawn + 1 = 4 THEN "clear" ELSE "draw"
         /\ picture'[DrawOrder[drawn + 1]] = upData[DrawOrder[drawn + 1]]
         /\ DrawOrder[drawn + 1] \in Cell
         /\ \A i \in 1 .. drawn : picture'[DrawOrder[i]] = picture[DrawOrder[i]]
         /\ \A i \in 1 .. drawn : DrawOrder[i] \in Cell
         /\ UNCHANGED << receiverVars, shared, env >>
<1>1. /\ drawn \in 0 .. 3 /\ drawn' = drawn + 1 /\ updater = "draw"
      /\ updater' = IF drawn + 1 = 4 THEN "clear" ELSE "draw"
      /\ UNCHANGED << receiverVars, shared, env >>
  BY OrderLengths DEF IInv, TypeOK, UpdaterTypeOK, ProgressInv, DrawCell
<1>2. /\ DrawOrder[drawn + 1] \in Cell
      /\ \A i \in 1 .. drawn : DrawOrder[i] \in Cell /\ DrawOrder[i] # DrawOrder[drawn + 1]
  BY <1>1, Cells
<1>3. \A c \in Cell : picture'[c] = IF c = DrawOrder[drawn + 1] THEN upData[c] ELSE picture[c]
  BY Numbers, <1>2 DEF DrawCell
<1> QED BY <1>1, <1>2, <1>3

LEMMA DrawnKept == IInv /\ AgeInv /\ DrawnInv /\ [Next]_vars => DrawnInv'
<1> SUFFICES ASSUME IInv, AgeInv, DrawnInv, [Next]_vars PROVE DrawnInv'
  OBVIOUS
<1>0. /\ sent \in Nat /\ drawn \in 0 .. 4 /\ \A c \in Cell : picture[c] \in Int /\ upData[c] \in Int
      /\ \A i \in 1 .. 4 : DrawOrder[i] \in Cell
  BY Numbers, Cells
<1>1. CASE DrawCell
  <2> DEFINE new == DrawOrder[drawn + 1]
  <2>1. /\ upData[new] <= sent /\ (upData[new] = Zero \/ upData[new] >= sent - 1)
        /\ upData[new] \in Int /\ sent' = sent
    BY <1>0, <1>1, Drawing1 DEF AgeInv, Oldest, env
  <2>2. Live /\ (updater' = "clear" => drawn' = 4)
    BY <1>0, <1>1, Drawing1 DEF Live
  <2>3. \A i \in 1 .. drawn' : picture'[DrawOrder[i]] <= sent'
    <3> SUFFICES ASSUME NEW i \in 1 .. drawn' PROVE picture'[DrawOrder[i]] <= sent'
      OBVIOUS
    <3>1. CASE i = drawn + 1
      BY <1>1, <2>1, <3>1, Drawing1
    <3>2. CASE i # drawn + 1
      <4>1. i \in 1 .. drawn
        BY <1>1, <3>2, Drawing1
      <4> QED BY <1>1, <2>1, <2>2, <4>1, Drawing1 DEF DrawnInv
    <3> QED BY <3>1, <3>2
  <2>4. ASSUME NEW i \in 1 .. drawn', NEW j \in 1 .. drawn', i < j
        PROVE  \/ picture'[DrawOrder[j]] = Zero
               \/ picture'[DrawOrder[j]] >= picture'[DrawOrder[i]] - 1
    <3>1. /\ i \in 1 .. drawn /\ picture'[DrawOrder[i]] = picture[DrawOrder[i]]
          /\ picture[DrawOrder[i]] <= sent /\ picture[DrawOrder[i]] \in Int
      <4>1. i \in 1 .. drawn
        BY <1>1, <2>4, Drawing1
      <4> QED BY <1>0, <1>1, <2>2, <4>1, Drawing1 DEF DrawnInv
    <3>2. CASE j = drawn + 1
      <4>1. picture'[DrawOrder[j]] = upData[new]
        BY <1>1, <3>2, Drawing1
      <4> HIDE DEF new
      <4> QED BY <1>0, <2>1, <3>1, <4>1
    <3>3. CASE j # drawn + 1
      <4>1. j \in 1 .. drawn
        BY <1>1, <3>3, Drawing1
      <4> QED BY <1>1, <2>2, <2>4, <3>1, <4>1, Drawing1 DEF DrawnInv
    <3> QED BY <3>2, <3>3
  <2> QED BY <2>2, <2>3, <2>4 DEF DrawnInv
<1>2. CASE PassSemaphore
  BY <1>2 DEF PassSemaphore, DrawnInv
<1>3. CASE Receiver
  <2>1. sent' \in Nat /\ sent' >= sent
    BY <1>0, <1>3 DEF Receiver, ReadDataIn, ReadLogout, ReadFrame, Lock, LoadFile, OpenFile,
       CopyCell, RaiseFlag, CloseFile, Unlock, Leave, env
  <2>2. UNCHANGED << updater, drawn, picture >>
    BY <1>3, ReceiverLeaves DEF updaterVars
  <2> QED BY <1>0, <2>1, <2>2 DEF DrawnInv, Live
<1>4. CASE Hangup \/ Interrupt \/ UNCHANGED vars
  BY <1>4 DEF Hangup, Interrupt, vars, updaterVars, env, DrawnInv, Live
<1>5. CASE ~DrawCell /\ ~PassSemaphore /\ (UpdaterStep \/ User \/ Restart)
  BY <1>5 DEF UpdaterStep, User, SeeFlag, QuitUpdater, ClearFlag, NoPress, LoadHistory,
     UnlockHistory, ShowNewest, PressHistory, Back, Forward, LeaveHistory, Restart,
     DrawnInv, Live
<1> QED BY <1>1, <1>2, <1>3, <1>4, <1>5 DEF Next, Environment

(* A cell of a live picture is at most one frame older than a cell that    *)
(* was read before it, at any speed of the two processes.                  *)
THEOREM PictureAtMostOneOlder == Spec => []AtMostOneOlder
<1>1. IInv /\ DrawnInv => AtMostOneOlder
  <2> SUFFICES ASSUME IInv, DrawnInv, updater = "clear", \A c \in Cell : picture[c] > Zero,
                      NEW i \in 1 .. 4, NEW j \in 1 .. 4, i < j
               PROVE  picture[DrawOrder[j]] >= picture[DrawOrder[i]] - 1
    BY OrderLengths DEF AtMostOneOlder
  <2>1. /\ DrawOrder[j] \in Cell /\ picture[DrawOrder[j]] \in Int /\ drawn = 4
        /\ picture[DrawOrder[j]] > 0
    BY Cells, Numbers DEF DrawnInv, Live, Zero
  <2> QED BY <2>1 DEF DrawnInv, Live, Zero
<1> QED BY Invariance, OrderInit, OrderKept, PublishInvariant, AgeInit, AgeKept, DrawnKept,
        <1>1, PTL DEF Spec

-----------------------------------------------------------------------------
(* Under the timing assumptions: what the two are doing at the same time.  *)
(* Before the receiver has the semaphore the updater is at rest or in the  *)
(* history; after that the semaphore is up until the frame is stored.      *)

AtRest == updater \in {"idle", "button", "done"}
TogetherInv == paced =>
  /\ receiver \in {"frame", "lock"} => updater = "browse" \/ (AtRest /\ updateFlag = 0)
  /\ receiver \in Storing \ {"lock"} => semaphore = 1 /\ (AtRest \/ updater \in {"browse", "wait"})
DrawsInv == paced /\ Live => \A i \in 1 .. drawn : picture[DrawOrder[i]] = upData[DrawOrder[i]]

LEMMA TogetherInit == Init => TogetherInv /\ DrawsInv
BY DEF Init, TogetherInv, DrawsInv, Live, Storing

LEMMA TogetherKept == IInv /\ TogetherInv /\ [Next]_vars => TogetherInv'
<1> SUFFICES ASSUME IInv, TogetherInv, [Next]_vars, paced' PROVE TogetherInv'
  BY DEF TogetherInv
<1>0. paced
  BY DEF Next, Receiver, UpdaterStep, User, Environment, vars, env, ReadDataIn, ReadLogout,
     ReadFrame, Lock, LoadFile, OpenFile, CopyCell, RaiseFlag, CloseFile, Unlock, Leave,
     SeeFlag, QuitUpdater, PassSemaphore, DrawCell, ClearFlag, NoPress, LoadHistory,
     UnlockHistory, ShowNewest, PressHistory, Back, Forward, LeaveHistory, Hangup,
     Interrupt, Restart
<1>1. receiver \in ReceiverState /\ updateFlag \in {0, 1}
  BY DEF IInv, TypeOK, ReceiverTypeOK, SharedTypeOK
<1> USE <1>0, <1>1 DEF TogetherInv, Storing, AtRest
<1>2. CASE ReadDataIn
  BY <1>2 DEF ReadDataIn, QuietUpdater, updaterVars, shared
<1>3. CASE ReadFrame \/ Lock
  BY <1>3 DEF ReadFrame, Lock, updaterVars, shared
<1>4. CASE LoadFile \/ OpenFile \/ CopyCell \/ RaiseFlag \/ CloseFile
  BY <1>4 DEF LoadFile, OpenFile, CopyCell, RaiseFlag, CloseFile, updaterVars, shared
<1>5. CASE ReadLogout \/ Unlock \/ Leave
  BY <1>5 DEF ReadLogout, Unlock, Leave, updaterVars, shared
<1>6. CASE SeeFlag \/ QuitUpdater \/ PassSemaphore \/ NoPress
  BY <1>6 DEF SeeFlag, QuitUpdater, PassSemaphore, NoPress, receiverVars, shared
<1>7. CASE DrawCell \/ ClearFlag \/ LoadHistory \/ UnlockHistory \/ ShowNewest
  BY <1>7 DEF DrawCell, ClearFlag, LoadHistory, UnlockHistory, ShowNewest, receiverVars, shared
<1>8. CASE PressHistory
  BY <1>8 DEF PressHistory, QuietReceiver, receiverVars
<1>9. CASE Back \/ Forward \/ LeaveHistory
  BY <1>9 DEF Back, Forward, LeaveHistory, NotBetweenReads, receiverVars, shared
<1>10. CASE Restart
  BY <1>10 DEF Restart
<1>11. CASE Hangup \/ Interrupt \/ UNCHANGED vars
  BY <1>11 DEF Hangup, Interrupt, vars, receiverVars, updaterVars, shared
<1> QED BY <1>2, <1>3, <1>4, <1>5, <1>6, <1>7, <1>8, <1>9, <1>10, <1>11
        DEF Next, Receiver, UpdaterStep, User, Environment

LEMMA DrawsKept == IInv /\ TogetherInv /\ DrawsInv /\ [Next]_vars => DrawsInv'
<1> SUFFICES ASSUME IInv, TogetherInv, DrawsInv, [Next]_vars PROVE DrawsInv'
  OBVIOUS
<1>1. CASE DrawCell
  <2> SUFFICES ASSUME paced, NEW i \in 1 .. drawn'
               PROVE  picture'[DrawOrder[i]] = upData[DrawOrder[i]]
    BY <1>1, Drawing1 DEF DrawsInv, env, shared
  <2>1. CASE i = drawn + 1
    BY <1>1, <2>1, Drawing1
  <2>2. CASE i # drawn + 1
    <3>1. i \in 1 .. drawn
      BY <1>1, <2>2, Drawing1
    <3> QED BY <1>1, <3>1, Drawing1 DEF DrawsInv, Live
  <2> QED BY <2>1, <2>2
<1>2. CASE PassSemaphore
  BY <1>2 DEF PassSemaphore, DrawsInv
<1>3. CASE Receiver
  <2>1. UNCHANGED << updater, drawn, picture, paced >>
    BY <1>3, ReceiverLeaves DEF updaterVars
  <2>2. paced /\ Live => upData' = upData
    BY <1>3 DEF Receiver, ReadDataIn, ReadLogout, ReadFrame, Lock, LoadFile, OpenFile,
       CopyCell, RaiseFlag, CloseFile, Unlock, Leave, shared, TogetherInv, Storing, AtRest,
       Live
  <2> QED BY <2>1, <2>2 DEF DrawsInv, Live
<1>4. CASE Hangup \/ Interrupt \/ UNCHANGED vars
  <2>1. UNCHANGED << updater, drawn, picture, upData, paced >>
    BY <1>4 DEF Hangup, Interrupt, vars, updaterVars, shared, env
  <2> QED BY <2>1 DEF DrawsInv, Live
<1>5. CASE ~DrawCell /\ ~PassSemaphore /\ (UpdaterStep \/ User \/ Restart)
  BY <1>5 DEF UpdaterStep, User, SeeFlag, QuitUpdater, ClearFlag, NoPress, LoadHistory,
     UnlockHistory, ShowNewest, PressHistory, Back, Forward, LeaveHistory, Restart,
     DrawsInv, Live
<1> QED BY <1>1, <1>2, <1>3, <1>4, <1>5 DEF Next, Environment

(* Under the timing assumptions a finished live picture is one frame.      *)
THEOREM PacedPictureWhole == Spec => []PictureWhole
<1>1. IInv /\ DrawnInv /\ PublishInv /\ TogetherInv /\ DrawsInv => PictureWhole
  <2> SUFFICES ASSUME IInv, DrawnInv, PublishInv, TogetherInv, DrawsInv, paced,
                      updater = "clear", NEW c \in Cell, NEW d \in Cell
               PROVE  picture[c] = picture[d]
    BY DEF PictureWhole
  <2>1. receiver # "copy" /\ drawn = 4
    BY DEF TogetherInv, Storing, AtRest, DrawnInv, Live
  <2>2. \A e \in Cell : picture[e] = upData[e]
    BY <2>1, Cells DEF DrawsInv, Live
  <2> QED BY <2>1, <2>2 DEF PublishInv, CopyInv
<1>2. Spec => []DrawnInv
  BY Invariance, OrderInit, OrderKept, PublishInvariant, AgeInit, AgeKept, DrawnKept,
     PTL DEF Spec
<1> QED BY Invariance, PublishInvariant, <1>1, <1>2, TogetherInit, TogetherKept, DrawsKept,
        PTL DEF Spec

(* Under any timing a load shows the whole log, or nothing while a full    *)
(* log is being rewritten: FileInv says what the file holds meanwhile.     *)
THEOREM LoadsAllOrNothingHolds == Spec => LoadsAllOrNothing
<1>1. IInv /\ [Next]_vars =>
        [updater = "load" /\ updater' = "unlock" =>
           \/ data' = [i \in 1 .. Len(History) |-> ParseRow(i, History[i])]
           \/ data' = << >> /\ receiver \in Writing /\ Len(rows) = Capacity]_vars
  <2> SUFFICES ASSUME IInv, [Next]_vars, updater = "load", updater' = "unlock"
               PROVE  \/ data' = [i \in 1 .. Len(History) |-> ParseRow(i, History[i])]
                      \/ data' = << >> /\ receiver \in Writing /\ Len(rows) = Capacity
    OBVIOUS
  <2>1. LoadHistory
    BY ReceiverLeaves DEF Next, UpdaterStep, User, Environment, vars, updaterVars, SeeFlag,
       QuitUpdater, PassSemaphore, DrawCell, ClearFlag, NoPress, UnlockHistory, ShowNewest,
       PressHistory, Back, Forward, LeaveHistory, Hangup, Interrupt, Restart
  <2>2. data' = [i \in 1 .. Len(file) |-> ParseRow(i, file[i])]
    BY <2>1 DEF LoadHistory
  <2>3. CASE file = History
    BY <2>2, <2>3
  <2>4. CASE file # History
    <3>1. receiver \in Writing /\ file # rows
      BY <2>4 DEF History
    <3>2. Len(rows) >= Capacity /\ file = << >>
      BY <3>1, ServerAssumption DEF IInv, FileInv, TypeOK, ReceiverTypeOK
    <3>3. Len(rows) = Capacity
      BY <3>2, ServerAssumption DEF IInv, HistoryBounded, TypeOK, ReceiverTypeOK
    <3>4. data' = << >>
      BY <2>2, <3>2
    <3> QED BY <3>1, <3>3, <3>4
  <2> QED BY <2>3, <2>4
<1> QED BY Invariance, <1>1, PTL DEF Spec, LoadsAllOrNothing

-----------------------------------------------------------------------------
(* The rows of zeros.  One is recorded when the connection has ended       *)
(* between the two reads, and after it no command arrives.                 *)

Zeros(s) == {i \in DOMAIN s : s[i] = Zero}
Over == peer = "gone" /\ receiver # "frame" /\ ~Taken
ForgeInv ==
  /\ Taken /\ frame = Zero => peer = "gone"
  /\ Cardinality(Zeros(History)) <= IF Over THEN restarts + 1 ELSE restarts

LEMMA CountsZeros ==
  ASSUME NEW s \in Seq(Frame)
  PROVE  IsFiniteSet(Zeros(s)) /\ Cardinality(Zeros(s)) \in Nat
<1>1. Len(s) \in Nat /\ DOMAIN s = 1 .. Len(s)
  OBVIOUS
<1>2. IsFiniteSet(1 .. Len(s))
  BY <1>1, FS_Interval
<1>3. Zeros(s) \in SUBSET (1 .. Len(s))
  BY <1>1 DEF Zeros
<1>4. IsFiniteSet(Zeros(s))
  BY <1>2, <1>3, FS_Subset
<1> QED BY <1>4, FS_CardinalityType

LEMMA OneMoreZero ==
  ASSUME NEW s \in Seq(Frame), NEW f \in Frame, Len(s) <= Capacity
  PROVE  LET t == Log!Latest(Append(s, f)) IN
         Cardinality(Zeros(t)) <=
           IF f = Zero THEN Cardinality(Zeros(s)) + 1 ELSE Cardinality(Zeros(s))
<1> DEFINE a == Append(s, f)
           t == Log!Latest(a)
<1>1. /\ Len(s) \in Nat /\ DOMAIN s = 1 .. Len(s) /\ DOMAIN a = 1 .. Len(s) + 1
      /\ a[Len(s) + 1] = f /\ \A i \in 1 .. Len(s) : a[i] = s[i]
      /\ a \in Seq(Frame) /\ Len(a) = Len(s) + 1
  OBVIOUS
<1>2. Zeros(a) = IF f = Zero THEN Zeros(s) \cup {Len(s) + 1} ELSE Zeros(s)
  <2>1. \A i \in 1 .. Len(s) + 1 : i = Len(s) + 1 \/ i \in 1 .. Len(s)
    BY <1>1
  <2>2. Len(s) + 1 \notin 1 .. Len(s) /\ 1 .. Len(s) \subseteq 1 .. Len(s) + 1
    BY <1>1
  <2> QED BY <1>1, <2>1, <2>2 DEF Zeros
<1>3. Cardinality(Zeros(a)) <=
        IF f = Zero THEN Cardinality(Zeros(s)) + 1 ELSE Cardinality(Zeros(s))
  <2>1. IsFiniteSet(Zeros(s)) /\ Cardinality(Zeros(s)) \in Nat
    BY CountsZeros
  <2>2. Cardinality(Zeros(s) \cup {Len(s) + 1}) <= Cardinality(Zeros(s)) + 1
    <3>1. Cardinality(Zeros(s) \cup {Len(s) + 1}) =
            IF Len(s) + 1 \in Zeros(s) THEN Cardinality(Zeros(s)) ELSE Cardinality(Zeros(s)) + 1
      BY <2>1, FS_AddElement
    <3> HIDE DEF a
    <3> QED BY <2>1, <3>1
  <2> HIDE DEF a
  <2> QED BY <1>2, <2>1, <2>2
<1>4. Cardinality(Zeros(t)) <= Cardinality(Zeros(a))
  <2> HIDE DEF a
  <2>1. IsFiniteSet(Zeros(a)) /\ Cardinality(Zeros(a)) \in Nat
    BY <1>1, CountsZeros
  <2>2. CASE Len(a) <= Capacity
    BY <2>1, <2>2 DEF Log!Latest
  <2>3. CASE ~(Len(a) <= Capacity)
    <3>0. Capacity \in Nat
      BY ServerAssumption
    <3>1. Len(a) = Capacity + 1 /\ t = SubSeq(a, 2, Capacity + 1)
      BY <1>1, <2>3, <3>0 DEF Log!Latest
    <3>2. /\ DOMAIN t = 1 .. Capacity
          /\ \A i \in 1 .. Capacity : t[i] = a[i + 1] /\ i + 1 \in DOMAIN a
      BY <1>1, <3>0, <3>1
    <3> HIDE DEF t
    <3> DEFINE shift == [i \in Zeros(t) |-> i + 1]
    <3>3. \A i \in Zeros(t) : i \in Nat /\ i + 1 \in Zeros(a)
      BY <3>2 DEF Zeros
    <3>4. shift \in Injection(Zeros(t), Zeros(a))
      BY <3>3 DEF Injection, IsInjective
    <3> HIDE DEF shift
    <3> QED BY <2>1, <3>4, FS_Injection
  <2> QED BY <2>2, <2>3
<1>5. Cardinality(Zeros(s)) \in Nat /\ Cardinality(Zeros(a)) \in Nat
  BY <1>1, CountsZeros
<1>6. Cardinality(Zeros(t)) \in Nat
  <2>1. t \in Seq(Frame)
    BY LatestOfAppend
  <2> QED BY <2>1, CountsZeros
<1> QED BY <1>3, <1>4, <1>5, <1>6

LEMMA ForgeInit == Init => ForgeInv
<1> SUFFICES ASSUME Init PROVE ForgeInv
  OBVIOUS
<1>1. /\ receiver = "command" /\ restarts = 0 /\ History = file /\ peer = "up"
      /\ file \in {OldRows(k) : k \in 0 .. Capacity}
  BY DEF Init, History, Writing
<1>2. PICK k \in 0 .. Capacity : file = OldRows(k)
  BY <1>1
<1>3. k \in Nat /\ DOMAIN file = 1 .. k /\ \A i \in 1 .. k : file[i] = i - k - 1
  BY <1>2, ServerAssumption DEF OldRows
<1>4. Zeros(file) = {}
  BY <1>3 DEF Zeros, Zero
<1> QED BY <1>1, <1>4, FS_EmptySet DEF ForgeInv, Taken, Writing, Over

LEMMA ForgeKept == IInv /\ ForgeInv /\ [Next]_vars => ForgeInv'
<1> SUFFICES ASSUME IInv, ForgeInv, [Next]_vars PROVE ForgeInv'
  OBVIOUS
<1>0. /\ restarts \in Nat /\ peer \in {"up", "gone"} /\ sent \in Nat
      /\ Cardinality(Zeros(History)) \in Nat
  BY HistoryType, CountsZeros, ServerAssumption DEF IInv, TypeOK, EnvTypeOK
<1>1. CASE CloseFile
  <2>1. /\ rows \in Seq(Frame) /\ frame \in Frame /\ Len(rows) <= Capacity
        /\ receiver = "close" /\ receiver' = "unlock" /\ UNCHANGED << frame, peer, restarts >>
        /\ file' = Log!Latest(Append(rows, frame))
    BY <1>1 DEF IInv, TypeOK, ReceiverTypeOK, HistoryBounded, FileInv, Writing, CloseFile, env
  <2>2. History = rows /\ History' = file'
    BY <2>1 DEF History, Writing
  <2>3. Cardinality(Zeros(rows)) \in Nat /\ Cardinality(Zeros(rows)) <= restarts
    BY <1>0, <2>1, <2>2 DEF ForgeInv, Over, Taken, Writing
  <2>4. Cardinality(Zeros(file')) <=
          IF frame = Zero THEN Cardinality(Zeros(rows)) + 1 ELSE Cardinality(Zeros(rows))
    BY <2>1, OneMoreZero
  <2>5. Cardinality(Zeros(file')) \in Nat
    BY <2>1, LatestOfAppend, CountsZeros
  <2>6. frame = Zero => Over'
    BY <2>1 DEF ForgeInv, Taken, Writing, Over
  <2>7. ~Taken'
    BY <2>1 DEF Taken, Writing
  <2> QED BY <1>0, <2>1, <2>2, <2>3, <2>4, <2>5, <2>6, <2>7 DEF ForgeInv
<1>2. CASE Restart
  <2>1. History' = History \/ History' = << >>
    BY <1>2, RestartLoses
  <2>2. restarts' = restarts + 1 /\ ~Taken'
    BY <1>2 DEF Restart, Taken, Writing
  <2>3. Cardinality(Zeros(<< >>)) = 0
    BY FS_EmptySet DEF Zeros
  <2>4. Cardinality(Zeros(History')) <= restarts + 1
    BY <1>0, <2>1, <2>3 DEF ForgeInv
  <2>5. Cardinality(Zeros(History')) \in Nat
    BY <1>0, <2>1, <2>3
  <2> QED BY <1>0, <2>2, <2>4, <2>5 DEF ForgeInv
<1>3. CASE ~CloseFile /\ ~Restart
  <2>1. History' = History
    BY <1>3, OthersKeepLog
  <2>2. restarts' = restarts /\ (Over => Over')
    <3>1. CASE Receiver
      BY <1>3, <3>1 DEF Receiver, ReadDataIn, ReadLogout, ReadFrame, Lock, LoadFile, OpenFile,
         CopyCell, RaiseFlag, Unlock, Leave, env, Over, Taken, Writing
    <3>2. CASE UpdaterStep \/ User
      BY <3>2, UpdaterLeaves DEF receiverVars, env, Over, Taken
    <3>3. CASE Hangup \/ Interrupt \/ UNCHANGED vars
      BY <3>3 DEF Hangup, Interrupt, vars, receiverVars, env, Over, Taken
    <3> QED BY <1>3, <3>1, <3>2, <3>3 DEF Next, Environment
  <2>3. Taken' /\ frame' = Zero => peer' = "gone"
    <3>1. CASE ReadFrame
      BY <1>0, <3>1 DEF ReadFrame, Zero
    <3>2. CASE Receiver /\ ~ReadFrame
      BY <1>3, <3>2 DEF Receiver, ReadDataIn, ReadLogout, Lock, LoadFile, OpenFile,
         CopyCell, RaiseFlag, Unlock, Leave, env, Taken, Writing, ForgeInv
    <3>3. CASE UpdaterStep \/ User
      BY <3>3, UpdaterLeaves DEF receiverVars, env, Taken, ForgeInv
    <3>4. CASE Hangup \/ Interrupt \/ UNCHANGED vars
      BY <3>4 DEF Hangup, Interrupt, vars, receiverVars, env, Taken, ForgeInv
    <3> QED BY <1>3, <3>1, <3>2, <3>3, <3>4 DEF Next, Environment
  <2> QED BY <1>0, <2>1, <2>2, <2>3 DEF ForgeInv
<1> QED BY <1>1, <1>2, <1>3

(* A lost connection forges one row of zeros at most for each time the     *)
(* server is started.                                                      *)
THEOREM FewRowsForged == Spec => []ForgedRows
<1>1. IInv /\ ForgeInv => ForgedRows
  <2> SUFFICES ASSUME IInv, ForgeInv PROVE Cardinality(Zeros(file)) <= restarts + 1
    BY DEF ForgedRows, Zeros
  <2>1. restarts \in Nat /\ Cardinality(Zeros(History)) \in Nat
    BY HistoryType, CountsZeros, ServerAssumption DEF IInv, TypeOK, EnvTypeOK
  <2>2. file = History \/ file = << >>
    BY DEF IInv, FileInv, History
  <2>3. Cardinality(Zeros(<< >>)) = 0
    BY FS_EmptySet DEF Zeros
  <2> QED BY <2>1, <2>2, <2>3 DEF ForgeInv
<1> QED BY Invariance, ForgeInit, ForgeKept, <1>1, PTL DEF Spec
=============================================================================
