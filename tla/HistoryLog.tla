----------------------------- MODULE HistoryLog -----------------------------
(***************************************************************************)
(* What the radar server promises about input.txt: a log of the most       *)
(* recent Capacity frames, oldest first.  Recording a frame puts it at the *)
(* end and drops the oldest one when the log is full.  The only other      *)
(* thing that can happen to the log is that all of it is lost; the module  *)
(* RadarServer shows that this takes a crash while the file is rewritten.  *)
(***************************************************************************)
EXTENDS Integers, Sequences

CONSTANTS Capacity,   \* frames kept, at least 1; the server's 8
          Frame       \* the frames a client can send

VARIABLE log

(* The last Capacity elements of s. *)
Latest(s) ==
  IF Len(s) <= Capacity THEN s
                        ELSE SubSeq(s, Len(s) - Capacity + 1, Len(s))

Init == log \in Seq(Frame) /\ Len(log) <= Capacity

Record(f) == log' = Latest(Append(log, f))

Lose == log' = << >>

Next == Lose \/ \E f \in Frame : Record(f)

Spec == Init /\ [][Next]_log
=============================================================================
