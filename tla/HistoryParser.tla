--------------------------- MODULE HistoryParser ----------------------------
(***************************************************************************)
(* The history file of GAM-Z_server.c, character by character: how the     *)
(* receiver prints a frame as a line of numbers and how update_process     *)
(* reads the lines back into its table.  RadarServer treats a row as one   *)
(* value; this module says why it may (ParseRow there is what ReadBack     *)
(* says here).                                                             *)
(*                                                                         *)
(* The receiver keeps to the semaphore: no frame arrives during a reading  *)
(* (what happens when one does is the subject of RadarServer).             *)
(***************************************************************************)
EXTENDS Integers, Sequences

CONSTANTS Fields,     \* numbers in a frame (70)
          Capacity,   \* lines the file keeps (8)
          Values,     \* the bytes that occur in a frame
          MaxFrames   \* bound: frames that arrive

ASSUME ParserAssumption ==
  /\ Fields \in Nat \ {0, 1} /\ Capacity \in Nat \ {0} /\ MaxFrames \in Nat
  /\ Values \subseteq 0 .. 255    \* char is unsigned on the board

Frame == [1 .. Fields -> Values]
Room == 4                         \* char temp[4]

(* Characters: a digit is its value. *)
Space == 10
Newline == 11
Nul == 12
Digit == 0 .. 9

VARIABLES
  file,    \* the frames whose lines are in input.txt
  text,    \* str_buff: the frames whose lines have been read
  i,       \* the line that is looked at
  word, j, \* which of its words, the last of which is the end of the line, and
           \* which character of it
  z,       \* the next place of temp
  temp,    \* temp, and what lies behind it, by index from 0
  column,  \* data_index
  data,    \* the table: a function of line and column
  reading, \* is the updater in its loop
  (* What follows is not in the code. *)
  came,    \* frames that have arrived
  outside  \* has this reading written behind temp

parser == << text, i, word, j, z, temp, column, data, reading, outside >>
vars == << file, came, parser >>

Reach == 0 .. Room + 1            \* the places of temp that are looked at
Row == 1 .. Capacity
Column == 1 .. Fields

-----------------------------------------------------------------------------
(* Conversions.                                                            *)

(* "%d " *)
Numeral(v) ==
  IF v < 10 THEN << v, Space >>
  ELSE IF v < 100 THEN << v \div 10, v % 10, Space >>
  ELSE << v \div 100, (v \div 10) % 10, v % 10, Space >>

(* The line of a frame, by words. *)
Word(f, k) == IF k \in Column THEN Numeral(f[k]) ELSE << Newline, Nul >>

(* atoi: leading white space, then digits up to anything else.  There is   *)
(* room for four of them.                                                  *)
Atoi(t) ==
  LET from == CHOOSE a \in Reach : t[a] \notin {Space, Newline}
                        /\ \A b \in 0 .. a - 1 : t[b] \in {Space, Newline}
      to == CHOOSE a \in from .. Room + 2 : (a = Room + 2 \/ t[a] \notin Digit)
                        /\ \A b \in from .. a - 1 : t[b] \in Digit
      FromRight(n) == IF from <= to - n THEN t[to - n] ELSE 0
  IN FromRight(1) + 10 * FromRight(2) + 100 * FromRight(3) + 1000 * FromRight(4)

-----------------------------------------------------------------------------
Init ==
  /\ file = << >> /\ came = 0 /\ text = << >>
  /\ i = 0 /\ word = 0 /\ j = 0 /\ z = 0 /\ temp = [a \in Reach |-> Nul] /\ column = 1
  /\ data = [r \in Row |-> [k \in Column |-> 0]]
  /\ reading = FALSE /\ outside = FALSE

(* An operator Op_Bug is Op with a bug the code might have had; no action  *)
(* uses it.                                                                *)

(* The lines that stay when one is added. *)
Keep(s) == IF Len(s) < Capacity THEN s ELSE Tail(s)

Receive(f) ==
  /\ ~reading /\ came < MaxFrames
  /\ file' = Append(Keep(file), f)
  /\ came' = came + 1
  /\ UNCHANGED parser

(* memset clears 700 bytes of a table of ints, not all of it. *)
Cleared(r, k) == 4 * ((r - 1) * Fields + k) <= 10 * Fields

(* z keeps its value. *)
Open_KeepsPlace ==
  /\ ~reading /\ file # << >>
  /\ text' = file
  /\ column' = 1 /\ i' = 1 /\ word' = 1 /\ j' = 1
  /\ data' = [r \in Row |-> [k \in Column |-> IF Cleared(r, k) THEN 0 ELSE data[r][k]]]
  /\ reading' = TRUE /\ outside' = FALSE
  /\ UNCHANGED << z, temp, file, came >>

(* Button 1: the lines are read, and the reading starts.  An empty file is *)
(* left to RadarServer.                                                    *)
Open ==
  /\ ~reading /\ file # << >>
  /\ text' = file
  /\ z' = 0 /\ column' = 1 /\ i' = 1 /\ word' = 1 /\ j' = 1
  /\ data' = [r \in Row |-> [k \in Column |-> IF Cleared(r, k) THEN 0 ELSE data[r][k]]]
  /\ reading' = TRUE /\ outside' = FALSE
  /\ UNCHANGED << temp, file, came >>

Char == Word(text[i], word)[j]
WordEnds == j = Len(Word(text[i], word))
AtEnd == word = Fields + 1 /\ WordEnds     \* the terminator of the line

(* On to the next character, or to the next line. *)
Step ==
  \/ ~WordEnds /\ j' = j + 1 /\ UNCHANGED << i, word, reading >>
  \/ WordEnds /\ ~AtEnd /\ word' = word + 1 /\ j' = 1 /\ UNCHANGED << i, reading >>
  \/ AtEnd /\ i' = i + 1 /\ word' = 1 /\ j' = 1 /\ reading' = (i < Len(text))

(* The first branch takes all but a space, the terminator of a line too. *)
Ends(c) == c = Space

Store ==
  /\ reading /\ ~Ends(Char)
  /\ temp' = [temp EXCEPT ![z] = Char] /\ z' = z + 1
  /\ outside' = (outside \/ z >= Room)
  /\ Step
  /\ column' = IF AtEnd THEN 1 ELSE column
  /\ UNCHANGED << data, text, file, came >>

(* temp is neither ended nor cleared. *)
Number_NoNul ==
  /\ reading /\ Ends(Char)
  /\ z' = 0 /\ outside' = outside
  /\ data' = [data EXCEPT ![i][column] = Atoi(temp)]
  /\ temp' = temp
  /\ Step
  /\ column' = IF AtEnd THEN 1 ELSE column + 1
  /\ UNCHANGED << text, file, came >>

Number ==
  LET ended == [temp EXCEPT ![z] = Nul] IN
  /\ reading /\ Ends(Char)
  /\ z' = 0 /\ outside' = (outside \/ z >= Room)
  /\ data' = [data EXCEPT ![i][column] = Atoi(ended)]
  /\ temp' = [a \in Reach |-> IF a < Room THEN Nul ELSE ended[a]]
  /\ Step
  /\ column' = IF AtEnd THEN 1 ELSE column + 1
  /\ UNCHANGED << text, file, came >>

Next == (\E f \in Frame : Receive(f)) \/ Open \/ Store \/ Number

Spec == Init /\ [][Next]_vars

-----------------------------------------------------------------------------
(* Properties.                                                             *)

TypeOK ==
  /\ file \in Seq(Frame) /\ Len(file) <= Capacity
  /\ text \in Seq(Frame)
  /\ i \in 0 .. Capacity + 1 /\ word \in 0 .. Fields + 1 /\ j \in 0 .. Room
  /\ temp \in [Reach -> Digit \cup {Newline, Nul}]
  /\ data \in [Row -> [Column -> Nat]]
  /\ reading \in BOOLEAN /\ outside \in BOOLEAN /\ came \in 0 .. MaxFrames

(* Each number that ends in a line has a place in that line of the table.  *)
TableInBounds == reading /\ Ends(Char) => i \in Row /\ column \in Column

(* Newline and terminator of a line stay in temp in front of the first     *)
(* number of the next one.  So temp, with room for three digits, is        *)
(* overrun, but by two bytes at most, and only by the first number of a    *)
(* later line.                                                             *)
OverrunByTwo ==
  /\ z <= Room + 1
  /\ outside => i > 1
  /\ z >= Room => i > 1 /\ column = 1

(* No index leaves its array but for those two bytes, however often the    *)
(* file is read while it grows.                                            *)
InBounds == TypeOK /\ TableInBounds /\ OverrunByTwo

(* What the table gets of the line of a frame. *)
ParseRow(r, f) == IF r > 1 THEN [f EXCEPT ![1] = 0] ELSE f

(* After a reading, whatever was read before, each line of the file is in  *)
(* the table, number by number, but the first beam of every line but the   *)
(* first one is 0; nothing of an earlier reading shows through.            *)
ReadBack ==
  ~reading => \A r \in DOMAIN text : data[r] = ParseRow(r, text[r])
=============================================================================
