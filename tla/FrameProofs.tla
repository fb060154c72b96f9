---------------------------- MODULE FrameProofs ----------------------------
(***************************************************************************)
(* Proofs about what becomes of a frame.  In the history file, for frames  *)
(* of any length, any number of lines and any bytes: no index leaves its   *)
(* array but for two bytes behind temp, and the table gets what the file   *)
(* holds, but for the first number of each line after the first.  On the   *)
(* screens, for any pixel, warning distance and scene: client and server   *)
(* show at each angle what its beam measured, and red only in the warning  *)
(* circle.                                                                 *)
(***************************************************************************)
EXTENDS HistoryParser, RadarPicture, WellFoundedInduction, TLAPS

(* What stays in temp of the end of the line before. *)
Base == IF i > 1 /\ word = 1 THEN 2 ELSE 0

Lines == file \in Seq(Frame) /\ Len(file) <= Capacity /\ text \in Seq(Frame)
                             /\ Len(text) <= Capacity

Counters == i \in 0 .. Capacity + 1 /\ came \in 0 .. MaxFrames
            /\ reading \in BOOLEAN /\ outside \in BOOLEAN

Places == word \in 0 .. Fields + 1 /\ j \in 0 .. Room /\ (outside => i > 1)

Arrays == temp \in [Reach -> Digit \cup {Newline, Nul}]
          /\ data \in [Row -> [Column -> Nat]]

(* Where the reading is. *)
Cursor ==
  /\ i \in 1 .. Len(text) /\ word \in 1 .. Fields + 1 /\ column = word
  /\ j \in 1 .. Len(Word(text[i], word))

(* temp holds the characters of the word up to the cursor, behind what is  *)
(* left of the line before.                                                *)
Collected ==
  /\ z = Base + j - 1
  /\ Base = 2 => temp[0] = Newline /\ temp[1] = Nul
  /\ \A n \in 1 .. j - 1 : temp[Base + n - 1] = Word(text[i], word)[n]

(* The table holds the words up to the cursor. *)
RowDone(l) == data[l] = ParseRow(l, text[l])
Copied ==
  /\ \A l \in 1 .. i - 1 : RowDone(l)
  /\ \A k \in 1 .. word - 1 : data[i][k] = ParseRow(i, text[i])[k]

Inv ==
  /\ Lines /\ Counters /\ Places /\ Arrays
  /\ reading => Cursor /\ Collected /\ Copied
  /\ ~reading => z \in {0, 2} /\ \A l \in DOMAIN text : RowDone(l)

-----------------------------------------------------------------------------
(* What a number looks like, and what atoi makes of it. *)

LEMMA Numerals ==
  ASSUME NEW v \in 0 .. 255
  PROVE  /\ Len(Numeral(v)) \in 2 .. 4 /\ Numeral(v)[Len(Numeral(v))] = Space
         /\ \A n \in 1 .. Len(Numeral(v)) - 1 : Numeral(v)[n] \in Digit
<1>1. CASE v < 10
  BY <1>1 DEF Numeral, Digit, Space
<1>2. CASE 10 <= v /\ v < 100
  <2>1. Numeral(v) = << v \div 10, v % 10, Space >>
    BY <1>2 DEF Numeral
  <2>2. v \div 10 \in 0 .. 9 /\ v % 10 \in 0 .. 9
    BY <1>2
  <2> QED BY <2>1, <2>2 DEF Digit, Space
<1>3. CASE 100 <= v
  <2>1. Numeral(v) = << v \div 100, (v \div 10) % 10, v % 10, Space >>
    BY <1>3 DEF Numeral
  <2>2. v \div 100 \in 0 .. 9 /\ (v \div 10) % 10 \in 0 .. 9 /\ v % 10 \in 0 .. 9
    BY <1>3
  <2> QED BY <2>1, <2>2 DEF Digit, Space
<1> QED BY <1>1, <1>2, <1>3

LEMMA Words ==
  ASSUME NEW f \in Frame
  PROVE  /\ \A k \in Column : /\ Word(f, k) = Numeral(f[k]) /\ f[k] \in 0 .. 255
                              /\ Len(Word(f, k)) \in 2 .. 4
                              /\ Word(f, k)[Len(Word(f, k))] = Space
                              /\ \A n \in 1 .. Len(Word(f, k)) - 1 : Word(f, k)[n] \in Digit
         /\ Word(f, Fields + 1) = << Newline, Nul >>
<1>1. \A k \in Column : Word(f, k) = Numeral(f[k]) /\ f[k] \in 0 .. 255
  BY ParserAssumption DEF Frame, Column, Word
<1>2. Fields + 1 \notin Column
  BY ParserAssumption DEF Column
<1> QED BY <1>1, <1>2, Numerals DEF Word

(* The limits of the digits that atoi finds. *)
LEMMA Limits ==
  ASSUME NEW t, NEW from \in {0, 1}, NEW to \in from .. 3,
         t[from] \notin {Space, Newline},
         \A b \in 0 .. from - 1 : t[b] \in {Space, Newline},
         t[to] \notin Digit, \A b \in from .. to - 1 : t[b] \in Digit
  PROVE  Atoi(t) = LET FromRight(n) == IF from <= to - n THEN t[to - n] ELSE 0
                   IN FromRight(1) + 10 * FromRight(2) + 100 * FromRight(3)
                                   + 1000 * FromRight(4)
<1> DEFINE Starts(a) == /\ t[a] \notin {Space, Newline}
                       /\ \A b \in 0 .. a - 1 : t[b] \in {Space, Newline}
           Stops(a) == /\ a = Room + 2 \/ t[a] \notin Digit
                      /\ \A b \in from .. a - 1 : t[b] \in Digit
<1>1. from = CHOOSE a \in Reach : Starts(a)
  <2>1. from \in Reach /\ Starts(from)
    BY DEF Reach, Room
  <2>2. ASSUME NEW a \in Reach, Starts(a) PROVE a = from
    <3>1. a \in Int /\ a >= 0
      BY DEF Reach
    <3>2. ~(a < from)
      BY <2>2, <3>1
    <3>3. ~(from < a)
      BY <2>2, <3>1
    <3> QED BY <3>1, <3>2, <3>3
  <2> HIDE DEF Starts
  <2> QED BY <2>1, <2>2
<1>2. to = CHOOSE a \in from .. Room + 2 : Stops(a)
  <2>1. to \in from .. Room + 2 /\ Stops(to)
    BY DEF Room
  <2>2. ASSUME NEW a \in from .. Room + 2, Stops(a) PROVE a = to
    <3>1. ~(a < to)
      BY <2>2 DEF Room
    <3>2. ~(to < a)
      BY <2>2
    <3> QED BY <3>1, <3>2 DEF Room
  <2> HIDE DEF Stops
  <2> QED BY <2>1, <2>2
<1> QED BY <1>1, <1>2 DEF Atoi

LEMMA Decimal ==
  ASSUME NEW v \in Nat
  PROVE  /\ v = (v % 10) + 10 * (v \div 10)
         /\ v = (v % 10) + 10 * ((v \div 10) % 10) + 100 * (v \div 100)
OBVIOUS

LEMMA AtoiOfNumeral ==
  ASSUME NEW v \in 0 .. 255, NEW t, t[Len(Numeral(v)) - 1] = Nul,
         \A n \in 1 .. Len(Numeral(v)) - 1 : t[n - 1] = Numeral(v)[n]
  PROVE  Atoi(t) = v
<1> DEFINE to == Len(Numeral(v)) - 1
           FromRight(n) == IF 0 <= to - n THEN t[to - n] ELSE 0
<1>1. Len(Numeral(v)) \in 2 .. 4 /\ \A n \in 1 .. to : Numeral(v)[n] \in Digit
  BY Numerals
<1>2. to \in 1 .. 3 /\ t[to] = Nul
  BY <1>1
<1>3. \A b \in 0 .. to - 1 : t[b] \in Digit
  <2> SUFFICES ASSUME NEW b \in 0 .. to - 1 PROVE t[b] \in Digit
    OBVIOUS
  <2>1. b + 1 \in 1 .. to /\ b + 1 - 1 = b
    BY <1>2
  <2>2. t[b + 1 - 1] = Numeral(v)[b + 1]
    BY <2>1
  <2> QED BY <1>1, <2>1, <2>2
<1>4. \A n \in 1 .. to : t[n - 1] = Numeral(v)[n]
  OBVIOUS
<1>5. ASSUME NEW m \in 1 .. 3, to = m
      PROVE  Atoi(t) = FromRight(1) + 10 * FromRight(2) + 100 * FromRight(3)
                                    + 1000 * FromRight(4)
  <2> HIDE DEF to
  <2>1. t[0] \in Digit /\ t[0] \notin {Space, Newline} /\ t[to] \notin Digit
    BY <1>2, <1>3 DEF Digit, Space, Newline, Nul
  <2>2. \A b \in 0 .. 0 - 1 : t[b] \in {Space, Newline}
    OBVIOUS
  <2> QED BY <1>2, <1>3, <2>1, <2>2, Limits
<1>6. CASE v < 10
  <2>1. Numeral(v) = << v, Space >>
    BY <1>6 DEF Numeral
  <2>2. to = 1
    BY <2>1
  <2>3. t[0] = v
    BY <1>4, <2>1, <2>2
  <2> HIDE DEF to
  <2> QED BY <1>5, <2>2, <2>3
<1>7. CASE 10 <= v /\ v < 100
  <2>1. Numeral(v) = << v \div 10, v % 10, Space >>
    BY <1>7 DEF Numeral
  <2>2. to = 2
    BY <2>1
  <2>3. 1 \in 1 .. to /\ 2 \in 1 .. to
    <3> HIDE DEF to
    <3> QED BY <2>2
  <2>4. t[1 - 1] = Numeral(v)[1] /\ t[2 - 1] = Numeral(v)[2]
    BY <1>4, <2>3
  <2>5. t[0] = v \div 10 /\ t[1] = v % 10
    BY <2>1, <2>4
  <2>6. v = (v % 10) + 10 * (v \div 10)
    BY Decimal
  <2> HIDE DEF to
  <2> QED BY <1>5, <2>2, <2>5, <2>6
<1>8. CASE 100 <= v
  <2>1. Numeral(v) = << v \div 100, (v \div 10) % 10, v % 10, Space >>
    BY <1>8 DEF Numeral
  <2>2. to = 3
    BY <2>1
  <2>3. 1 \in 1 .. to /\ 2 \in 1 .. to /\ 3 \in 1 .. to
    <3> HIDE DEF to
    <3> QED BY <2>2
  <2>4. /\ t[1 - 1] = Numeral(v)[1] /\ t[2 - 1] = Numeral(v)[2]
        /\ t[3 - 1] = Numeral(v)[3]
    BY <1>4, <2>3
  <2>5. t[0] = v \div 100 /\ t[1] = (v \div 10) % 10 /\ t[2] = v % 10
    BY <2>1, <2>4
  <2>6. v = (v % 10) + 10 * ((v \div 10) % 10) + 100 * (v \div 100)
    BY Decimal
  <2> HIDE DEF to
  <2> QED BY <1>5, <2>2, <2>5, <2>6
<1> QED BY <1>6, <1>7, <1>8

(* Behind the end of the line before it, the number is not seen. *)
LEMMA AtoiOfEnd ==
  ASSUME NEW t, t[0] = Newline, t[1] = Nul PROVE Atoi(t) = 0
<1>1. /\ t[1] \notin {Space, Newline} /\ t[1] \notin Digit
      /\ \A b \in 0 .. 1 - 1 : t[b] \in {Space, Newline}
      /\ \A b \in 1 .. 1 - 1 : t[b] \in Digit
  BY DEF Digit, Space, Newline, Nul
<1> QED BY <1>1, Limits
-----------------------------------------------------------------------------
(* Each action keeps the invariant. *)

LEMMA Rows ==
  ASSUME NEW l, NEW f \in Frame
  PROVE  /\ ParseRow(l, f) \in [Column -> Nat]
         /\ \A k \in Column : ParseRow(l, f)[k] = IF l > 1 /\ k = 1 THEN 0 ELSE f[k]
<1>1. f \in [Column -> Values] /\ Values \subseteq Nat
  BY ParserAssumption DEF Frame, Column
<1>2. f \in [Column -> Nat]
  BY <1>1
<1> QED BY <1>2 DEF ParseRow

(* What the cursor may be at. *)
LEMMA AtCursor ==
  ASSUME Inv, reading
  PROVE  /\ Cursor /\ text[i] \in Frame /\ i \in Row /\ Base \in {0, 2}
         /\ Fields \in Nat /\ Fields >= 2 /\ word \in Nat /\ j \in Nat
         /\ \/ /\ word \in Column /\ j \in 1 .. 4 /\ ~AtEnd
               /\ \/ ~WordEnds /\ j \in 1 .. 3 /\ Char \in Digit
                  \/ WordEnds /\ Char = Space
            \/ /\ word = Fields + 1 /\ Base = 0
               /\ \/ ~WordEnds /\ ~AtEnd /\ j = 1 /\ Char = Newline
                  \/ WordEnds /\ AtEnd /\ j = 2 /\ Char = Nul
<1>1. Cursor /\ Fields \in Nat /\ Fields >= 2 /\ Base \in {0, 2}
  BY ParserAssumption DEF Inv, Base
<1>2. text[i] \in Frame /\ i \in Row
  BY <1>1, ParserAssumption DEF Inv, Lines, Cursor, Row
<1>3. CASE word \in Column
  <2> DEFINE w == Word(text[i], word)
  <2>1. Len(w) \in 2 .. 4 /\ w[Len(w)] = Space /\ \A n \in 1 .. Len(w) - 1 : w[n] \in Digit
    BY <1>2, <1>3, Words
  <2>2. j \in 1 .. Len(w) /\ ~AtEnd
    BY <1>1, <1>3 DEF Cursor, AtEnd, Column
  <2> QED BY <1>1, <1>2, <1>3, <2>1, <2>2 DEF WordEnds, Char, Column
<1>4. CASE word = Fields + 1
  <2>1. Word(text[i], word) = << Newline, Nul >>
    BY <1>2, <1>4, Words
  <2>2. Base = 0 /\ j \in 1 .. 2
    BY <1>1, <1>4, <2>1 DEF Base, Cursor
  <2>3. Len(<< Newline, Nul >>) = 2
    OBVIOUS
  <2>4. (WordEnds <=> j = 2) /\ Char = << Newline, Nul >>[j]
    BY <2>1, <2>3 DEF WordEnds, Char
  <2> QED BY <1>1, <1>2, <1>4, <2>2, <2>4 DEF AtEnd, Cursor
<1> QED BY <1>1, <1>3, <1>4 DEF Cursor, Column

LEMMA InvInit == Init => Inv
<1> SUFFICES ASSUME Init PROVE Inv
  OBVIOUS
<1>1. Lines
  BY ParserAssumption DEF Init, Lines
<1>2. Counters
  <2>1. i \in 0 .. Capacity + 1 /\ came \in 0 .. MaxFrames
    BY ParserAssumption DEF Init
  <2>2. reading = FALSE /\ outside = FALSE
    BY DEF Init
  <2> QED BY <2>1, <2>2 DEF Counters
<1>3. Places
  BY ParserAssumption DEF Init, Places, Room
<1>4. Arrays
  BY DEF Init, Arrays
<1>5. DOMAIN text = {}
  BY DEF Init
<1> QED BY <1>1, <1>2, <1>3, <1>4, <1>5 DEF Init, Inv

LEMMA ReceiveKeeps == ASSUME Inv, NEW f \in Frame, Receive(f) PROVE Inv'
<1> USE DEF Receive, parser
<1>1. file' \in Seq(Frame) /\ Len(file') <= Capacity
  <2>1. file \in Seq(Frame) /\ Len(file) <= Capacity /\ Capacity \in Nat \ {0}
    BY ParserAssumption DEF Inv, Lines
  <2>2. Keep(file) \in Seq(Frame) /\ Len(Keep(file)) < Capacity
    <3>1. CASE Len(file) < Capacity
      BY <2>1, <3>1 DEF Keep
    <3>2. CASE ~(Len(file) < Capacity)
      <4>1. file # << >> /\ Len(file) = Capacity
        BY <2>1, <3>2
      <4> QED BY <2>1, <3>2, <4>1 DEF Keep
    <3> QED BY <3>1, <3>2
  <2> QED BY <2>1, <2>2
<1>2. Lines' /\ Counters' /\ Places' /\ Arrays'
  BY <1>1, ParserAssumption DEF Inv, Lines, Counters, Places, Arrays
<1>3. ~reading' /\ z' \in {0, 2} /\ \A l \in DOMAIN text' : RowDone(l)'
  BY DEF Inv, RowDone
<1> QED BY <1>2, <1>3 DEF Inv

LEMMA FirstCharacter == \A l \in 2 .. 4 : 1 \in 1 .. l
OBVIOUS

LEMMA OpenKeeps == Inv /\ Open => Inv'
<1> SUFFICES ASSUME Inv, Open PROVE Inv'
  OBVIOUS
<1> USE DEF Open
<1>1. file \in Seq(Frame) /\ file # << >> /\ Len(file) \in 1 .. Capacity
  BY ParserAssumption DEF Inv, Lines
<1>2. Lines'
  BY <1>1 DEF Inv, Lines
<1>3. Counters' /\ Places'
  <2>1. 1 \in 0 .. Capacity + 1 /\ 1 \in 0 .. Fields + 1 /\ 1 \in 0 .. Room
    BY ParserAssumption DEF Room
  <2>2. i' = 1 /\ word' = 1 /\ j' = 1 /\ came' = came /\ reading' = TRUE /\ outside' = FALSE
    OBVIOUS
  <2>3. Counters'
    BY <2>1, <2>2 DEF Inv, Counters
  <2>4. Places'
    BY <2>1, <2>2 DEF Places
  <2> QED BY <2>3, <2>4
<1>4. Arrays'
  BY DEF Inv, Arrays
<1>5. file[1] \in Frame /\ 1 \in Column
  BY <1>1, ParserAssumption DEF Column
<1>6. Cursor'
  <2>1. Len(Word(file[1], 1)) \in 2 .. 4
    BY <1>5, Words
  <2>2. /\ Word(text[i], word)' = Word(file[1], 1)
        /\ i' = 1 /\ word' = 1 /\ column' = 1 /\ j' = 1 /\ text' = file
    OBVIOUS
  <2>3. 1 \in 1 .. Len(Word(file[1], 1))
    BY <2>1, FirstCharacter
  <2>4. 1 \in 1 .. Len(file) /\ 1 \in 1 .. Fields + 1
    BY <1>1, ParserAssumption
  <2> QED BY <2>2, <2>3, <2>4 DEF Cursor
<1>7. Collected'
  BY DEF Collected, Base
<1>8. Copied'
  BY DEF Copied
<1> QED BY <1>2, <1>3, <1>4, <1>6, <1>7, <1>8 DEF Inv
(* A character goes to the next place of temp. *)
LEMMA StoreKeeps == Inv /\ Store => Inv'
<1> SUFFICES ASSUME Inv, Store PROVE Inv'
  OBVIOUS
<1>1. /\ reading /\ Char # Space /\ UNCHANGED << data, text, file, came >>
      /\ temp' = [temp EXCEPT ![z] = Char] /\ z' = z + 1
      /\ outside' = (outside \/ z >= Room)
      /\ column' = IF AtEnd THEN 1 ELSE column
      /\ Step
  BY DEF Store, Ends
<1>2. Cursor /\ Collected /\ Copied /\ i \in Row /\ Base \in {0, 2} /\ text[i] \in Frame
  BY <1>1, AtCursor DEF Inv
<1>3. z \in Reach /\ z = Base + j - 1 /\ z >= Base /\ (z >= Room => Base = 2)
  BY <1>1, <1>2, AtCursor DEF Collected, Reach, Room
<1>4. /\ \A a \in Reach : temp'[a] = IF a = z THEN Char ELSE temp[a]
      /\ Char \in Digit \cup {Newline, Nul}
      /\ Arrays'
  <2>1. Char \in Digit \cup {Newline, Nul}
    BY <1>1, AtCursor
  <2> QED BY <1>1, <1>3, <2>1 DEF Inv, Arrays
<1>5. Lines'
  BY <1>1 DEF Inv, Lines
<1>6. CASE ~AtEnd
  <2>1. /\ UNCHANGED << i, word, reading, column, Base >> /\ j' = j + 1
        /\ j \in 1 .. 3 /\ j < Len(Word(text[i], word))
    <3>1. ~WordEnds /\ j \in 1 .. 3
      BY <1>1, <1>6, AtCursor
    <3>2. UNCHANGED << i, word, reading, column >> /\ j' = j + 1
      BY <1>1, <1>6, <3>1 DEF Step, AtEnd
    <3>3. j < Len(Word(text[i], word))
      BY <1>2, <3>1 DEF WordEnds, Cursor
    <3> QED BY <3>1, <3>2, <3>3 DEF Base
  <2>2. Cursor'
    BY <1>1, <1>2, <2>1 DEF Cursor
  <2>3. Collected'
    <3>1. Base = 2 => temp'[0] = Newline /\ temp'[1] = Nul
      <4>1. 0 \in Reach /\ 1 \in Reach /\ (Base = 2 => z # 0 /\ z # 1)
        BY <1>2, <1>3 DEF Collected, Reach, Room
      <4> QED BY <1>2, <1>4, <4>1 DEF Collected
    <3>2. ASSUME NEW n \in 1 .. j
          PROVE  temp'[Base + n - 1] = Word(text[i], word)[n]
      <4>1. Base + n - 1 \in Reach /\ (Base + n - 1 = z <=> n = j)
        BY <1>2, <1>3, <2>1 DEF Reach, Room
      <4>2. CASE n = j
        BY <1>4, <4>1, <4>2 DEF Char
      <4>3. CASE n # j
        <5>1. n \in 1 .. j - 1
          BY <2>1, <4>3
        <5> QED BY <1>2, <1>4, <4>1, <4>3, <5>1 DEF Collected
      <4> QED BY <4>2, <4>3
    <3>3. j' - 1 = j /\ z' = Base + j' - 1
      BY <1>1, <1>2, <1>3, <2>1
    <3> QED BY <1>1, <2>1, <3>1, <3>2, <3>3 DEF Collected
  <2>4. Copied'
    BY <1>1, <1>2, <2>1 DEF Copied, RowDone
  <2>5. Counters' /\ Places'
    <3>1. z >= Room => i > 1
      BY <1>3 DEF Base
    <3>2. j' \in 0 .. Room /\ i' = i /\ word' = word
      BY <2>1 DEF Room
    <3> QED BY <1>1, <2>1, <3>1, <3>2 DEF Inv, Counters, Places
  <2> QED BY <1>1, <1>4, <1>5, <2>1, <2>2, <2>3, <2>4, <2>5 DEF Inv
<1>7. CASE AtEnd
  <2>1. word = Fields + 1 /\ Base = 0 /\ j = 2 /\ Char = Nul /\ z = 1
    BY <1>1, <1>2, <1>3, <1>7, AtCursor
  <2>2. i' = i + 1 /\ word' = 1 /\ j' = 1 /\ reading' = (i < Len(text)) /\ column' = 1
    BY <1>1, <1>7 DEF Step, AtEnd
  <2>3. i \in Nat /\ Len(text) \in Nat /\ i >= 1 /\ i <= Len(text) /\ Len(text) <= Capacity
    BY <1>2, ParserAssumption DEF Inv, Lines, Cursor
  <2>4. \A l \in 1 .. i : RowDone(l)'
    <3> SUFFICES ASSUME NEW l \in 1 .. i PROVE RowDone(l)
      BY <1>1 DEF RowDone
    <3>1. CASE l # i
      <4>1. l \in 1 .. i - 1
        BY <2>3, <3>1
      <4> QED BY <1>2, <4>1 DEF Copied
    <3>2. CASE l = i
      <4>1. \A k \in Column : data[i][k] = ParseRow(i, text[i])[k]
        <5>1. word - 1 = Fields
          BY <2>1, ParserAssumption
        <5> QED BY <1>2, <5>1 DEF Copied, Column
      <4>2. data[i] \in [Column -> Nat] /\ ParseRow(i, text[i]) \in [Column -> Nat]
        BY <1>2, Rows DEF Inv, Arrays
      <4>3. data[i] = ParseRow(i, text[i])
        BY <4>1, <4>2
      <4> QED BY <3>2, <4>3 DEF RowDone
    <3> QED BY <3>1, <3>2
  <2>5. Counters' /\ Places'
    <3>1. i' \in 0 .. Capacity + 1 /\ word' \in 0 .. Fields + 1 /\ j' \in 0 .. Room /\ i' > 1
      BY <2>2, <2>3, ParserAssumption DEF Room
    <3>2. reading' \in BOOLEAN /\ outside' \in BOOLEAN
      BY <1>1, <2>2
    <3> QED BY <1>1, <3>1, <3>2 DEF Inv, Counters, Places
  <2>6. z' = 2 /\ temp'[0] = Newline /\ temp'[1] = Nul
    <3>1. temp[0] = Newline
      <4>1. 1 \in 1 .. j - 1 /\ Base + 1 - 1 = 0
        BY <2>1
      <4>2. temp[Base + 1 - 1] = Word(text[i], word)[1]
        BY <1>2, <4>1 DEF Collected
      <4>3. Word(text[i], word) = << Newline, Nul >>
        BY <1>2, <2>1, Words
      <4> QED BY <4>1, <4>2, <4>3
    <3> QED BY <1>1, <1>4, <2>1, <3>1 DEF Reach, Room
  <2>7. CASE reading'
    <3>1. i < Len(text)
      BY Zenon, <2>2, <2>7
    <3>2. Cursor'
      <4>1. text[i + 1] \in Frame /\ 1 \in Column /\ 1 \in 1 .. Fields + 1
        BY <2>3, <3>1, ParserAssumption DEF Inv, Lines, Column
      <4>2. Len(Word(text[i + 1], 1)) \in 2 .. 4
        BY <4>1, Words
      <4>3. 1 \in 1 .. Len(Word(text[i + 1], 1)) /\ i + 1 \in 1 .. Len(text)
        <5>1. i + 1 \in 1 .. Len(text)
          BY <2>3, <3>1
        <5> QED BY <4>2, <5>1, FirstCharacter
      <4>4. Word(text[i], word)' = Word(text[i + 1], 1)
        BY <1>1, <2>2
      <4> QED BY <1>1, <2>2, <4>1, <4>3, <4>4 DEF Cursor
    <3>3. Collected'
      <4>1. Base' = 2
        BY <2>2, <2>3 DEF Base
      <4> QED BY <2>2, <2>6, <4>1 DEF Collected
    <3>4. Copied'
      <4>1. i' - 1 = i /\ word' - 1 = 0
        BY <2>2, <2>3
      <4> QED BY <2>4, <4>1 DEF Copied
    <3> QED BY <1>4, <1>5, <2>5, <2>7, <3>2, <3>3, <3>4 DEF Inv
  <2>8. CASE ~reading'
    <3>1. i = Len(text)
      <4>1. ~(i < Len(text))
        BY Zenon, <2>2, <2>8
      <4> QED BY <2>3, <4>1
    <3>2. DOMAIN text' = 1 .. i
      BY <1>1, <3>1 DEF Inv, Lines
    <3> QED BY <1>4, <1>5, <2>4, <2>5, <2>6, <2>8, <3>2 DEF Inv
  <2> QED BY <2>7, <2>8
<1> QED BY <1>6, <1>7
(* What atoi makes of temp at the end of a number goes into the table. *)
LEMMA NumberKeeps == Inv /\ Number => Inv'
<1> SUFFICES ASSUME Inv, Number PROVE Inv'
  OBVIOUS
<1> DEFINE ended == [temp EXCEPT ![z] = Nul]
           w == Word(text[i], word)
<1>1. /\ reading /\ Char = Space /\ UNCHANGED << text, file, came >>
      /\ temp' = [a \in Reach |-> IF a < Room THEN Nul ELSE ended[a]] /\ z' = 0
      /\ outside' = (outside \/ z >= Room)
      /\ data' = [data EXCEPT ![i][column] = Atoi(ended)]
      /\ column' = IF AtEnd THEN 1 ELSE column + 1
      /\ Step
  BY DEF Number, Ends
<1>2. /\ Cursor /\ Collected /\ Copied /\ i \in Row /\ Base \in {0, 2}
      /\ text[i] \in Frame /\ word \in Column /\ WordEnds /\ ~AtEnd
      /\ Fields \in Nat /\ word \in 1 .. Fields
  <2>1. Space \notin Digit /\ Space # Newline /\ Space # Nul
    BY DEF Space, Newline, Nul, Digit
  <2> QED BY <1>1, <2>1, AtCursor DEF Inv, Column
<1>3. /\ w = Numeral(text[i][word]) /\ text[i][word] \in 0 .. 255
      /\ Len(w) \in 2 .. 4 /\ j = Len(w)
  BY <1>2, Words DEF WordEnds
<1> HIDE DEF w
<1>4. z = Base + j - 1 /\ z \in Reach /\ j \in 2 .. 4 /\ (z >= Room => Base = 2)
  <2>1. j \in 2 .. 4
    BY <1>3
  <2>2. z = Base + j - 1
    BY <1>2 DEF Collected
  <2> QED BY <1>2, <2>1, <2>2 DEF Reach, Room
<1>5. \A a \in Reach : ended[a] = IF a = z THEN Nul ELSE temp[a]
  BY <1>4 DEF Inv, Arrays
<1>6. Atoi(ended) = ParseRow(i, text[i])[word] /\ Atoi(ended) \in Nat
  <2>1. ParseRow(i, text[i])[word] = IF i > 1 /\ word = 1 THEN 0 ELSE text[i][word]
    BY <1>2, Rows
  <2>2. CASE Base = 2
    <3>1. i > 1 /\ word = 1
      BY <2>2 DEF Base
    <3>2. ended[0] = Newline /\ ended[1] = Nul
      BY <1>2, <1>4, <1>5, <2>2 DEF Collected, Reach, Room
    <3>3. Atoi(ended) = 0
      BY <3>2, AtoiOfEnd
    <3> QED BY <2>1, <3>1, <3>3
  <2>3. CASE Base = 0
    <3>1. ~(i > 1 /\ word = 1)
      BY <2>3 DEF Base
    <3>2. ended[Len(w) - 1] = Nul
      BY <1>3, <1>4, <1>5, <2>3
    <3>3. ASSUME NEW n \in 1 .. Len(w) - 1 PROVE ended[n - 1] = w[n]
      <4>1. n - 1 \in Reach /\ n - 1 # z /\ n \in 1 .. j - 1 /\ Base + n - 1 = n - 1
        BY <1>3, <1>4, <2>3 DEF Reach, Room
      <4>2. temp[Base + n - 1] = Word(text[i], word)[n]
        BY <1>2, <4>1 DEF Collected
      <4> QED BY <1>5, <4>1, <4>2 DEF w
    <3>4. Atoi(ended) = text[i][word]
      <4> HIDE DEF ended
      <4> QED BY <1>3, <3>2, <3>3, AtoiOfNumeral
    <3>5. text[i][word] \in Nat
      <4>1. \A b \in 0 .. 255 : b \in Nat
        OBVIOUS
      <4> QED BY <1>3, <4>1
    <3> HIDE DEF ended
    <3> QED BY <2>1, <3>1, <3>4, <3>5
  <2> QED BY <1>2, <2>2, <2>3
<1>7. /\ i' = i /\ word' = word + 1 /\ j' = 1 /\ reading' /\ column' = word + 1
  <2>1. i' = i /\ word' = word + 1 /\ j' = 1 /\ reading' = reading
    BY <1>1, <1>2 DEF Step
  <2>2. column' = column + 1 /\ column = word
    BY <1>1, <1>2 DEF Cursor
  <2> QED BY <1>1, <2>1, <2>2
<1>8. Lines'
  BY <1>1 DEF Inv, Lines
<1>9. Arrays'
  <2>1. temp' \in [Reach -> Digit \cup {Newline, Nul}]
    BY <1>1, <1>5 DEF Inv, Arrays
  <2>2. data' \in [Row -> [Column -> Nat]]
    BY <1>1, <1>6 DEF Inv, Arrays
  <2> QED BY <2>1, <2>2 DEF Arrays
<1>10. Counters' /\ Places'
  <2>1. z >= Room => i > 1
    BY <1>4 DEF Base
  <2>2. word' \in 0 .. Fields + 1 /\ j' \in 0 .. Room
    BY <1>2, <1>7 DEF Room
  <2> QED BY <1>1, <1>7, <2>1, <2>2 DEF Inv, Counters, Places
<1>11. Cursor'
  <2>1. word' \in 1 .. Fields + 1
    BY <1>2, <1>7
  <2>2. Word(text[i], word)' = Word(text[i], word + 1)
    BY <1>1, <1>7
  <2>3. 1 \in 1 .. Len(Word(text[i], word + 1))
    <3>1. CASE word + 1 \in Column
      BY <1>2, <3>1, Words, FirstCharacter
    <3>2. CASE word + 1 \notin Column
      <4>1. Word(text[i], word + 1) = << Newline, Nul >>
        BY <3>2 DEF Word
      <4> QED BY <4>1
    <3> QED BY <3>1, <3>2
  <2> QED BY <1>1, <1>2, <1>7, <2>1, <2>2, <2>3 DEF Cursor
<1>12. Collected'
  <2>1. Base' = 0
    BY <1>2, <1>7 DEF Base
  <2> QED BY <1>1, <1>7, <2>1 DEF Collected
<1>13. Copied'
  <2>1. /\ \A l \in Row : l # i => data'[l] = data[l]
        /\ \A k \in Column : data'[i][k] = IF k = word THEN ParseRow(i, text[i])[word] ELSE data[i][k]
    BY <1>1, <1>2, <1>6 DEF Inv, Arrays, Cursor
  <2>2. \A l \in 1 .. i - 1 : RowDone(l)'
    <3> SUFFICES ASSUME NEW l \in 1 .. i - 1 PROVE RowDone(l)'
      OBVIOUS
    <3>1. l \in Row /\ l # i /\ RowDone(l)
      BY <1>2, ParserAssumption DEF Copied, Row
    <3> QED BY <1>1, <2>1, <3>1 DEF RowDone
  <2>3. ASSUME NEW k \in 1 .. word
        PROVE  data'[i][k] = ParseRow(i, text[i])[k]
    <3>1. k \in Column /\ (k # word => k \in 1 .. word - 1)
      BY <1>2 DEF Column
    <3> QED BY <1>2, <2>1, <3>1 DEF Copied
  <2>4. word' - 1 = word
    BY <1>2, <1>7
  <2> QED BY <1>1, <1>7, <2>2, <2>3, <2>4 DEF Copied
<1> QED BY <1>7, <1>8, <1>9, <1>10, <1>11, <1>12, <1>13 DEF Inv

(* Inv is inductive. *)
LEMMA InvKept == Inv /\ [Next]_vars => Inv'
<1> SUFFICES ASSUME Inv, [Next]_vars PROVE Inv'
  OBVIOUS
<1>1. CASE UNCHANGED vars
  BY <1>1 DEF vars, parser, Inv, Lines, Counters, Places, Arrays, Cursor, Collected,
              Copied, RowDone, Base
<1> QED BY <1>1, ReceiveKeeps, OpenKeeps, StoreKeeps, NumberKeeps DEF Next

LEMMA Invariance == Spec => []Inv
BY InvInit, InvKept, PTL DEF Spec

(* For any frames and any number of lines: however often the file is read  *)
(* while it grows, no index leaves its array, but that temp is overrun by  *)
(* two bytes, and only by the first number of a later line.                *)
THEOREM InBoundsProved == Spec => []InBounds
<1>1. Inv => TypeOK
  BY DEF Inv, Lines, Counters, Places, Arrays, TypeOK
<1>2. Inv => TableInBounds
  <2> SUFFICES ASSUME Inv, reading, Char = Space PROVE i \in Row /\ column \in Column
    BY DEF TableInBounds, Ends
  <2>1. Space \notin Digit /\ Space # Newline /\ Space # Nul
    BY DEF Space, Newline, Nul, Digit
  <2> QED BY <2>1, AtCursor DEF Cursor
<1>3. Inv => OverrunByTwo
  <2> SUFFICES ASSUME Inv PROVE OverrunByTwo
    OBVIOUS
  <2>1. CASE ~reading
    BY <2>1 DEF Inv, Places, OverrunByTwo, Room
  <2>2. CASE reading
    <3>1. z = Base + j - 1 /\ Base \in {0, 2} /\ j \in 1 .. 4 /\ (Base = 2 => i > 1 /\ column = 1)
      BY <2>2, AtCursor DEF Inv, Collected, Cursor, Base
    <3> QED BY <3>1 DEF Inv, Places, OverrunByTwo, Room
  <2> QED BY <2>1, <2>2
<1>4. Inv => InBounds
  BY <1>1, <1>2, <1>3 DEF InBounds
<1> QED BY Invariance, <1>4, PTL

(* After a reading the table holds the file, number by number, but for the *)
(* first number of every later line, which is 0.                           *)
THEOREM ReadBackProved == Spec => []ReadBack
<1>1. Inv => ReadBack
  BY DEF Inv, RowDone, ReadBack
<1> QED BY Invariance, <1>1, PTL

-----------------------------------------------------------------------------
(***************************************************************************)
(* The picture.                                                            *)
(***************************************************************************)

Turns == {"right flat", "right steep", "left steep", "left flat"}

(* Of the beams at the pixel, those this way has come to. *)
PassedAt(st) ==
  {k \in BeamsAt :
     \/ st = 5 /\ k <= 15
     \/ st \in {6, 7} /\ k <= 30
     \/ st = 8 /\ k <= 45
     \/ st \in {9, 10}
     \/ st = 11 /\ k >= 46
     \/ st \in {12, 13} /\ k >= 31
     \/ st = 14 /\ k >= 16
     \/ st \in {15, 16} /\ k >= 1}
OwnerAt(st) == IF st <= 10 THEN Max(PassedAt(st)) ELSE Min(PassedAt(st))

(* The pixel shows what the beam that owns it so far saw on this way.      *)
ShownAt(st, circle, limit, scene, c) ==
  Swept /\ X # 0 /\ PassedAt(st) # {} => c = Shows(circle, limit, scene[OwnerAt(st)])
Shown == ShownAt(step, ring, warn, sight, colour)

(* The middle column is white when it has been drawn, its top from the     *)
(* start.                                                                  *)
MiddleWhite ==
  Swept /\ X = 0 /\ step > 3 /\ (step > 6 \/ Y = 499) => colour = "white"

(* What is red was so, or is inside a circle that was drawn for a warning  *)
(* distance at most one press of the button away.                          *)
RedInside ==
  /\ colour = "red" => InDisc
  /\ step > 3 /\ colour = "red" => Square < (ring + 20) * (ring + 20)

(* The server has drawn nothing before the first report, and what it has   *)
(* drawn is the frame it drew.                                             *)
OnServer ==
  /\ row # "none" => step >= 10
  /\ screen = "red" => InDisc /\ X # 0
  /\ ServerShowsFrame

(* Once both are read in a cycle, the warning distance is at most one      *)
(* press beyond the one that the circle is drawn for.                      *)
PictureTypes ==
  /\ pixel \in Pixels /\ step \in 1 .. 16
  /\ step > 1 => ring \in {2 * w : w \in Warns}
  /\ step > 2 => warn \in 10 .. 250 /\ 2 * warn <= ring + 20
  /\ ring \in 0 .. 500 /\ warn \in 0 .. 250

PictureArrays ==
  /\ sight \in [0 .. 61 -> 0 .. 250]
  /\ r \in [Beam -> Nat] /\ frame \in [Beam -> Nat]

PictureInv ==
  PictureTypes /\ PictureArrays /\ Shown /\ MiddleWhite /\ RedInside /\ OnServer
-----------------------------------------------------------------------------
(* Numbers. *)

LEMMA Least ==
  ASSUME NEW S \in SUBSET Nat, S # {} PROVE \E a \in S : \A b \in S : a <= b
<1> DEFINE Less == {ss \in Nat \X Nat : ss[1] < ss[2]}
<1>1. IsWellFoundedOn(Less, Nat)
  BY NatLessThanWellFounded DEF OpToRel
<1>2. \E a \in S : \A b \in S : << b, a >> \notin Less
  <2> HIDE DEF Less
  <2> QED BY <1>1, WFMin
<1>3. \A a, b \in Nat : << b, a >> \notin Less => a <= b
  OBVIOUS
<1> HIDE DEF Less
<1> QED BY <1>2, <1>3

LEMMA Highest ==
  ASSUME NEW S \in SUBSET (0 .. 61), S # {}
  PROVE  /\ Max(S) \in S /\ \A k \in S : k <= Max(S)
         /\ Min(S) \in S /\ \A k \in S : Min(S) <= k
<1>1. \E a \in S : \A b \in S : a <= b
  <2>1. S \in SUBSET Nat
    OBVIOUS
  <2> QED BY ONLY <2>1, S # {}, Least
<1>2. \E a \in S : \A b \in S : b <= a
  <2> DEFINE T == {n \in 0 .. 61 : 61 - n \in S}
  <2>1. PICK k \in S : TRUE
    OBVIOUS
  <2>2. 61 - k \in T
    BY <2>1
  <2>3. T \in SUBSET Nat
    OBVIOUS
  <2>4. \A n : n \in T <=> n \in 0 .. 61 /\ 61 - n \in S
    OBVIOUS
  <2> HIDE DEF T
  <2>5. PICK a \in T : \A b \in T : a <= b
    <3>1. T # {}
      BY <2>2
    <3> QED BY ONLY <2>3, <3>1, Least
  <2>6. \A b \in S : b <= 61 - a
    <3> TAKE b \in S
    <3>1. 61 - b \in 0 .. 61 /\ 61 - (61 - b) = b
      OBVIOUS
    <3>2. 61 - b \in T
      BY <3>1, <2>4
    <3> QED BY <3>1, <3>2, <2>5, <2>4
  <2> QED BY <2>5, <2>6, <2>4
<1> QED BY <1>1, <1>2 DEF Max, Min

(* A quotient against a number. *)
LEMMA Quotient ==
  ASSUME NEW d \in Nat \ {0}, NEW n \in Nat, NEW c \in Nat
  PROVE  /\ n \div d \in Nat
         /\ (c <= n \div d) <=> (c * d <= n)
         /\ (n \div d <= c) <=> (n < (c + 1) * d)
<1> DEFINE q == n \div d
<1>1. q \in Nat /\ d * q <= n /\ n < d * q + d
  OBVIOUS
<1> HIDE DEF q
<1>2. ASSUME c <= q PROVE c * d <= n
  <2>1. c * d <= q * d
    BY <1>1, <1>2
  <2> QED BY <1>1, <2>1
<1>3. ASSUME q < c PROVE n < c * d
  <2>1. (q + 1) * d <= c * d
    BY <1>1, <1>3
  <2>2. (q + 1) * d = d * q + d
    BY <1>1
  <2> QED BY <1>1, <2>1, <2>2
<1>4. ASSUME q <= c PROVE n < (c + 1) * d
  <2>1. (q + 1) * d <= (c + 1) * d
    BY <1>1, <1>4
  <2>2. (q + 1) * d = d * q + d
    BY <1>1
  <2> QED BY <1>1, <2>1, <2>2
<1>5. ASSUME c < q PROVE (c + 1) * d <= n
  <2>1. (c + 1) * d <= q * d
    BY <1>1, <1>5
  <2> QED BY <1>1, <2>1
<1>6. c * d \in Nat /\ (c + 1) * d \in Nat
  OBVIOUS
<1>7. (c <= q) <=> (c * d <= n)
  BY <1>1, <1>2, <1>3, <1>6
<1>8. (q <= c) <=> (n < (c + 1) * d)
  BY <1>1, <1>4, <1>5, <1>6
<1> QED BY <1>1, <1>7, <1>8 DEF q

(* The table of tangents, and that it leaves no gap. *)
LEMMA Tangents ==
  /\ Tan(0) = 0 /\ Tan(1) = 524 /\ Tan(2) = 1051 /\ Tan(3) = 1583
  /\ Tan(4) = 2125 /\ Tan(5) = 2679 /\ Tan(6) = 3249 /\ Tan(7) = 3838
  /\ Tan(8) = 4452 /\ Tan(9) = 5095 /\ Tan(10) = 5773 /\ Tan(11) = 6494
  /\ Tan(12) = 7265 /\ Tan(13) = 8097 /\ Tan(14) = 9004 /\ Tan(15) = 10000
BY DEF Tan, TanList

LEMMA Bounded == \A n \in 0 .. 15 : Tan(n) \in Nat /\ Tan(n) <= 10000
<1> SUFFICES ASSUME NEW n \in 0 .. 15 PROVE Tan(n) \in Nat /\ Tan(n) <= 10000
  OBVIOUS
<1>1. n \in {0, 1, 2, 3, 4, 5, 6, 7, 8, 9, 10, 11, 12, 13, 14, 15}
  OBVIOUS
<1> QED BY ONLY <1>1, Tangents

LEMMA NoGap ==
  ASSUME NEW s \in Nat, s <= 10000 PROVE \E n \in 1 .. 15 : Tan(n - 1) <= s /\ s <= Tan(n)
<1> DEFINE Found == \E n \in 1 .. 15 : Tan(n - 1) <= s /\ s <= Tan(n)
<1>1. \A n \in 1 .. 15 : Tan(n - 1) <= s /\ s <= Tan(n) => Found
  OBVIOUS
<1>2. /\ 1 - 1 = 0 /\ 2 - 1 = 1 /\ 3 - 1 = 2 /\ 4 - 1 = 3 /\ 5 - 1 = 4
      /\ 6 - 1 = 5 /\ 7 - 1 = 6 /\ 8 - 1 = 7 /\ 9 - 1 = 8 /\ 10 - 1 = 9
      /\ 11 - 1 = 10 /\ 12 - 1 = 11 /\ 13 - 1 = 12 /\ 14 - 1 = 13 /\ 15 - 1 = 14
  OBVIOUS
<1> HIDE DEF Found
<1>3. Found \/ s > 2679
  BY <1>1, <1>2, Tangents
<1>4. Found \/ s <= 2679 \/ s > 5773
  BY <1>1, <1>2, Tangents
<1>5. Found \/ s <= 5773
  BY <1>1, <1>2, Tangents
<1> QED BY <1>3, <1>4, <1>5 DEF Found
-----------------------------------------------------------------------------
(* The pixel, and the beams that meet it.                                  *)

AtPixel == X \in -512 .. 511 /\ Y \in 0 .. 599

LEMMA OnScreen == ASSUME pixel \in Pixels PROVE AtPixel
BY PictureAssumption DEF AtPixel, X, Y

LEMMA Squares ==
  ASSUME AtPixel
  PROVE  /\ Square \in Nat /\ Away \in 0 .. 512 /\ (X # 0 => Away > 0)
         /\ InDisc => Away <= 500 /\ Y <= 500 /\ X <= 500
         /\ InDisc /\ X # 0 => Y <= 499
<1>1. X \in Int /\ Y \in Nat /\ Away \in 0 .. 512 /\ (X # 0 => Away > 0) /\ X <= Away
  BY DEF AtPixel, Away
<1>2. X * X \in Nat /\ Y * Y \in Nat /\ Square = X * X + Y * Y
  <2>1. X * X \in Nat
    BY <1>1
  <2>2. Y * Y \in Nat
    BY <1>1
  <2> QED BY <2>1, <2>2 DEF Square
<1>3. X * X = Away * Away
  BY <1>1 DEF Away
<1>4. Away > 500 => Away * Away > 250000
  <2> SUFFICES ASSUME Away >= 501 PROVE Away * Away >= 251001
    BY <1>1
  <2>1. Away * Away >= 501 * Away
    BY <1>1
  <2> QED BY <1>1, <2>1
<1>5. Y > 499 => Y * Y >= 250000
  <2> SUFFICES ASSUME Y >= 500 PROVE Y * Y >= 250000
    BY <1>1
  <2>1. Y * Y >= 500 * Y
    BY <1>1
  <2> QED BY <1>1, <2>1
<1>6. Y > 500 => Y * Y > 250000
  <2> SUFFICES ASSUME Y >= 501 PROVE Y * Y >= 251001
    BY <1>1
  <2>1. Y * Y >= 501 * Y
    BY <1>1
  <2> QED BY <1>1, <2>1
<1>7. X # 0 => X * X > 0
  <2> SUFFICES ASSUME Away >= 1 PROVE Away * Away >= 1
    BY <1>1, <1>2, <1>3
  <2>1. Away * Away >= 1 * Away
    BY <1>1
  <2> QED BY <1>1, <2>1
<1>8. InDisc <=> Square <= 250000
  BY DEF InDisc, Within
<1> QED BY <1>1, <1>2, <1>3, <1>4, <1>5, <1>6, <1>7, <1>8

(* The groups of a pixel: on its side, and a steep one only above row 0. *)
Beside(g) == (Right(g) <=> X > 0) /\ (Y >= 1 \/ Flat(g))

Height(g) == IF Flat(g) THEN Y ELSE Away
Width(g) == IF Flat(g) THEN Away ELSE Y

(* The tangent is a quotient cut to an integer; the closed interval of a   *)
(* sector is then half open, and free of division.                         *)
LEMMA CoversMeans ==
  ASSUME AtPixel, InDisc, X # 0, NEW g \in Turns, Beside(g), NEW n \in 0 .. 15
  PROVE  /\ Covers(g, n) <=> /\ n > 0 => Tan(n - 1) * Width(g) <= Height(g) * 10000
                             /\ Height(g) * 10000 < (Tan(n) + 1) * Width(g)
         /\ Covers(g, n) => Height(g) <= Width(g)
<1>1. /\ Height(g) \in 0 .. 500 /\ Width(g) \in 1 .. 500 /\ Height(g) * 10000 \in Nat
      /\ Slope(g) = (Height(g) * 10000) \div Width(g)
  BY Squares DEF Beside, Height, Width, Slope, AtPixel
<1>2. Tan(n) \in Nat /\ Tan(n) <= 10000 /\ (n > 0 => Tan(n - 1) \in Nat)
  BY Bounded
<1> DEFINE q == (Height(g) * 10000) \div Width(g)
<1>3. \A c \in Nat : /\ q \in Nat
                     /\ (c <= q) <=> (c * Width(g) <= Height(g) * 10000)
                     /\ (q <= c) <=> (Height(g) * 10000 < (c + 1) * Width(g))
  <2>1. Width(g) \in Nat \ {0} /\ Height(g) * 10000 \in Nat
    BY <1>1
  <2> QED BY ONLY <2>1, Quotient
<1>4. Slope(g) = q
  BY <1>1
<1> HIDE DEF q
<1>5. Covers(g, n) <=> /\ n > 0 => Tan(n - 1) * Width(g) <= Height(g) * 10000
                       /\ Height(g) * 10000 < (Tan(n) + 1) * Width(g)
  BY <1>2, <1>3, <1>4, Tangents DEF Covers
<1>6. ASSUME Height(g) * 10000 < (Tan(n) + 1) * Width(g) PROVE Height(g) <= Width(g)
  <2>1. (Tan(n) + 1) * Width(g) <= 10001 * Width(g)
    BY <1>1, <1>2
  <2>2. (Tan(n) + 1) * Width(g) \in Int
    BY <1>1, <1>2
  <2>3. Height(g) * 10000 < 10001 * Width(g)
    BY <1>1, <1>6, <2>1, <2>2
  <2>4. Height(g) \in Nat /\ Width(g) \in Nat /\ Width(g) <= 500
    BY <1>1
  <2> QED BY ONLY <2>3, <2>4
<1> QED BY <1>5, <1>6

(* A sector paints the pixel just if its beam is one of the pixel's.       *)
LEMMA CoversIsBeam ==
  ASSUME AtPixel, InDisc, X # 0, NEW g \in Turns, Beside(g), NEW n \in 0 .. 15,
         n = 0 => Right(g) /\ Flat(g)
  PROVE  Covers(g, n) <=> BeamOf(g, n) \in BeamsAt
<1> DEFINE Meets == /\ n > 0 => Tan(n - 1) * Width(g) <= Height(g) * 10000
                    /\ Height(g) * 10000 < (Tan(n) + 1) * Width(g)
<1>1. /\ Height(g) \in 0 .. 500 /\ Width(g) \in 1 .. 500
  BY Squares DEF Beside, Height, Width, AtPixel
<1>2. Tan(n) \in Nat /\ Tan(n) <= 10000 /\ (n > 0 => Tan(n - 1) \in Nat)
  BY Bounded
<1>3. Height(g) * 10000 = 10000 * Height(g)
  BY <1>1
<1>4. ASSUME Height(g) <= Width(g) PROVE Short = Height(g) /\ Long = Width(g)
  <2>1. Y \in Nat /\ Away \in Nat
    BY Squares DEF AtPixel
  <2> QED BY <1>4, <2>1 DEF Short, Long, Height, Width
<1>5. BeamOf(g, n) \in BeamsAt <=> Height(g) <= Width(g) /\ Meets
  <2>1. CASE Right(g) /\ Flat(g)
    <3>1. BeamOf(g, n) = n /\ Height(g) = Y /\ Width(g) = Away /\ X > 0
      BY <2>1 DEF BeamOf, Height, Width, Beside
    <3> QED BY <3>1, <1>1, <1>2, <1>4 DEF BeamsAt, Beam
  <2>2. CASE Right(g) /\ ~Flat(g)
    <3>1. BeamOf(g, n) = 31 - n /\ Height(g) = Away /\ Width(g) = Y /\ X > 0
      BY <2>2 DEF BeamOf, Height, Width, Beside
    <3>2. n # 0
      BY <2>2
    <3>3. 31 - n \in 16 .. 30 /\ 31 - (31 - n) = n
      BY <3>2
    <3> QED BY <3>2, <3>1, <3>3, <1>1, <1>2, <1>4 DEF BeamsAt, Beam
  <2>3. CASE ~Right(g) /\ ~Flat(g)
    <3>1. BeamOf(g, n) = 30 + n /\ Height(g) = Away /\ Width(g) = Y /\ ~(X > 0)
      BY <2>3 DEF BeamOf, Height, Width, Beside
    <3>2. n # 0
      BY <2>3
    <3>3. 30 + n \in 31 .. 45 /\ 31 - (61 - (30 + n)) = n /\ 61 - (30 + n) \in 16 .. 30
      BY <3>2
    <3> QED BY <3>2, <3>1, <3>3, <1>1, <1>2, <1>4 DEF BeamsAt, Beam
  <2>4. CASE ~Right(g) /\ Flat(g)
    <3>1. BeamOf(g, n) = 61 - n /\ Height(g) = Y /\ Width(g) = Away /\ ~(X > 0)
      BY <2>4 DEF BeamOf, Height, Width, Beside
    <3>2. n # 0
      BY <2>4
    <3>3. 61 - n \in 46 .. 60 /\ 61 - (61 - n) = n
      BY <3>2
    <3> QED BY <3>2, <3>1, <3>3, <1>1, <1>2, <1>4 DEF BeamsAt, Beam
  <2> QED BY <2>1, <2>2, <2>3, <2>4
<1> QED BY <1>5, CoversMeans

(* Sector 0 on the left shows nowhere: its beam, 61, is at no pixel. *)
LEMMA CoversTurn ==
  ASSUME AtPixel, InDisc, X # 0, NEW g \in Turns, Beside(g), NEW n \in 0 .. 15,
         n = 0 => Flat(g) /\ (Right(g) \/ Y >= 1)
  PROVE  Covers(g, n) <=> BeamOf(g, n) \in BeamsAt
<1>1. CASE n = 0 => Right(g) /\ Flat(g)
  BY <1>1, CoversIsBeam
<1>2. CASE n = 0 /\ Flat(g) /\ ~Right(g) /\ Y >= 1
  <2>1. BeamOf(g, n) = 61
    BY <1>2 DEF BeamOf
  <2>2. BeamOf(g, n) \notin BeamsAt
    BY <2>1 DEF BeamsAt, Beam
  <2>3. Height(g) = Y /\ Width(g) = Away
    BY <1>2 DEF Height, Width
  <2>4. Covers(g, n) => Y * 10000 < (Tan(0) + 1) * Away
    BY <1>2, <2>3, CoversMeans
  <2>5. Y \in Nat /\ Y >= 1 /\ Away \in Nat /\ Away <= 500
    BY <1>2, Squares DEF AtPixel
  <2>6. ~(Y * 10000 < (Tan(0) + 1) * Away)
    BY <2>5, Tangents
  <2> QED BY <2>2, <2>4, <2>6
<1> QED BY <1>1, <1>2

-----------------------------------------------------------------------------
(* The loops. *)

(* What a loop needs of the order of its sectors: m of them. *)
Sectors(g, order, m) ==
  /\ DOMAIN order = 1 .. m
  /\ \A n \in 1 .. m : /\ order[n] \in 0 .. 15
                       /\ order[n] = 0 => Flat(g) /\ (Right(g) \/ Y >= 1)

(* The turns of a loop whose sectors lie along a beam of the pixel. *)
Hits(g, order) == {n \in DOMAIN order : BeamOf(g, order[n]) \in BeamsAt}

LEMMA ShadeShows ==
  ASSUME AtPixel, X # 0, NEW circle, NEW limit, NEW d \in Int
  PROVE  Shade(circle, limit, d) = Shows(circle, limit, d)
<1>1. Within(2 * d) <=> ~(Square > 4 * d * d)
  <2>1. (2 * d) * (2 * d) = 4 * d * d
    OBVIOUS
  <2>2. Square \in Int
    BY Squares
  <2>3. 4 * d * d \in Int
    OBVIOUS
  <2> QED BY <2>1, <2>2, <2>3 DEF Within
<1> QED BY <1>1 DEF Shade, Shows

(* A loop leaves what the last of its turns that hit the pixel saw; one    *)
(* that never hits it leaves it, or paints a line over it.                 *)
LEMMA LoopShows ==
  ASSUME AtPixel, InDisc, X # 0, NEW g \in Turns, Beside(g),
         NEW order, NEW m \in {15, 16}, Sectors(g, order, m),
         NEW circle, NEW limit, NEW seen, \A n \in 1 .. m : seen[n] \in Int, NEW old
  PROVE  /\ Hits(g, order) # {} =>
              Loop(g, order, circle, limit, seen, old) =
                Shows(circle, limit, seen[Max(Hits(g, order))])
         /\ Hits(g, order) = {} =>
              \/ Loop(g, order, circle, limit, seen, old) = old
              \/ \A d : Loop(g, order, circle, limit, seen, old) = Shows(circle, limit, d)
<1> DEFINE touched == {n \in DOMAIN order : Touches(g, order[n], circle, seen[n])}
           L == Loop(g, order, circle, limit, seen, old)
           H == Hits(g, order)
<1>1. L = IF touched = {} THEN old ELSE Shade(circle, limit, seen[Max(touched)])
  BY DEF Loop
<1>2. \A n \in 1 .. m : Covers(g, order[n]) <=> BeamOf(g, order[n]) \in BeamsAt
  BY CoversTurn DEF Sectors
<1>3. \A n \in 1 .. m : Shade(circle, limit, seen[n]) = Shows(circle, limit, seen[n])
  BY ShadeShows
<1>4. DOMAIN order = 1 .. m
  BY DEF Sectors
<1>5. touched \subseteq 1 .. m /\ H \subseteq 1 .. m
  BY <1>4 DEF Hits
<1>6. 1 .. m \subseteq 0 .. 61 /\ 1 \in 1 .. m
  OBVIOUS
<1>7. touched \in SUBSET (0 .. 61) /\ H \in SUBSET (0 .. 61)
  <2> HIDE DEF touched, H
  <2> QED BY <1>5, <1>6, Zenon
<1> HIDE DEF H
<1>8. CASE Between(circle, circle + 10) \/ OnLine \/ OnCircle
  <2>1. \A n \in 1 .. m : Touches(g, order[n], circle, seen[n])
    BY <1>8 DEF Touches
  <2>2. 1 \in touched
    BY <2>1, <1>4
  <2>3. L = Shade(circle, limit, seen[Max(touched)])
    BY <1>1, <2>2
  <2>4. \A c, d : Shade(circle, limit, c) = Shows(circle, limit, d)
    BY <1>8 DEF Shade, Shows
  <2> QED BY <2>3, <2>4
<1>9. CASE ~(Between(circle, circle + 10) \/ OnLine \/ OnCircle)
  <2>1. \A n \in 1 .. m : Touches(g, order[n], circle, seen[n]) <=> Covers(g, order[n])
    BY <1>9 DEF Touches
  <2>2. touched = H
    BY <2>1, <1>2, <1>4 DEF H, Hits
  <2>3. CASE H = {}
    BY <1>1, <2>2, <2>3 DEF H
  <2>4. CASE H # {}
    <3>1. Max(H) \in 1 .. m
      BY <2>4, <1>5, <1>7, Highest
    <3> QED BY <3>1, <1>1, <1>3, <2>2, <2>4 DEF H
  <2> QED BY <2>3, <2>4
<1> QED BY <1>8, <1>9 DEF H
(* The beams of a group, from the first to the last on the way out. *)
FirstBeam(g) == IF Right(g) THEN IF Flat(g) THEN 0 ELSE 16 ELSE IF Flat(g) THEN 46 ELSE 31
LastBeam(g) == IF Right(g) THEN IF Flat(g) THEN 15 ELSE 30 ELSE IF Flat(g) THEN 60 ELSE 45

LEMMA Sides ==
  /\ Right("right flat") /\ Flat("right flat")
  /\ Right("right steep") /\ ~Flat("right steep")
  /\ ~Right("left steep") /\ ~Flat("left steep")
  /\ ~Right("left flat") /\ Flat("left flat")
BY DEF Right, Flat

LEMMA UpDown ==
  /\ Up(0, 15) = [n \in 1 .. 16 |-> n - 1]
  /\ Up(1, 15) = [n \in 1 .. 15 |-> n]
  /\ Down(15, 1) = [n \in 1 .. 15 |-> 16 - n]
<1>1. 15 - 0 + 1 = 16 /\ 15 - 1 + 1 = 15 /\ 15 + 1 = 16
  OBVIOUS
<1>2. Up(0, 15) = [n \in 1 .. 16 |-> n - 1]
  <2>1. \A n \in 1 .. 16 : 0 + n - 1 = n - 1
    OBVIOUS
  <2> QED BY <1>1, <2>1 DEF Up
<1>3. Up(1, 15) = [n \in 1 .. 15 |-> n]
  <2>1. \A n \in 1 .. 15 : 1 + n - 1 = n
    OBVIOUS
  <2> QED BY <1>1, <2>1 DEF Up
<1>4. Down(15, 1) = [n \in 1 .. 15 |-> 16 - n]
  <2>1. \A n \in 1 .. 15 : 15 - n + 1 = 16 - n
    OBVIOUS
  <2> QED BY <1>1, <2>1 DEF Down
<1> QED BY <1>2, <1>3, <1>4

(* The way out takes the beams upwards. *)
LEMMA OutTurns ==
  ASSUME NEW g \in Turns
  PROVE  \E m \in {15, 16} :
           /\ Sectors(g, Out(g), m) /\ m = LastBeam(g) - FirstBeam(g) + 1
           /\ \A n \in 1 .. m : BeamOf(g, Out(g)[n]) = FirstBeam(g) + n - 1
<1>1. CASE g = "right flat"
  <2>1. Out(g) = [n \in 1 .. 16 |-> n - 1]
    BY <1>1, UpDown DEF Out
  <2>2. Right(g) /\ Flat(g)
    BY <1>1, Sides
  <2>3. \A n \in 1 .. 16 : Out(g)[n] = n - 1
    BY <2>1
  <2>4. Sectors(g, Out(g), 16)
    BY <2>1, <2>2 DEF Sectors
  <2>5. \A n \in 1 .. 16 : BeamOf(g, Out(g)[n]) = FirstBeam(g) + n - 1
    BY <2>2, <2>3 DEF BeamOf, FirstBeam
  <2>6. 16 = LastBeam(g) - FirstBeam(g) + 1
    BY <2>2 DEF LastBeam, FirstBeam
  <2> QED BY <2>4, <2>5, <2>6
<1>2. CASE g = "right steep"
  <2>1. Out(g) = [n \in 1 .. 15 |-> 16 - n]
    BY <1>2, UpDown DEF Out
  <2>2. Right(g) /\ ~Flat(g)
    BY <1>2, Sides
  <2>3. \A n \in 1 .. 15 : Out(g)[n] = 16 - n
    BY <2>1
  <2>4. Sectors(g, Out(g), 15)
    BY <2>1, <2>2 DEF Sectors
  <2>5. \A n \in 1 .. 15 : BeamOf(g, Out(g)[n]) = FirstBeam(g) + n - 1
    BY <2>2, <2>3 DEF BeamOf, FirstBeam
  <2>6. 15 = LastBeam(g) - FirstBeam(g) + 1
    BY <2>2 DEF LastBeam, FirstBeam
  <2> QED BY <2>4, <2>5, <2>6
<1>3. CASE g = "left steep"
  <2>1. Out(g) = [n \in 1 .. 15 |-> n]
    BY <1>3, UpDown DEF Out
  <2>2. ~Right(g) /\ ~Flat(g)
    BY <1>3, Sides
  <2>3. \A n \in 1 .. 15 : Out(g)[n] = n
    BY <2>1
  <2>4. Sectors(g, Out(g), 15)
    BY <2>1, <2>2 DEF Sectors
  <2>5. \A n \in 1 .. 15 : BeamOf(g, Out(g)[n]) = FirstBeam(g) + n - 1
    BY <2>2, <2>3 DEF BeamOf, FirstBeam
  <2>6. 15 = LastBeam(g) - FirstBeam(g) + 1
    BY <2>2 DEF LastBeam, FirstBeam
  <2> QED BY <2>4, <2>5, <2>6
<1>4. CASE g = "left flat"
  <2>1. Out(g) = [n \in 1 .. 15 |-> 16 - n]
    BY <1>4, UpDown DEF Out
  <2>2. ~Right(g) /\ Flat(g)
    BY <1>4, Sides
  <2>3. \A n \in 1 .. 15 : Out(g)[n] = 16 - n
    BY <2>1
  <2>4. Sectors(g, Out(g), 15)
    BY <2>1, <2>2 DEF Sectors
  <2>5. \A n \in 1 .. 15 : BeamOf(g, Out(g)[n]) = FirstBeam(g) + n - 1
    BY <2>2, <2>3 DEF BeamOf, FirstBeam
  <2>6. 15 = LastBeam(g) - FirstBeam(g) + 1
    BY <2>2 DEF LastBeam, FirstBeam
  <2> QED BY <2>4, <2>5, <2>6
<1> QED BY <1>1, <1>2, <1>3, <1>4 DEF Turns

(* The way back takes them downwards, from beam 61 and to beam 1. *)
Bottom(g) == IF FirstBeam(g) = 0 THEN 1 ELSE FirstBeam(g)

LEMMA BackTurns ==
  ASSUME NEW g \in Turns
  PROVE  \E m \in {15, 16} :
           /\ DOMAIN Back(g) = 1 .. m
           /\ Y >= 1 \/ Right(g) \/ ~Flat(g) => Sectors(g, Back(g), m)
           /\ Bottom(g) + m - 1 \in {LastBeam(g), 61} /\ LastBeam(g) <= Bottom(g) + m - 1
           /\ \A n \in 1 .. m : BeamOf(g, Back(g)[n]) = Bottom(g) + m - n
<1>1. CASE g = "left flat"
  <2>1. Back(g) = [n \in 1 .. 16 |-> n - 1]
    BY <1>1, UpDown DEF Back
  <2>2. ~Right(g) /\ Flat(g)
    BY <1>1, Sides
  <2>3. \A n \in 1 .. 16 : Back(g)[n] = n - 1
    BY <2>1
  <2>4. /\ DOMAIN Back(g) = 1 .. 16
        /\ Y >= 1 \/ Right(g) \/ ~Flat(g) => Sectors(g, Back(g), 16)
    BY <2>1, <2>2 DEF Sectors
  <2>5. \A n \in 1 .. 16 : BeamOf(g, Back(g)[n]) = Bottom(g) + 16 - n
    BY <2>2, <2>3 DEF BeamOf, FirstBeam, Bottom
  <2>6. Bottom(g) + 16 - 1 \in {LastBeam(g), 61} /\ LastBeam(g) <= Bottom(g) + 16 - 1
    BY <2>2 DEF LastBeam, FirstBeam, Bottom
  <2> QED BY <2>4, <2>5, <2>6
<1>2. CASE g = "left steep"
  <2>1. Back(g) = [n \in 1 .. 15 |-> 16 - n]
    BY <1>2, UpDown DEF Back
  <2>2. ~Right(g) /\ ~Flat(g)
    BY <1>2, Sides
  <2>3. \A n \in 1 .. 15 : Back(g)[n] = 16 - n
    BY <2>1
  <2>4. /\ DOMAIN Back(g) = 1 .. 15
        /\ Y >= 1 \/ Right(g) \/ ~Flat(g) => Sectors(g, Back(g), 15)
    BY <2>1, <2>2 DEF Sectors
  <2>5. \A n \in 1 .. 15 : BeamOf(g, Back(g)[n]) = Bottom(g) + 15 - n
    BY <2>2, <2>3 DEF BeamOf, FirstBeam, Bottom
  <2>6. Bottom(g) + 15 - 1 \in {LastBeam(g), 61} /\ LastBeam(g) <= Bottom(g) + 15 - 1
    BY <2>2 DEF LastBeam, FirstBeam, Bottom
  <2> QED BY <2>4, <2>5, <2>6
<1>3. CASE g = "right steep"
  <2>1. Back(g) = [n \in 1 .. 15 |-> n]
    BY <1>3, UpDown DEF Back
  <2>2. Right(g) /\ ~Flat(g)
    BY <1>3, Sides
  <2>3. \A n \in 1 .. 15 : Back(g)[n] = n
    BY <2>1
  <2>4. /\ DOMAIN Back(g) = 1 .. 15
        /\ Y >= 1 \/ Right(g) \/ ~Flat(g) => Sectors(g, Back(g), 15)
    BY <2>1, <2>2 DEF Sectors
  <2>5. \A n \in 1 .. 15 : BeamOf(g, Back(g)[n]) = Bottom(g) + 15 - n
    BY <2>2, <2>3 DEF BeamOf, FirstBeam, Bottom
  <2>6. Bottom(g) + 15 - 1 \in {LastBeam(g), 61} /\ LastBeam(g) <= Bottom(g) + 15 - 1
    BY <2>2 DEF LastBeam, FirstBeam, Bottom
  <2> QED BY <2>4, <2>5, <2>6
<1>4. CASE g = "right flat"
  <2>1. Back(g) = [n \in 1 .. 15 |-> 16 - n]
    BY <1>4, UpDown DEF Back
  <2>2. Right(g) /\ Flat(g)
    BY <1>4, Sides
  <2>3. \A n \in 1 .. 15 : Back(g)[n] = 16 - n
    BY <2>1
  <2>4. /\ DOMAIN Back(g) = 1 .. 15
        /\ Y >= 1 \/ Right(g) \/ ~Flat(g) => Sectors(g, Back(g), 15)
    BY <2>1, <2>2 DEF Sectors
  <2>5. \A n \in 1 .. 15 : BeamOf(g, Back(g)[n]) = Bottom(g) + 15 - n
    BY <2>2, <2>3 DEF BeamOf, FirstBeam, Bottom
  <2>6. Bottom(g) + 15 - 1 \in {LastBeam(g), 61} /\ LastBeam(g) <= Bottom(g) + 15 - 1
    BY <2>2 DEF LastBeam, FirstBeam, Bottom
  <2> QED BY <2>4, <2>5, <2>6
<1> QED BY <1>1, <1>2, <1>3, <1>4 DEF Turns
-----------------------------------------------------------------------------
(* Whose sight a loop leaves: of its beams at the pixel the highest on the *)
(* way out, the lowest on the way back.                                    *)

Along(g) == {k \in BeamsAt : FirstBeam(g) <= k /\ k <= LastBeam(g)}
AlongBack(g) == {k \in BeamsAt : Bottom(g) <= k /\ k <= LastBeam(g)}

LEMMA BeamEnds ==
  ASSUME NEW g \in Turns
  PROVE  /\ FirstBeam(g) \in 0 .. 46 /\ LastBeam(g) \in 0 .. 60 /\ Bottom(g) \in 1 .. 46
         /\ BeamsAt \in SUBSET (0 .. 60)
         /\ Along(g) \in SUBSET (0 .. 61) /\ AlongBack(g) \in SUBSET (0 .. 61)
<1>1. FirstBeam(g) \in 0 .. 46 /\ LastBeam(g) \in 0 .. 60 /\ Bottom(g) \in 1 .. 46
  BY DEF FirstBeam, LastBeam, Bottom
<1>2. BeamsAt \in SUBSET (0 .. 60)
  BY DEF BeamsAt, Beam
<1>3. \A k \in 0 .. 60 : k \in 0 .. 61
  OBVIOUS
<1> QED BY <1>1, <1>2, <1>3 DEF Along, AlongBack

LEMMA OutOwner ==
  ASSUME NEW g \in Turns
  PROVE  \E m \in {15, 16} :
           /\ Sectors(g, Out(g), m)
           /\ \A n \in 1 .. m : BeamOf(g, Out(g)[n]) \in 0 .. 60
           /\ Hits(g, Out(g)) = {} <=> Along(g) = {}
           /\ Hits(g, Out(g)) # {} =>
                /\ Max(Hits(g, Out(g))) \in 1 .. m
                /\ BeamOf(g, Out(g)[Max(Hits(g, Out(g)))]) = Max(Along(g))
<1>1. PICK m \in {15, 16} : /\ Sectors(g, Out(g), m) /\ m = LastBeam(g) - FirstBeam(g) + 1
                            /\ \A n \in 1 .. m : BeamOf(g, Out(g)[n]) = FirstBeam(g) + n - 1
  BY OutTurns
<1> DEFINE H == Hits(g, Out(g))
           S == Along(g)
           f == FirstBeam(g)
<1>2. f \in Nat /\ LastBeam(g) \in 0 .. 60 /\ LastBeam(g) = f + m - 1 /\ S \in SUBSET (0 .. 61)
  BY <1>1, BeamEnds
<1>3. \A n : n \in H <=> n \in 1 .. m /\ f + n - 1 \in BeamsAt
  BY <1>1 DEF Hits, Sectors
<1>4. \A k : k \in S <=> k \in BeamsAt /\ f <= k /\ k <= f + m - 1
  BY <1>2 DEF Along
<1>5. \A n \in H : n \in 1 .. m /\ f + n - 1 \in S
  BY <1>2, <1>3, <1>4
<1>6. \A k \in S : k \in 0 .. 61 /\ k - f + 1 \in H
  <2> SUFFICES ASSUME NEW k \in S PROVE k \in 0 .. 61 /\ k - f + 1 \in H
    OBVIOUS
  <2>1. k \in 0 .. 61 /\ k \in BeamsAt /\ f <= k /\ k <= f + m - 1
    BY <1>2, <1>4
  <2>2. k - f + 1 \in 1 .. m /\ f + (k - f + 1) - 1 = k
    BY <2>1, <1>2
  <2> QED BY <2>1, <2>2, <1>3
<1>7. \A n \in 1 .. m : BeamOf(g, Out(g)[n]) = f + n - 1 /\ f + n - 1 \in 0 .. 60
  BY <1>1, <1>2
<1>8. H \in SUBSET (0 .. 61)
  BY <1>5
<1>9. ASSUME H # {} PROVE Max(H) \in 1 .. m /\ f + Max(H) - 1 = Max(S)
  <2>1. S # {}
    BY <1>5, <1>9
  <2>2. Max(H) \in H /\ \A n \in H : n <= Max(H)
    BY <1>8, <1>9, Highest
  <2>3. Max(S) \in S /\ \A k \in S : k <= Max(S)
    BY <1>2, <2>1, Highest
  <2>4. f + Max(H) - 1 <= Max(S) /\ Max(H) \in 1 .. m
    BY <2>2, <2>3, <1>5
  <2>5. Max(S) - f + 1 <= Max(H) /\ Max(S) \in 0 .. 61
    BY <2>2, <2>3, <1>6
  <2> QED BY <2>4, <2>5, <1>2
<1>10. H = {} <=> S = {}
  BY <1>5, <1>6
<1> HIDE DEF H, S, f
<1>11. \A n \in 1 .. m : BeamOf(g, Out(g)[n]) \in 0 .. 60
  BY <1>7
<1>12. H # {} => Max(H) \in 1 .. m /\ BeamOf(g, Out(g)[Max(H)]) = Max(S)
  BY <1>7, <1>9
<1> QED BY <1>1, <1>10, <1>11, <1>12 DEF H, S

LEMMA BackOwner ==
  ASSUME NEW g \in Turns, Y >= 1 \/ Right(g) \/ ~Flat(g)
  PROVE  \E m \in {15, 16} :
           /\ Sectors(g, Back(g), m)
           /\ \A n \in 1 .. m : BeamOf(g, Back(g)[n]) \in 0 .. 61
           /\ Hits(g, Back(g)) = {} <=> AlongBack(g) = {}
           /\ Hits(g, Back(g)) # {} =>
                /\ Max(Hits(g, Back(g))) \in 1 .. m
                /\ BeamOf(g, Back(g)[Max(Hits(g, Back(g)))]) = Min(AlongBack(g))
<1>1. PICK m \in {15, 16} :
        /\ Sectors(g, Back(g), m)
        /\ Bottom(g) + m - 1 \in {LastBeam(g), 61} /\ LastBeam(g) <= Bottom(g) + m - 1
        /\ \A n \in 1 .. m : BeamOf(g, Back(g)[n]) = Bottom(g) + m - n
  BY BackTurns
<1> DEFINE H == Hits(g, Back(g))
           S == AlongBack(g)
           b == Bottom(g)
<1>2. /\ b \in Nat /\ LastBeam(g) \in 0 .. 60 /\ S \in SUBSET (0 .. 61) /\ b + m - 1 <= 61
      /\ LastBeam(g) <= b + m - 1 /\ BeamsAt \in SUBSET (0 .. 60)
      /\ b + m - 1 = LastBeam(g) \/ b + m - 1 = 61
  BY <1>1, BeamEnds
<1>3. \A n : n \in H <=> n \in 1 .. m /\ b + m - n \in BeamsAt
  BY <1>1 DEF Hits, Sectors
<1>4. \A k : k \in S <=> k \in BeamsAt /\ b <= k /\ k <= LastBeam(g)
  BY DEF AlongBack
<1>5. \A n \in H : n \in 1 .. m /\ b + m - n \in S
  <2> SUFFICES ASSUME NEW n \in H PROVE n \in 1 .. m /\ b + m - n \in S
    OBVIOUS
  <2>1. n \in 1 .. m /\ b + m - n \in BeamsAt /\ b + m - n \in 0 .. 60
    BY <1>2, <1>3
  <2>2. b <= b + m - n
    BY <2>1, <1>2
  <2>3. LastBeam(g) # 60 => b + m - 1 = LastBeam(g)
    BY <1>1, <1>2, BeamEnds DEF LastBeam, Bottom, FirstBeam
  <2>4. b + m - n <= LastBeam(g)
    BY <2>1, <2>3, <1>2
  <2> QED BY <2>1, <2>2, <2>4, <1>4
<1>6. \A k \in S : k \in 0 .. 61 /\ b + m - k \in H
  <2> SUFFICES ASSUME NEW k \in S PROVE k \in 0 .. 61 /\ b + m - k \in H
    OBVIOUS
  <2>1. k \in 0 .. 61 /\ k \in BeamsAt /\ b <= k /\ k <= b + m - 1
    BY <1>2, <1>4
  <2>2. b + m - k \in 1 .. m /\ b + m - (b + m - k) = k
    BY <2>1, <1>2
  <2> QED BY <2>1, <2>2, <1>3
<1>7. \A n \in 1 .. m : BeamOf(g, Back(g)[n]) = b + m - n /\ b + m - n \in 0 .. 61
  BY <1>1, <1>2
<1>8. H \in SUBSET (0 .. 61)
  BY <1>5
<1>9. ASSUME H # {} PROVE Max(H) \in 1 .. m /\ b + m - Max(H) = Min(S)
  <2>1. S # {}
    BY <1>5, <1>9
  <2>2. Max(H) \in H /\ \A n \in H : n <= Max(H)
    BY <1>8, <1>9, Highest
  <2>3. Min(S) \in S /\ \A k \in S : Min(S) <= k
    BY <1>2, <2>1, Highest
  <2>4. Min(S) <= b + m - Max(H) /\ Max(H) \in 1 .. m
    BY <2>2, <2>3, <1>5
  <2>5. b + m - Min(S) <= Max(H) /\ Min(S) \in 0 .. 61
    BY <2>2, <2>3, <1>6
  <2>6. b \in Nat /\ m \in Nat /\ Max(H) \in Nat /\ Min(S) \in Nat
    BY <2>4, <2>5, <1>2
  <2> HIDE DEF b, H, S
  <2> QED BY ONLY <2>4, <2>5, <2>6
<1>10. H = {} <=> S = {}
  BY <1>5, <1>6
<1> HIDE DEF H, S, b
<1>11. \A n \in 1 .. m : BeamOf(g, Back(g)[n]) \in 0 .. 61
  BY <1>7
<1>12. H # {} => Max(H) \in 1 .. m /\ BeamOf(g, Back(g)[Max(H)]) = Min(S)
  BY <1>7, <1>9
<1> QED BY <1>1, <1>10, <1>11, <1>12 DEF H, S
LEMMA Named ==
  ASSUME NEW g \in Turns
  PROVE  /\ (g = "right flat") <=> Right(g) /\ Flat(g)
         /\ Lowest(g) = IF Right(g) /\ Flat(g) THEN 0 ELSE 1
<1>1. (g = "right flat") <=> Right(g) /\ Flat(g)
  BY Sides DEF Turns
<1> QED BY <1>1 DEF Lowest

(* Every pixel of the disc is at a beam, and at one that is not beam 0. *)
LEMMA Reached ==
  ASSUME AtPixel, InDisc, X # 0 PROVE \E k \in BeamsAt : k >= 1
<1>1. /\ Short \in 0 .. 500 /\ Long \in 1 .. 500 /\ Short <= Long /\ Short * 10000 \in Nat
  BY Squares DEF Short, Long, AtPixel
<1> DEFINE s == (Short * 10000) \div Long
<1>2. \A c \in Nat : /\ s \in Nat
                     /\ (c <= s) <=> (c * Long <= Short * 10000)
                     /\ (s <= c) <=> (Short * 10000 < (c + 1) * Long)
  <2>1. Long \in Nat \ {0} /\ Short * 10000 \in Nat
    BY <1>1
  <2> QED BY ONLY <2>1, Quotient
<1>3. s \in Nat /\ s <= 10000
  <2>1. Short * 10000 < (10000 + 1) * Long
    BY <1>1
  <2> QED BY <2>1, <1>2
<1> HIDE DEF s
<1>4. PICK n \in 1 .. 15 : Tan(n - 1) <= s /\ s <= Tan(n)
  BY <1>3, NoGap
<1>5. Tan(n) \in Nat /\ Tan(n - 1) \in Nat
  <2>1. n \in 0 .. 15 /\ n - 1 \in 0 .. 15
    OBVIOUS
  <2> QED BY <2>1, Bounded
<1>6. Tan(n - 1) * Long <= Short * 10000 /\ Short * 10000 < (Tan(n) + 1) * Long
  BY <1>2, <1>4, <1>5
<1>7. Short * 10000 >= Tan(n - 1) * Long
  BY <1>1, <1>5, <1>6
<1>8. Y \in Nat /\ Away \in Nat
  BY Squares DEF AtPixel
<1>9. CASE X > 0 /\ Y <= Away
  <2>1. n \in BeamsAt
    BY <1>9, <1>6, <1>7 DEF BeamsAt, Beam
  <2> QED BY <2>1
<1>10. CASE X > 0 /\ ~(Y <= Away)
  <2>1. 31 - n \in 16 .. 30 /\ 31 - (31 - n) = n
    OBVIOUS
  <2>2. 31 - n \in BeamsAt
    BY <2>1, <1>10, <1>6, <1>7, <1>8 DEF BeamsAt, Beam
  <2> QED BY <2>1, <2>2
<1>11. CASE ~(X > 0) /\ Y <= Away
  <2>1. 61 - n \in 46 .. 60 /\ 61 - (61 - n) = n
    OBVIOUS
  <2>2. 61 - n \in BeamsAt
    BY <2>1, <1>11, <1>6, <1>7 DEF BeamsAt, Beam
  <2> QED BY <2>1, <2>2
<1>12. CASE ~(X > 0) /\ ~(Y <= Away)
  <2>1. 30 + n \in 31 .. 45 /\ 61 - (30 + n) \in 16 .. 30 /\ 31 - (61 - (30 + n)) = n
    OBVIOUS
  <2>2. 30 + n \in BeamsAt
    BY <2>1, <1>12, <1>6, <1>7, <1>8 DEF BeamsAt, Beam
  <2> QED BY <2>1, <2>2
<1> QED BY <1>9, <1>10, <1>11, <1>12

(* A group that is not the pixel's has none of its beams. *)
LEMMA Elsewhere ==
  ASSUME AtPixel, X # 0, NEW g \in Turns,
         \/ Right(g) /\ ~(X > 0)
         \/ ~Right(g) /\ X > 0
         \/ Y = 0 /\ ~Flat(g)
  PROVE  Along(g) = {} /\ AlongBack(g) = {}
<1>1. \A k \in BeamsAt : k \in 0 .. 60 /\ (k <= 30 <=> X > 0)
  BY DEF BeamsAt, Beam
<1>2. Away > 0 /\ Away \in Nat
  BY Squares
<1>3. \A k \in BeamsAt : Y = 0 => k <= 15 \/ k >= 46
  BY <1>2 DEF BeamsAt, Beam
<1>4. \A k \in BeamsAt : /\ ~(FirstBeam(g) <= k /\ k <= LastBeam(g))
                          /\ ~(Bottom(g) <= k /\ k <= LastBeam(g))
  BY <1>1, <1>3 DEF FirstBeam, LastBeam, Bottom
<1> QED BY <1>4 DEF Along, AlongBack

LEMMA NoGroup ==
  ASSUME AtPixel, Swept, X # 0, NEW g \in Turns, ~InGroup(g, Lowest(g))
  PROVE  Along(g) = {} /\ AlongBack(g) = {}
<1>1. X <= 500 /\ Y <= 499 /\ Y \in Nat /\ X \in Int /\ (Y = 0 => X >= 0)
  BY Squares DEF Swept, AtPixel
<1>2. CASE \/ Right(g) /\ ~(X > 0)
           \/ ~Right(g) /\ X > 0
           \/ Y = 0 /\ ~Flat(g)
  BY <1>2, Elsewhere
<1>3. CASE ~(\/ Right(g) /\ ~(X > 0)
             \/ ~Right(g) /\ X > 0
             \/ Y = 0 /\ ~Flat(g))
  <2>1. Lowest(g) = IF Right(g) /\ Flat(g) THEN 0 ELSE 1
    BY Named
  <2>2. X # 0
    OBVIOUS
  <2>3. InGroup(g, Lowest(g))
    <3>1. Y \in Lowest(g) .. 499
      BY <1>1, <1>3, <2>1
    <3>2. IF Right(g) THEN X \in 1 .. 500 ELSE X < 0
      BY <1>1, <1>3, <2>2
    <3> QED BY <3>1, <3>2 DEF InGroup
  <2> QED BY <2>3
<1> QED BY <1>2, <1>3

LEMMA InItsGroup ==
  ASSUME AtPixel, NEW g \in Turns, InGroup(g, Lowest(g))
  PROVE  Beside(g) /\ (Y >= 1 \/ Right(g)) /\ X # 0
<1>1. Lowest(g) = IF Right(g) /\ Flat(g) THEN 0 ELSE 1
  BY Named
<1>2. X \in Int /\ Y \in Nat
  BY DEF AtPixel
<1>3. Y >= Lowest(g) /\ IF Right(g) THEN X \in 1 .. 500 ELSE X < 0
  BY <1>2 DEF InGroup
<1>4. (Right(g) <=> X > 0) /\ X # 0
  BY <1>2, <1>3
<1>5. (Y >= 1 \/ Flat(g)) /\ (Y >= 1 \/ Right(g))
  BY <1>1, <1>2, <1>3
<1> QED BY <1>4, <1>5 DEF Beside
(* What a loop of the client leaves on a pixel that it reaches. *)
Leaves(painted, scene, S, owner) ==
  /\ S # {} => painted = Shows(ring, warn, scene[owner])
  /\ S = {} => painted = colour \/ \A d : painted = Shows(ring, warn, d)

LEMMA LoopPainted ==
  ASSUME AtPixel, Swept, X # 0, NEW g \in Turns, InGroup(g, Lowest(g)),
         NEW order, NEW m \in {15, 16}, Sectors(g, order, m),
         \A n \in 1 .. m : BeamOf(g, order[n]) \in 0 .. 61,
         NEW scene, \A k \in 0 .. 61 : scene[k] \in Int,
         NEW owner, NEW S,
         Hits(g, order) = {} <=> S = {},
         Hits(g, order) # {} => /\ Max(Hits(g, order)) \in 1 .. m
                                /\ BeamOf(g, order[Max(Hits(g, order))]) = owner
  PROVE  Leaves(Painted(g, order, scene), scene, S, owner)
<1> DEFINE seen == Sees(g, order, scene)
           H == Hits(g, order)
           L == Loop(g, order, ring, warn, seen, colour)
<1>1. \A n \in 1 .. m : seen[n] = scene[BeamOf(g, order[n])]
  BY DEF Sees, Sectors
<1>2. \A n \in 1 .. m : seen[n] \in Int
  BY <1>1, Zenon
<1>3. Painted(g, order, scene) = L
  BY DEF Painted
<1>4. Beside(g) /\ InDisc
  BY InItsGroup DEF Swept
<1> HIDE DEF seen
<1>5. /\ H # {} => L = Shows(ring, warn, seen[Max(H)])
      /\ H = {} => L = colour \/ \A d : L = Shows(ring, warn, d)
  BY <1>2, <1>4, LoopShows
<1> HIDE DEF H, L
<1>6. H # {} => seen[Max(H)] = scene[owner]
  BY <1>1 DEF H
<1> QED BY <1>3, <1>5, <1>6 DEF H, Leaves

LEMMA OutPainted ==
  ASSUME AtPixel, Swept, X # 0, NEW g \in Turns, NEW scene, \A k \in 0 .. 61 : scene[k] \in Int
  PROVE  Leaves(Painted(g, Out(g), scene), scene, Along(g), Max(Along(g)))
<1>1. CASE ~InGroup(g, Lowest(g))
  BY <1>1, NoGroup DEF Leaves, Painted
<1>2. CASE InGroup(g, Lowest(g))
  <2>1. PICK m \in {15, 16} :
           /\ Sectors(g, Out(g), m)
           /\ \A n \in 1 .. m : BeamOf(g, Out(g)[n]) \in 0 .. 60
           /\ Hits(g, Out(g)) = {} <=> Along(g) = {}
           /\ Hits(g, Out(g)) # {} =>
                /\ Max(Hits(g, Out(g))) \in 1 .. m
                /\ BeamOf(g, Out(g)[Max(Hits(g, Out(g)))]) = Max(Along(g))
    BY OutOwner
  <2>2. \A n \in 1 .. m : BeamOf(g, Out(g)[n]) \in 0 .. 61
    <3>1. \A k \in 0 .. 60 : k \in 0 .. 61
      OBVIOUS
    <3> QED BY <2>1, <3>1, Zenon
  <2> QED BY <1>2, <2>1, <2>2, LoopPainted
<1> QED BY <1>1, <1>2

LEMMA BackPainted ==
  ASSUME AtPixel, Swept, X # 0, NEW g \in Turns, NEW scene, \A k \in 0 .. 61 : scene[k] \in Int
  PROVE  Leaves(Painted(g, Back(g), scene), scene, AlongBack(g), Min(AlongBack(g)))
<1>1. CASE ~InGroup(g, Lowest(g))
  BY <1>1, NoGroup DEF Leaves, Painted
<1>2. CASE InGroup(g, Lowest(g))
  <2>1. Y >= 1 \/ Right(g) \/ ~Flat(g)
    BY <1>2, InItsGroup
  <2>2. PICK m \in {15, 16} :
           /\ Sectors(g, Back(g), m)
           /\ \A n \in 1 .. m : BeamOf(g, Back(g)[n]) \in 0 .. 61
           /\ Hits(g, Back(g)) = {} <=> AlongBack(g) = {}
           /\ Hits(g, Back(g)) # {} =>
                /\ Max(Hits(g, Back(g))) \in 1 .. m
                /\ BeamOf(g, Back(g)[Max(Hits(g, Back(g)))]) = Min(AlongBack(g))
    BY <2>1, BackOwner
  <2> QED BY <1>2, <2>2, LoopPainted
<1> QED BY <1>1, <1>2
-----------------------------------------------------------------------------
(* Which of the beams at the pixel a way has come to. *)

OutTurn(st, g) ==
  \/ st = 4 /\ Right(g) /\ Flat(g)
  \/ st = 5 /\ Right(g) /\ ~Flat(g)
  \/ st = 7 /\ ~Right(g) /\ ~Flat(g)
  \/ st = 8 /\ ~Right(g) /\ Flat(g)
BackTurn(st, g) ==
  \/ st = 10 /\ ~Right(g) /\ Flat(g)
  \/ st = 11 /\ ~Right(g) /\ ~Flat(g)
  \/ st = 13 /\ Right(g) /\ ~Flat(g)
  \/ st = 14 /\ Right(g) /\ Flat(g)
Before(st) == IF st \in {4, 10} THEN {} ELSE PassedAt(st)

LEMMA PassedOut ==
  ASSUME NEW st, NEW g \in Turns, OutTurn(st, g)
  PROVE  /\ \A k : k \in PassedAt(st + 1) <=> k \in Before(st) \/ k \in Along(g)
         /\ \A k \in Before(st), l \in Along(g) : k < l
         /\ Before(st) \in SUBSET (0 .. 61) /\ PassedAt(st + 1) \in SUBSET (0 .. 61)
<1>1. BeamsAt \in SUBSET (0 .. 60) /\ \A k \in BeamsAt : k \in 0 .. 61
  BY DEF BeamsAt, Beam
<1>2. /\ Before(st) \in SUBSET (0 .. 61) /\ PassedAt(st + 1) \in SUBSET (0 .. 61)
  BY <1>1 DEF Before, PassedAt
<1>3. CASE st = 4 /\ Right(g) /\ Flat(g)
  <2>1. \A k : k \in Along(g) <=> k \in BeamsAt /\ 0 <= k /\ k <= 15
    BY <1>3 DEF Along, FirstBeam, LastBeam
  <2>2. \A k : k \in Before(st) <=> FALSE
    BY <1>3 DEF Before, PassedAt
  <2>3. \A k : k \in PassedAt(st + 1) <=> k \in BeamsAt /\ k <= 15
    BY <1>3 DEF PassedAt
  <2> QED BY <1>1, <1>2, <2>1, <2>2, <2>3
<1>4. CASE st = 5 /\ Right(g) /\ ~Flat(g)
  <2>1. \A k : k \in Along(g) <=> k \in BeamsAt /\ 16 <= k /\ k <= 30
    BY <1>4 DEF Along, FirstBeam, LastBeam
  <2>2. \A k : k \in Before(st) <=> k \in BeamsAt /\ k <= 15
    BY <1>4 DEF Before, PassedAt
  <2>3. \A k : k \in PassedAt(st + 1) <=> k \in BeamsAt /\ k <= 30
    BY <1>4 DEF PassedAt
  <2> QED BY <1>1, <1>2, <2>1, <2>2, <2>3
<1>5. CASE st = 7 /\ ~Right(g) /\ ~Flat(g)
  <2>1. \A k : k \in Along(g) <=> k \in BeamsAt /\ 31 <= k /\ k <= 45
    BY <1>5 DEF Along, FirstBeam, LastBeam
  <2>2. \A k : k \in Before(st) <=> k \in BeamsAt /\ k <= 30
    BY <1>5 DEF Before, PassedAt
  <2>3. \A k : k \in PassedAt(st + 1) <=> k \in BeamsAt /\ k <= 45
    BY <1>5 DEF PassedAt
  <2> QED BY <1>1, <1>2, <2>1, <2>2, <2>3
<1>6. CASE st = 8 /\ ~Right(g) /\ Flat(g)
  <2>1. \A k : k \in Along(g) <=> k \in BeamsAt /\ 46 <= k /\ k <= 60
    BY <1>6 DEF Along, FirstBeam, LastBeam
  <2>2. \A k : k \in Before(st) <=> k \in BeamsAt /\ k <= 45
    BY <1>6 DEF Before, PassedAt
  <2>3. \A k : k \in PassedAt(st + 1) <=> k \in BeamsAt
    BY <1>6 DEF PassedAt
  <2> QED BY <1>1, <1>2, <2>1, <2>2, <2>3
<1> QED BY <1>3, <1>4, <1>5, <1>6 DEF OutTurn

LEMMA PassedBack ==
  ASSUME NEW st, NEW g \in Turns, BackTurn(st, g)
  PROVE  /\ \A k : k \in PassedAt(st + 1) <=> k \in Before(st) \/ k \in AlongBack(g)
         /\ \A k \in Before(st), l \in AlongBack(g) : l < k
         /\ Before(st) \in SUBSET (0 .. 61) /\ PassedAt(st + 1) \in SUBSET (0 .. 61)
<1>1. BeamsAt \in SUBSET (0 .. 60) /\ \A k \in BeamsAt : k \in 0 .. 61
  BY DEF BeamsAt, Beam
<1>2. /\ Before(st) \in SUBSET (0 .. 61) /\ PassedAt(st + 1) \in SUBSET (0 .. 61)
  BY <1>1 DEF Before, PassedAt
<1>3. CASE st = 10 /\ ~Right(g) /\ Flat(g)
  <2>1. \A k : k \in AlongBack(g) <=> k \in BeamsAt /\ 46 <= k /\ k <= 60
    BY <1>3 DEF AlongBack, FirstBeam, LastBeam, Bottom
  <2>2. \A k : k \in Before(st) <=> FALSE
    BY <1>3 DEF Before, PassedAt
  <2>3. \A k : k \in PassedAt(st + 1) <=> k \in BeamsAt /\ k >= 46
    BY <1>3 DEF PassedAt
  <2> QED BY <1>1, <1>2, <2>1, <2>2, <2>3
<1>4. CASE st = 11 /\ ~Right(g) /\ ~Flat(g)
  <2>1. \A k : k \in AlongBack(g) <=> k \in BeamsAt /\ 31 <= k /\ k <= 45
    BY <1>4 DEF AlongBack, FirstBeam, LastBeam, Bottom
  <2>2. \A k : k \in Before(st) <=> k \in BeamsAt /\ k >= 46
    BY <1>4 DEF Before, PassedAt
  <2>3. \A k : k \in PassedAt(st + 1) <=> k \in BeamsAt /\ k >= 31
    BY <1>4 DEF PassedAt
  <2> QED BY <1>1, <1>2, <2>1, <2>2, <2>3
<1>5. CASE st = 13 /\ Right(g) /\ ~Flat(g)
  <2>1. \A k : k \in AlongBack(g) <=> k \in BeamsAt /\ 16 <= k /\ k <= 30
    BY <1>5 DEF AlongBack, FirstBeam, LastBeam, Bottom
  <2>2. \A k : k \in Before(st) <=> k \in BeamsAt /\ k >= 31
    BY <1>5 DEF Before, PassedAt
  <2>3. \A k : k \in PassedAt(st + 1) <=> k \in BeamsAt /\ k >= 16
    BY <1>5 DEF PassedAt
  <2> QED BY <1>1, <1>2, <2>1, <2>2, <2>3
<1>6. CASE st = 14 /\ Right(g) /\ Flat(g)
  <2>1. \A k : k \in AlongBack(g) <=> k \in BeamsAt /\ 1 <= k /\ k <= 15
    BY <1>6 DEF AlongBack, FirstBeam, LastBeam, Bottom
  <2>2. \A k : k \in Before(st) <=> k \in BeamsAt /\ k >= 16
    BY <1>6 DEF Before, PassedAt
  <2>3. \A k : k \in PassedAt(st + 1) <=> k \in BeamsAt /\ k >= 1
    BY <1>6 DEF PassedAt
  <2> QED BY <1>1, <1>2, <2>1, <2>2, <2>3
<1> QED BY <1>3, <1>4, <1>5, <1>6 DEF BackTurn

(* A group with none of the pixel's beams leaves the owner, another one    *)
(* gives it a new one.                                                     *)
LEMMA OwnerOut ==
  ASSUME NEW st, NEW g \in Turns, OutTurn(st, g)
  PROVE  /\ Along(g) = {} => PassedAt(st + 1) = Before(st)
         /\ Along(g) # {} => OwnerAt(st + 1) = Max(Along(g))
         /\ st # 4 => st <= 10 /\ st + 1 <= 10 /\ Before(st) = PassedAt(st)
<1>1. /\ \A k : k \in PassedAt(st + 1) <=> k \in Before(st) \/ k \in Along(g)
      /\ \A k \in Before(st), l \in Along(g) : k < l
      /\ Before(st) \in SUBSET (0 .. 61) /\ PassedAt(st + 1) \in SUBSET (0 .. 61)
  BY PassedOut
<1>2. Along(g) = {} => PassedAt(st + 1) = Before(st)
  <2> SUFFICES ASSUME Along(g) = {} PROVE PassedAt(st + 1) = Before(st)
    OBVIOUS
  <2>1. \A k : k \in PassedAt(st + 1) <=> k \in Before(st)
    BY <1>1
  <2> QED BY <2>1
<1>3. ASSUME Along(g) # {} PROVE Max(PassedAt(st + 1)) = Max(Along(g))
  <2>1. Max(Along(g)) \in Along(g) /\ Along(g) \in SUBSET (0 .. 61)
        /\ \A k \in Along(g) : k <= Max(Along(g))
    BY <1>3, BeamEnds, Highest
  <2>2. PassedAt(st + 1) # {}
    BY <1>1, <2>1
  <2>3. Max(PassedAt(st + 1)) \in PassedAt(st + 1)
        /\ \A k \in PassedAt(st + 1) : k <= Max(PassedAt(st + 1))
    BY <1>1, <2>2, Highest
  <2>4. Max(Along(g)) <= Max(PassedAt(st + 1)) /\ Max(PassedAt(st + 1)) \in 0 .. 61
        /\ Max(Along(g)) \in 0 .. 61
    BY <1>1, <2>1, <2>3
  <2>5. Max(PassedAt(st + 1)) \notin Before(st)
    BY <1>1, <2>1, <2>4
  <2> QED BY <1>1, <2>1, <2>3, <2>4, <2>5
<1>4. st \in {4, 5, 7, 8}
  BY DEF OutTurn
<1> QED BY <1>2, <1>3, <1>4 DEF OwnerAt, Before

LEMMA OwnerBack ==
  ASSUME NEW st, NEW g \in Turns, BackTurn(st, g)
  PROVE  /\ AlongBack(g) = {} => PassedAt(st + 1) = Before(st)
         /\ AlongBack(g) # {} => OwnerAt(st + 1) = Min(AlongBack(g))
         /\ st # 10 => ~(st <= 10) /\ ~(st + 1 <= 10) /\ Before(st) = PassedAt(st)
<1>1. /\ \A k : k \in PassedAt(st + 1) <=> k \in Before(st) \/ k \in AlongBack(g)
      /\ \A k \in Before(st), l \in AlongBack(g) : l < k
      /\ Before(st) \in SUBSET (0 .. 61) /\ PassedAt(st + 1) \in SUBSET (0 .. 61)
  BY PassedBack
<1>2. AlongBack(g) = {} => PassedAt(st + 1) = Before(st)
  <2> SUFFICES ASSUME AlongBack(g) = {} PROVE PassedAt(st + 1) = Before(st)
    OBVIOUS
  <2>1. \A k : k \in PassedAt(st + 1) <=> k \in Before(st)
    BY <1>1
  <2> QED BY <2>1
<1>3. ASSUME AlongBack(g) # {} PROVE Min(PassedAt(st + 1)) = Min(AlongBack(g))
  <2>1. Min(AlongBack(g)) \in AlongBack(g) /\ AlongBack(g) \in SUBSET (0 .. 61)
        /\ \A k \in AlongBack(g) : Min(AlongBack(g)) <= k
    BY <1>3, BeamEnds, Highest
  <2>2. PassedAt(st + 1) # {}
    BY <1>1, <2>1
  <2>3. Min(PassedAt(st + 1)) \in PassedAt(st + 1)
        /\ \A k \in PassedAt(st + 1) : Min(PassedAt(st + 1)) <= k
    BY <1>1, <2>2, Highest
  <2>4. Min(PassedAt(st + 1)) <= Min(AlongBack(g)) /\ Min(PassedAt(st + 1)) \in 0 .. 61
        /\ Min(AlongBack(g)) \in 0 .. 61
    BY <1>1, <2>1, <2>3
  <2>5. Min(PassedAt(st + 1)) \notin Before(st)
    BY <1>1, <2>1, <2>4
  <2> QED BY <1>1, <2>1, <2>3, <2>4, <2>5
<1>4. st \in {10, 11, 13, 14}
  BY DEF BackTurn
<1> QED BY <1>2, <1>3, <1>4 DEF OwnerAt, Before
-----------------------------------------------------------------------------
(* The pixel looked at stays the same. *)

FrameShown(from, limit, bytes, s) ==
  (from \in {"live", "parsed"} /\ InDisc /\ Y <= 499) =>
    s = Shows(2 * limit, limit, bytes[Max(BeamsAt)] - 1)

LEMMA Still ==
  ASSUME pixel' = pixel
  PROVE  /\ X' = X /\ Y' = Y /\ Square' = Square /\ (InDisc' <=> InDisc) /\ (Swept' <=> Swept)
         /\ Shown' <=> ShownAt(step', ring', warn', sight', colour')
         /\ ServerShowsFrame' <=> FrameShown(row', warn', frame', screen')
<1>1. X' = X /\ Y' = Y
  BY DEF X, Y
<1>2. Away' = Away /\ Square' = Square
  BY <1>1 DEF Away, Square
<1>3. Short' = Short /\ Long' = Long
  BY <1>1, <1>2 DEF Short, Long
<1>4. (InDisc' <=> InDisc) /\ (OnCircle' <=> OnCircle)
  BY <1>2 DEF InDisc, Within, OnCircle, Between
<1>5. OnLine' <=> OnLine
  BY <1>1, <1>2 DEF OnLine
<1>6. Swept' <=> Swept
  BY <1>1, <1>4 DEF Swept
<1>7. BeamsAt' = BeamsAt
  BY <1>1, <1>2, <1>3 DEF BeamsAt
<1>8. Shown' <=> ShownAt(step', ring', warn', sight', colour')
  BY <1>1, <1>2, <1>4, <1>5, <1>6, <1>7
     DEF Shown, ShownAt, Shows, OwnerAt, PassedAt, Between, Within
<1>9. ServerShowsFrame' <=> FrameShown(row', warn', frame', screen')
  BY <1>1, <1>2, <1>4, <1>5, <1>7 DEF ServerShowsFrame, FrameShown, Shows, Between, Within
<1> QED BY <1>1, <1>2, <1>4, <1>6, <1>8, <1>9
-----------------------------------------------------------------------------
(* Red is only painted within the warning distance. *)

LEMMA RedNear ==
  ASSUME AtPixel, NEW circle, NEW limit \in 10 .. 250, NEW d \in Int, d >= -1,
         \/ Shade(circle, limit, d) = "red"
         \/ Shows(circle, limit, d) = "red"
  PROVE  InDisc /\ Square < 4 * limit * limit
<1>1. Square \in Nat
  BY Squares
<1>2. Square <= 4 * d * d /\ d < limit
  <2>1. CASE Shade(circle, limit, d) = "red"
    <3>1. Within(2 * d) /\ d < limit
      BY <2>1 DEF Shade
    <3>2. (2 * d) * (2 * d) = 4 * d * d
      OBVIOUS
    <3> QED BY <3>1, <3>2 DEF Within
  <2>2. CASE Shows(circle, limit, d) = "red"
    <3>1. ~(Square > 4 * d * d) /\ d < limit
      BY <2>2 DEF Shows
    <3>2. 4 * d * d \in Int
      OBVIOUS
    <3> QED BY <1>1, <3>1, <3>2
  <2> QED BY <2>1, <2>2
<1>3. d * d <= 249 * 249 /\ d * d < limit * limit
  <2>1. CASE d = -1
    <3>1. limit * limit >= 10 * limit
      OBVIOUS
    <3> QED BY <2>1, <3>1
  <2>2. CASE d >= 0
    <3>1. d * d <= d * limit - d
      <4>1. d <= limit - 1
        BY <1>2
      <4>2. d * d <= d * (limit - 1)
        BY <2>2, <4>1
      <4> QED BY <4>2
    <3>2. d * limit <= limit * limit - limit
      <4>1. d <= limit - 1
        BY <1>2
      <4>2. limit * d <= limit * (limit - 1)
        BY <2>2, <4>1
      <4> QED BY <4>2
    <3>3. d * d <= 249 * d
      BY <1>2, <2>2
    <3> QED BY <2>2, <1>2, <3>1, <3>2, <3>3
  <2> QED BY <2>1, <2>2
<1>4. 4 * d * d = 4 * (d * d) /\ 4 * limit * limit = 4 * (limit * limit)
      /\ d * d \in Int /\ limit * limit \in Int
  OBVIOUS
<1>5. Square <= 250000 /\ Square < 4 * limit * limit
  <2> HIDE DEF Square
  <2> QED BY <1>1, <1>2, <1>3, <1>4
<1> QED BY <1>5 DEF InDisc, Within

LEMMA LoopRed ==
  ASSUME AtPixel, NEW g, NEW order, NEW m \in {15, 16}, DOMAIN order = 1 .. m,
         NEW circle, NEW limit \in 10 .. 250, NEW seen, NEW old,
         \A n \in 1 .. m : seen[n] \in Int /\ seen[n] >= -1,
         Loop(g, order, circle, limit, seen, old) = "red"
  PROVE  old = "red" \/ (InDisc /\ Square < 4 * limit * limit)
<1> DEFINE touched == {n \in DOMAIN order : Touches(g, order[n], circle, seen[n])}
<1>1. "red" = IF touched = {} THEN old ELSE Shade(circle, limit, seen[Max(touched)])
  BY DEF Loop
<1>2. touched \subseteq 1 .. m
  OBVIOUS
<1> HIDE DEF touched
<1>3. 1 .. m \subseteq 0 .. 61
  OBVIOUS
<1>4. touched \in SUBSET (0 .. 61)
  BY <1>2, <1>3, Zenon
<1>5. ASSUME touched # {} PROVE InDisc /\ Square < 4 * limit * limit
  <2>1. Max(touched) \in 1 .. m
    BY <1>2, <1>4, <1>5, Highest
  <2>2. Shade(circle, limit, seen[Max(touched)]) = "red"
    BY <1>1, <1>5
  <2> QED BY <2>1, <2>2, RedNear
<1> QED BY <1>1, <1>5
-----------------------------------------------------------------------------
(* The invariant holds at the start, and every step keeps it. *)

LEMMA CyclePlaces ==
  /\ DOMAIN Cycle = 1 .. 15
  /\ Cycle[1] = "ring" /\ Cycle[2] = "warn" /\ Cycle[3] = "clear"
  /\ Cycle[4] = "right flat" /\ Cycle[5] = "right steep" /\ Cycle[6] = "column"
  /\ Cycle[7] = "left steep" /\ Cycle[8] = "left flat" /\ Cycle[9] = "report"
  /\ Cycle[10] = "left flat" /\ Cycle[11] = "left steep" /\ Cycle[12] = "column"
  /\ Cycle[13] = "right steep" /\ Cycle[14] = "right flat" /\ Cycle[15] = "report"
BY DEF Cycle

LEMMA PlaceOf ==
  ASSUME NEW st \in 1 .. 15
  PROVE  /\ Cycle[st] = "ring" => st = 1
         /\ Cycle[st] = "warn" => st = 2
         /\ Cycle[st] = "clear" => st = 3
         /\ Cycle[st] = "column" => st \in {6, 12}
         /\ Cycle[st] = "report" => st \in {9, 15}
         /\ Cycle[st] = "right flat" => st \in {4, 14}
         /\ Cycle[st] = "right steep" => st \in {5, 13}
         /\ Cycle[st] = "left steep" => st \in {7, 11}
         /\ Cycle[st] = "left flat" => st \in {8, 10}
<1>1. st \in {1, 2, 3, 4, 5, 6, 7, 8, 9, 10, 11, 12, 13, 14, 15}
  OBVIOUS
<1> QED BY ONLY <1>1, CyclePlaces

LEMMA NonePassed == \A st \in 1 .. 4 : PassedAt(st) = {}
BY DEF PassedAt

LEMMA InvStart == PictureInit => PictureInv
<1> SUFFICES ASSUME PictureInit PROVE PictureInv
  OBVIOUS
<1>1. pixel \in Pixels /\ screen \in Old /\ step = 1 /\ ring = 0 /\ warn = 0 /\ row = "none"
      /\ sight = [k \in 0 .. 61 |-> 0] /\ r = [k \in Beam |-> 0] /\ frame = r
  BY DEF PictureInit
<1>2. PictureTypes /\ PictureArrays
  <2>1. sight \in [0 .. 61 -> 0 .. 250]
    BY <1>1
  <2>2. r \in [Beam -> Nat] /\ frame \in [Beam -> Nat]
    BY <1>1
  <2>3. PictureTypes
    BY <1>1 DEF PictureTypes
  <2> QED BY <2>1, <2>2, <2>3 DEF PictureArrays
<1>3. Shown
  BY <1>1, NonePassed DEF Shown, ShownAt
<1>4. MiddleWhite
  BY <1>1 DEF MiddleWhite
<1>5. RedInside
  <2>1. colour = "red" => InDisc
    BY DEF PictureInit, Old, Swept
  <2> QED BY <1>1, <2>1 DEF RedInside
<1>6. OnServer
  <2>1. screen = "red" => InDisc /\ X # 0
    BY <1>1 DEF Old
  <2> QED BY <1>1, <2>1 DEF OnServer, ServerShowsFrame
<1> QED BY <1>2, <1>3, <1>4, <1>5, <1>6 DEF PictureInv

(* A step that is no loop over sectors and draws nothing on the server. *)
LEMMA ServerStill ==
  ASSUME PictureInv, pixel' = pixel, step' = step + 1, screen' = screen,
         \/ row' = row /\ warn' = warn /\ frame' = frame
         \/ row' = "none"
         \/ row' = "due" /\ step \in {9, 15}
         \/ row' = row /\ step < 10
  PROVE  OnServer'
<1>1. step \in 1 .. 16 /\ OnServer
  BY DEF PictureInv, PictureTypes
<1>2. row' # "none" => step' >= 10
  BY <1>1 DEF OnServer
<1>3. screen' = "red" => InDisc' /\ X' # 0
  BY <1>1, Still DEF OnServer
<1>4. ServerShowsFrame'
  <2>1. FrameShown(row, warn, frame, screen)
    BY <1>1 DEF OnServer, ServerShowsFrame, FrameShown
  <2>2. FrameShown(row', warn', frame', screen')
    <3>1. CASE row' = row /\ warn' = warn /\ frame' = frame
      BY <2>1, <3>1
    <3>2. CASE row' \in {"none", "due"}
      BY <3>2 DEF FrameShown
    <3>3. CASE row' = row /\ step < 10
      BY <1>1, <3>3 DEF FrameShown, OnServer
    <3> QED BY <3>1, <3>2, <3>3
  <2> QED BY <2>2, Still
<1> QED BY <1>2, <1>3, <1>4 DEF OnServer

LEMMA Radii ==
  ASSUME NEW w \in Warns
  PROVE  w \in 10 .. 250 /\ 2 * w \in 0 .. 500 /\ (2 * w) \div 2 = w
         /\ \E n \in 1 .. 25 : 2 * w = 20 * n
<1>1. PICK n \in 1 .. 25 : w = 10 * n
  BY PictureAssumption
<1> QED BY <1>1

LEMMA InvReadRing == PictureInv /\ ReadRing => PictureInv'
<1> SUFFICES ASSUME PictureInv, ReadRing PROVE PictureInv'
  OBVIOUS
<1>1. /\ step = 1 /\ step' = 2 /\ pixel' = pixel /\ warn' = warn /\ sight' = sight
      /\ r' = r /\ colour' = colour /\ frame' = frame /\ screen' = screen /\ row' = row
  <2>1. step \in 1 .. 15 /\ Cycle[step] = "ring" /\ step' = step + 1
    BY CyclePlaces DEF ReadRing, Does
  <2>2. step = 1
    BY <2>1, PlaceOf
  <2> QED BY <2>1, <2>2 DEF ReadRing
<1>2. PICK w \in Warns : ring' = 2 * w
  BY DEF ReadRing
<1>3. PictureTypes'
  BY <1>1, <1>2, Radii DEF PictureInv, PictureTypes
<1>4. PictureArrays'
  BY <1>1 DEF PictureInv, PictureArrays
<1>5. Shown'
  BY <1>1, NonePassed, Still DEF ShownAt
<1>6. MiddleWhite' /\ RedInside'
  BY <1>1, Still DEF MiddleWhite, RedInside, PictureInv
<1>7. OnServer'
  BY <1>1, ServerStill
<1> QED BY <1>3, <1>5, <1>6, <1>7, <1>4 DEF PictureInv

LEMMA InvReadWarn == PictureInv /\ ReadWarn => PictureInv'
<1> SUFFICES ASSUME PictureInv, ReadWarn PROVE PictureInv'
  OBVIOUS
<1>1. /\ step = 2 /\ step' = 3 /\ pixel' = pixel /\ ring' = ring /\ sight' = sight
      /\ r' = r /\ colour' = colour /\ frame' = frame /\ screen' = screen /\ row' = row
  <2>1. step \in 1 .. 15 /\ Cycle[step] = "warn" /\ step' = step + 1
    BY CyclePlaces DEF ReadWarn, Does
  <2>2. step = 2
    BY <2>1, PlaceOf
  <2> QED BY <2>1, <2>2 DEF ReadWarn
<1>2. PICK w \in Warns : ring = 2 * w
  BY <1>1 DEF PictureInv, PictureTypes
<1>3. warn' \in 10 .. 250 /\ 2 * warn' <= ring + 20 /\ warn' \in 0 .. 250
  BY <1>2, Radii DEF ReadWarn
<1>4. PictureTypes'
  <2>1. pixel \in Pixels /\ ring \in 0 .. 500 /\ ring \in {2 * v : v \in Warns}
    BY <1>1 DEF PictureInv, PictureTypes
  <2>2. pixel' \in Pixels /\ ring' \in 0 .. 500 /\ ring' \in {2 * v : v \in Warns}
    BY <2>1, <1>1
  <2>3. step' \in 1 .. 16 /\ 2 * warn' <= ring' + 20
    BY <1>1, <1>3
  <2> QED BY <2>2, <2>3, <1>3 DEF PictureTypes
<1>5. PictureArrays'
  BY <1>1 DEF PictureInv, PictureArrays
<1>6. Shown'
  BY <1>1, NonePassed, Still DEF ShownAt
<1>7. MiddleWhite' /\ RedInside'
  BY <1>1, Still DEF MiddleWhite, RedInside, PictureInv
<1>8. OnServer'
  BY <1>1, ServerStill
<1> QED BY <1>4, <1>6, <1>7, <1>8, <1>5 DEF PictureInv

LEMMA InvClear == PictureInv /\ Clear => PictureInv'
<1> SUFFICES ASSUME PictureInv, Clear PROVE PictureInv'
  OBVIOUS
<1>1. /\ step = 3 /\ step' = 4 /\ pixel' = pixel /\ ring' = ring /\ sight' = sight
      /\ warn' = warn /\ r' = r /\ colour' = Wiped /\ frame' = frame /\ screen' = screen /\ row' = row
  <2>1. step \in 1 .. 15 /\ Cycle[step] = "clear" /\ step' = step + 1
    BY CyclePlaces DEF Clear, Does
  <2>2. step = 3
    BY <2>1, PlaceOf
  <2> QED BY <2>1, <2>2 DEF Clear
<1>2. PictureTypes'
  BY <1>1 DEF PictureInv, PictureTypes
<1>3. PictureArrays'
  BY <1>1 DEF PictureInv, PictureArrays
<1>4. Shown'
  BY <1>1, NonePassed, Still DEF ShownAt
<1>5. Swept /\ X = 0 /\ Y = 499 => colour' = "white"
  <2> SUFFICES ASSUME Swept, X = 0, Y = 499 PROVE Wiped = "white"
    BY <1>1
  <2>1. Square = 249001
    BY DEF Square
  <2>2. PICK w \in Warns : ring = 2 * w
    BY <1>1 DEF PictureInv, PictureTypes
  <2>3. ring \in 0 .. 500 /\ (ring = 500 \/ ring <= 480)
    BY <2>2, Radii
  <2>4. CASE ring = 500
    BY <2>1, <2>4 DEF Wiped, Swept, Between, Within
  <2>5. CASE ring <= 480
    <3>1. (ring + 10) * (ring + 10) <= 240100
      <4>1. (ring + 10) * (ring + 10) <= 490 * (ring + 10)
        BY <2>3, <2>5
      <4> QED BY <2>3, <2>5, <4>1
    <3>2. (ring + 10) * (ring + 10) \in Int
      BY <2>3
    <3>3. ~Within(ring + 10)
      BY <2>1, <3>1, <3>2 DEF Within
    <3> QED BY <3>3 DEF Wiped, Swept, Between
  <2> QED BY <2>3, <2>4, <2>5
<1>6. MiddleWhite'
  BY <1>1, <1>5, Still DEF MiddleWhite
<1>7. colour' # "red"
  BY <1>1 DEF Wiped, PictureInv, RedInside
<1>8. RedInside'
  BY <1>7 DEF RedInside
<1>9. OnServer'
  BY <1>1, ServerStill
<1> QED BY <1>2, <1>4, <1>6, <1>8, <1>9, <1>3 DEF PictureInv
(* A step on that leaves the distances and radii. *)
LEMMA TypesKept ==
  ASSUME PictureInv, pixel' = pixel, step \in 3 .. 15, step' \in {step, step + 1},
         ring' = ring, warn' = warn
  PROVE  PictureTypes'
<1>1. /\ pixel \in Pixels /\ ring \in {2 * w : w \in Warns} /\ ring \in 0 .. 500
      /\ warn \in 0 .. 250 /\ (step > 2 => warn \in 10 .. 250 /\ 2 * warn <= ring + 20)
  BY DEF PictureInv, PictureTypes
<1>2. /\ pixel' \in Pixels /\ ring' \in {2 * w : w \in Warns} /\ ring' \in 0 .. 500
      /\ warn' \in 0 .. 250
  BY <1>1
<1>3. step' \in 1 .. 16
  OBVIOUS
<1>4. step' > 2 => warn' \in 10 .. 250 /\ 2 * warn' <= ring' + 20
  BY <1>1
<1> QED BY <1>2, <1>3, <1>4 DEF PictureTypes

LEMMA InvMiddle == PictureInv /\ Middle => PictureInv'
<1> SUFFICES ASSUME PictureInv, Middle PROVE PictureInv'
  OBVIOUS
<1>1. /\ step \in {6, 12} /\ step' = step + 1 /\ pixel' = pixel /\ ring' = ring /\ warn' = warn
      /\ sight' = sight /\ r' = r /\ frame' = frame /\ screen' = screen /\ row' = row
      /\ colour' = IF X = 0 /\ Y <= 498 THEN "white" ELSE colour
  <2>1. step \in 1 .. 15 /\ Cycle[step] = "column" /\ step' = step + 1
    BY CyclePlaces DEF Middle, Does
  <2>2. step \in {6, 12}
    BY <2>1, PlaceOf
  <2> QED BY <2>1, <2>2 DEF Middle
<1>2. PictureTypes'
  BY <1>1, TypesKept
<1>3. PictureArrays'
  BY <1>1 DEF PictureInv, PictureArrays
<1>4. PassedAt(step + 1) = PassedAt(step) /\ OwnerAt(step + 1) = OwnerAt(step)
  <2>1. PassedAt(7) = PassedAt(6) /\ PassedAt(13) = PassedAt(12)
    BY DEF PassedAt
  <2> QED BY <1>1, <2>1 DEF OwnerAt
<1>5. Shown'
  <2>1. ShownAt(step, ring, warn, sight, colour)
    BY DEF PictureInv, Shown
  <2>2. ShownAt(step + 1, ring, warn, sight, colour')
    BY <1>1, <1>4, <2>1 DEF ShownAt
  <2> QED BY <1>1, <2>2, Still
<1>6. MiddleWhite'
  <2>1. Swept => Y \in Nat /\ Y <= 499
    BY OnScreen DEF Swept, AtPixel, PictureInv, PictureTypes
  <2>2. Swept /\ X = 0 => colour' = "white"
    BY <1>1, <2>1 DEF PictureInv, MiddleWhite
  <2> QED BY <1>1, <2>2, Still DEF MiddleWhite
<1>7. RedInside'
  <2>1. colour' = "red" => colour = "red"
    BY <1>1
  <2> QED BY <1>1, <2>1, Still DEF PictureInv, RedInside
<1>8. OnServer'
  BY <1>1, ServerStill
<1> QED BY <1>2, <1>3, <1>5, <1>6, <1>7, <1>8 DEF PictureInv

LEMMA InvReport == PictureInv /\ Report => PictureInv'
<1> SUFFICES ASSUME PictureInv, Report PROVE PictureInv'
  OBVIOUS
<1>1. /\ step \in {9, 15} /\ step' = step + 1 /\ pixel' = pixel /\ ring' = ring /\ warn' = warn
      /\ sight' = sight /\ r' = r /\ screen' = screen /\ colour' = colour
      /\ \/ row' = "due" /\ frame' = [k \in Beam |-> r[k] \div 2 + 1]
         \/ row' = "none" /\ frame' = frame
  <2>1. step \in 1 .. 15 /\ Cycle[step] = "report" /\ step' = step + 1
    BY CyclePlaces DEF Report, Does
  <2>2. step \in {9, 15}
    BY <2>1, PlaceOf
  <2> QED BY <2>1, <2>2 DEF Report
<1>2. PictureTypes'
  BY <1>1, TypesKept
<1>3. PictureArrays'
  <2>1. [k \in Beam |-> r[k] \div 2 + 1] \in [Beam -> Nat]
    <3>1. \A k \in Beam : r[k] \in Nat
      BY DEF PictureInv, PictureArrays
    <3>2. \A k \in Beam : r[k] \div 2 + 1 \in Nat
      BY <3>1
    <3> QED BY <3>2
  <2>2. frame' \in [Beam -> Nat]
    BY <1>1, <2>1, Zenon DEF PictureInv, PictureArrays
  <2> QED BY <1>1, <2>2, Zenon DEF PictureInv, PictureArrays
<1>4. PassedAt(step + 1) = PassedAt(step) /\ OwnerAt(step + 1) = OwnerAt(step)
  <2>1. PassedAt(10) = PassedAt(9) /\ PassedAt(16) = PassedAt(15)
    BY DEF PassedAt
  <2> QED BY <1>1, <2>1 DEF OwnerAt
<1>5. Shown'
  <2>1. ShownAt(step, ring, warn, sight, colour)
    BY DEF PictureInv, Shown
  <2>2. ShownAt(step + 1, ring, warn, sight, colour)
    BY <1>1, <1>4, <2>1 DEF ShownAt
  <2> QED BY <1>1, <2>2, Still
<1>6. MiddleWhite' /\ RedInside'
  BY <1>1, Still DEF MiddleWhite, RedInside, PictureInv
<1>7. OnServer'
  BY <1>1, ServerStill
<1> QED BY <1>2, <1>3, <1>5, <1>6, <1>7 DEF PictureInv

(* A loop runs at its place of the cycle. *)
LEMMA TurnOf ==
  ASSUME NEW g \in Turns, Sweep(g) PROVE OutTurn(step, g) \/ BackTurn(step, g)
<1>1. step \in 1 .. 15 /\ Cycle[step] = g
  BY CyclePlaces DEF Sweep, Does
<1>2. CASE g = "right flat"
  BY <1>1, <1>2, PlaceOf, Sides DEF OutTurn, BackTurn
<1>3. CASE g = "right steep"
  BY <1>1, <1>3, PlaceOf, Sides DEF OutTurn, BackTurn
<1>4. CASE g = "left steep"
  BY <1>1, <1>4, PlaceOf, Sides DEF OutTurn, BackTurn
<1>5. CASE g = "left flat"
  BY <1>1, <1>5, PlaceOf, Sides DEF OutTurn, BackTurn
<1> QED BY <1>2, <1>3, <1>4, <1>5 DEF Turns

LEMMA InvSweep ==
  ASSUME NEW g \in Turns, PictureInv, Sweep(g) PROVE PictureInv'
<1>1. /\ step \in {4, 5, 7, 8, 10, 11, 13, 14} /\ step' = step + 1 /\ pixel' = pixel
      /\ ring' = ring /\ warn' = warn /\ frame' = frame /\ screen' = screen /\ row' = row
      /\ sight' \in (IF step \in {4, 10} THEN Scenes ELSE {sight})
  <2>1. step \in 1 .. 15 /\ Cycle[step] = g /\ step' = step + 1
    BY CyclePlaces DEF Sweep, Does
  <2>2. step \in {4, 5, 7, 8, 10, 11, 13, 14}
    BY <2>1, PlaceOf DEF Turns
  <2> QED BY <2>1, <2>2 DEF Sweep
<1>2. OutTurn(step, g) \/ BackTurn(step, g)
  BY TurnOf
<1> DEFINE order == IF Outward THEN Out(g) ELSE Back(g)
<1>3. /\ colour' = Painted(g, order, sight') /\ r' = Stored(g, order, sight')
  BY DEF Sweep
<1>4. PictureTypes'
  BY <1>1, TypesKept
<1>5. sight' \in [0 .. 61 -> 0 .. 250]
  BY <1>1, PictureAssumption DEF PictureInv, PictureArrays
<1>6. \A k \in 0 .. 61 : sight'[k] \in 0 .. 250
  BY <1>5, Zenon
<1>7. /\ OutTurn(step, g) => order = Out(g)
      /\ BackTurn(step, g) => order = Back(g)
  BY <1>1 DEF OutTurn, BackTurn, Outward
<1>8. PICK m \in {15, 16} :
        DOMAIN order = 1 .. m /\ \A n \in 1 .. m : BeamOf(g, order[n]) \in 0 .. 61
  <2>1. CASE OutTurn(step, g)
    <3>1. PICK m \in {15, 16} : /\ Sectors(g, Out(g), m)
                               /\ \A n \in 1 .. m : BeamOf(g, Out(g)[n]) \in 0 .. 60
      BY OutOwner
    <3>2. \A k \in 0 .. 60 : k \in 0 .. 61
      BY ONLY TRUE
    <3> HIDE DEF order
    <3> QED BY <1>7, <2>1, <3>1, <3>2, Zenon DEF Sectors
  <2>2. CASE BackTurn(step, g)
    <3>1. PICK m \in {15, 16} :
            /\ DOMAIN Back(g) = 1 .. m
            /\ Bottom(g) + m - 1 \in {LastBeam(g), 61}
            /\ \A n \in 1 .. m : BeamOf(g, Back(g)[n]) = Bottom(g) + m - n
      BY BackTurns
    <3>2. Bottom(g) \in Nat /\ Bottom(g) + m - 1 <= 61
      <4>1. Bottom(g) \in 1 .. 46 /\ LastBeam(g) \in 0 .. 60
        BY BeamEnds
      <4>2. Bottom(g) + m - 1 = LastBeam(g) \/ Bottom(g) + m - 1 = 61
        BY <3>1
      <4> QED BY ONLY <4>1, <4>2
    <3>3. \A n \in 1 .. m : Bottom(g) + m - n \in 0 .. 61
      BY ONLY <3>2, m \in {15, 16}
    <3> HIDE DEF order
    <3>4. \A n \in 1 .. m : BeamOf(g, Back(g)[n]) \in 0 .. 61
      BY <3>1, <3>3
    <3> QED BY <1>7, <2>2, <3>1, <3>4, Zenon
  <2> HIDE DEF order
  <2> QED BY <1>2, <2>1, <2>2
<1>9. \A n \in 1 .. m : Sees(g, order, sight')[n] \in 0 .. 250
  <2> HIDE DEF order
  <2>1. \A n \in 1 .. m : Sees(g, order, sight')[n] = sight'[BeamOf(g, order[n])]
    BY <1>8 DEF Sees
  <2> QED BY <1>6, <1>8, <2>1, Zenon
<1> HIDE DEF order
<1>10. r' \in [Beam -> Nat]
  <2> DEFINE at(k) == {n \in DOMAIN order :
                         k = IF Outward THEN BeamOf(g, order[n]) ELSE BackPlace(g, order[n])}
  <2>1. r' = [k \in Beam |-> IF at(k) = {} THEN r[k]
                            ELSE 2 * Sees(g, order, sight')[Max(at(k))]]
    BY <1>3 DEF Stored
  <2>2. \A k : at(k) \subseteq 1 .. m
    BY <1>8
  <2>3. \A k \in Beam : r[k] \in Nat
    BY DEF PictureInv, PictureArrays
  <2> HIDE DEF at
  <2>4. ASSUME NEW k, at(k) # {} PROVE 2 * Sees(g, order, sight')[Max(at(k))] \in Nat
    <3>1. 1 .. m \subseteq 0 .. 61
      BY ONLY m \in {15, 16}
    <3>2. at(k) \in SUBSET (0 .. 61)
      BY <2>2, <3>1, Zenon
    <3>3. Max(at(k)) \in 1 .. m
      BY <2>2, <2>4, <3>2, Highest
    <3>4. Sees(g, order, sight')[Max(at(k))] \in 0 .. 250
      BY <1>9, <3>3
    <3> QED BY ONLY <3>4
  <2>5. \A k \in Beam : (IF at(k) = {} THEN r[k]
                         ELSE 2 * Sees(g, order, sight')[Max(at(k))]) \in Nat
    BY <2>3, <2>4
  <2> QED BY <2>1, <2>5, Zenon
<1>11. PictureArrays'
  BY <1>1, <1>5, <1>10, Zenon DEF PictureInv, PictureArrays
<1>12. Shown'
  <2> SUFFICES ASSUME Swept, X # 0, PassedAt(step + 1) # {}
               PROVE  colour' = Shows(ring, warn, sight'[OwnerAt(step + 1)])
    BY <1>1, Still DEF ShownAt
  <2>1. AtPixel
    BY OnScreen DEF PictureInv, PictureTypes
  <2>2. \A k \in 0 .. 61 : sight'[k] \in Int
    <3>1. \A d \in 0 .. 250 : d \in Int
      BY ONLY TRUE
    <3> QED BY <1>6, <3>1, Zenon
  <2>3. Before(step) # {} => /\ sight' = sight
                            /\ colour = Shows(ring, warn, sight[OwnerAt(step)])
    <3> SUFFICES ASSUME Before(step) # {}
                 PROVE  sight' = sight /\ colour = Shows(ring, warn, sight[OwnerAt(step)])
      OBVIOUS
    <3>1. step \notin {4, 10} /\ PassedAt(step) # {}
      BY DEF Before
    <3> QED BY <1>1, <3>1 DEF PictureInv, Shown, ShownAt
  <2>4. CASE OutTurn(step, g)
    <3>1. Leaves(Painted(g, Out(g), sight'), sight', Along(g), Max(Along(g)))
      BY <2>1, <2>2, OutPainted
    <3>2. colour' = Painted(g, Out(g), sight')
      BY <1>3, <1>7, <2>4
    <3>3. CASE Along(g) # {}
      BY <2>4, <3>1, <3>2, <3>3, OwnerOut DEF Leaves
    <3>4. CASE Along(g) = {}
      <4>1. PassedAt(step + 1) = Before(step) /\ step # 4
        BY <2>4, <3>4, OwnerOut DEF Before
      <4>2. OwnerAt(step + 1) = OwnerAt(step)
        BY <2>4, <4>1, OwnerOut DEF OwnerAt
      <4> QED BY <2>3, <3>1, <3>2, <3>4, <4>1, <4>2 DEF Leaves
    <3> QED BY <3>3, <3>4
  <2>5. CASE BackTurn(step, g)
    <3>1. Leaves(Painted(g, Back(g), sight'), sight', AlongBack(g), Min(AlongBack(g)))
      BY <2>1, <2>2, BackPainted
    <3>2. colour' = Painted(g, Back(g), sight')
      BY <1>3, <1>7, <2>5
    <3>3. CASE AlongBack(g) # {}
      BY <2>5, <3>1, <3>2, <3>3, OwnerBack DEF Leaves
    <3>4. CASE AlongBack(g) = {}
      <4>1. PassedAt(step + 1) = Before(step) /\ step # 10
        BY <2>5, <3>4, OwnerBack DEF Before
      <4>2. OwnerAt(step + 1) = OwnerAt(step)
        BY <2>5, <4>1, OwnerBack DEF OwnerAt
      <4> QED BY <2>3, <3>1, <3>2, <3>4, <4>1, <4>2 DEF Leaves
    <3> QED BY <3>3, <3>4
  <2> QED BY <1>2, <2>4, <2>5
<1>13. MiddleWhite'
  <2>1. X = 0 => colour' = colour
    <3>1. X = 0 => ~InGroup(g, Lowest(g))
      BY DEF InGroup
    <3> QED BY <1>3, <3>1 DEF Painted
  <2>2. step' > 6 => step > 6
    BY <1>1
  <2> QED BY <1>1, <2>1, <2>2, Still DEF PictureInv, MiddleWhite
<1>14. RedInside'
  <2>1. AtPixel
    BY OnScreen DEF PictureInv, PictureTypes
  <2>2. warn \in 10 .. 250 /\ 2 * warn <= ring + 20 /\ ring \in Nat
    BY <1>1 DEF PictureInv, PictureTypes
  <2>3. \A n \in 1 .. m : Sees(g, order, sight')[n] \in Int /\ Sees(g, order, sight')[n] >= -1
    <3>1. \A d \in 0 .. 250 : d \in Int /\ d >= -1
      BY ONLY TRUE
    <3> QED BY <1>9, <3>1, Zenon
  <2>4. colour' = "red" => colour = "red" \/ (InDisc /\ Square < 4 * warn * warn)
    <3>1. CASE ~InGroup(g, Lowest(g))
      BY <1>3, <3>1 DEF Painted
    <3>2. CASE InGroup(g, Lowest(g))
      <4>1. colour' = Loop(g, order, ring, warn, Sees(g, order, sight'), colour)
        BY <1>3, <3>2 DEF Painted
      <4> QED BY <1>8, <2>1, <2>2, <2>3, <4>1, LoopRed
    <3> QED BY <3>1, <3>2
  <2>5. 4 * warn * warn <= (ring + 20) * (ring + 20)
    <3>1. (2 * warn) * (2 * warn) <= (2 * warn) * (ring + 20)
      BY <2>2
    <3>2. (2 * warn) * (ring + 20) <= (ring + 20) * (ring + 20)
      BY <2>2
    <3>3. (2 * warn) * (2 * warn) = 4 * warn * warn
      BY <2>2
    <3>4. /\ (2 * warn) * (2 * warn) \in Int /\ (2 * warn) * (ring + 20) \in Int
          /\ (ring + 20) * (ring + 20) \in Int
      BY <2>2
    <3> QED BY <3>1, <3>2, <3>3, <3>4
  <2>6. colour' = "red" => InDisc /\ Square < (ring + 20) * (ring + 20)
    <3>1. /\ Square \in Int /\ 4 * warn * warn \in Int /\ (ring + 20) * (ring + 20) \in Int
      BY <2>1, <2>2, Squares
    <3>2. colour = "red" => InDisc /\ Square < (ring + 20) * (ring + 20)
      BY <1>1 DEF PictureInv, RedInside
    <3> QED BY <2>4, <2>5, <3>1, <3>2
  <2> QED BY <1>1, <2>6, Still DEF RedInside
<1>15. OnServer'
  BY <1>1, ServerStill
<1> QED BY <1>4, <1>11, <1>12, <1>13, <1>14, <1>15 DEF PictureInv
-----------------------------------------------------------------------------
(* The server. *)

(* A group of make_radar shows the highest of its beams at the pixel.      *)
LEMMA GroupShows ==
  ASSUME AtPixel, InDisc, X # 0, NEW g \in Turns, NEW limit, NEW bytes, NEW old,
         \A k \in 0 .. 60 : bytes[k] \in Int
  PROVE  /\ Along(g) # {} =>
              Group(g, limit, bytes, old) = Shows(2 * limit, limit, bytes[Max(Along(g))] - 1)
         /\ Along(g) = {} =>
              \/ Group(g, limit, bytes, old) = old
              \/ \A d : Group(g, limit, bytes, old) = Shows(2 * limit, limit, d)
<1>1. X \in Int /\ X <= 500 /\ Y \in Nat /\ Y <= 499
  BY Squares DEF AtPixel
<1>2. CASE ~InGroup(g, ServerLowest(g))
  <2>1. \/ Right(g) /\ ~(X > 0)
        \/ ~Right(g) /\ X > 0
        \/ Y = 0 /\ ~Flat(g)
    BY <1>1, <1>2 DEF InGroup, ServerLowest
  <2> QED BY <1>2, <2>1, Elsewhere DEF Group
<1>3. CASE InGroup(g, ServerLowest(g))
  <2>1. Beside(g)
    <3>1. Y >= ServerLowest(g) /\ IF Right(g) THEN X \in 1 .. 500 ELSE X < 0
      BY <1>1, <1>3 DEF InGroup
    <3> QED BY <1>1, <3>1 DEF Beside, ServerLowest
  <2>2. PICK m \in {15, 16} :
           /\ Sectors(g, Out(g), m)
           /\ \A n \in 1 .. m : BeamOf(g, Out(g)[n]) \in 0 .. 60
           /\ Hits(g, Out(g)) = {} <=> Along(g) = {}
           /\ Hits(g, Out(g)) # {} =>
                /\ Max(Hits(g, Out(g))) \in 1 .. m
                /\ BeamOf(g, Out(g)[Max(Hits(g, Out(g)))]) = Max(Along(g))
    BY OutOwner
  <2> DEFINE seen == [n \in DOMAIN Out(g) |-> bytes[BeamOf(g, Out(g)[n])] - 1]
             L == Loop(g, Out(g), 2 * limit, limit, seen, old)
             H == Hits(g, Out(g))
  <2>3. Group(g, limit, bytes, old) = L
    BY <1>3 DEF Group, OnBorder
  <2>4. DOMAIN Out(g) = 1 .. m
    BY <2>2 DEF Sectors
  <2>5. \A n \in 1 .. m : seen[n] = bytes[BeamOf(g, Out(g)[n])] - 1
    BY <2>4
  <2>6. \A n \in 1 .. m : seen[n] \in Int
    <3> HIDE DEF seen
    <3>1. \A n \in 1 .. m : bytes[BeamOf(g, Out(g)[n])] \in Int
      BY <2>2
    <3> QED BY <2>5, <3>1
  <2> HIDE DEF seen
  <2>7. /\ H # {} => L = Shows(2 * limit, limit, seen[Max(H)])
        /\ H = {} => L = old \/ \A d : L = Shows(2 * limit, limit, d)
    BY <2>1, <2>2, <2>6, LoopShows
  <2> HIDE DEF H, L
  <2>8. H # {} => seen[Max(H)] = bytes[Max(Along(g))] - 1
    BY <2>2, <2>5 DEF H
  <2> QED BY <2>2, <2>3, <2>7, <2>8 DEF H
<1> QED BY <1>2, <1>3

LEMMA GroupRed ==
  ASSUME AtPixel, NEW g \in Turns, NEW limit \in 10 .. 250, NEW bytes, NEW old,
         \A k \in 0 .. 60 : bytes[k] \in Nat,
         Group(g, limit, bytes, old) = "red"
  PROVE  old = "red" \/ (InDisc /\ X # 0)
<1>1. CASE ~InGroup(g, ServerLowest(g)) \/ OnBorder
  BY <1>1 DEF Group
<1>2. CASE InGroup(g, ServerLowest(g)) /\ ~OnBorder
  <2> DEFINE seen == [n \in DOMAIN Out(g) |-> bytes[BeamOf(g, Out(g)[n])] - 1]
  <2>1. Loop(g, Out(g), 2 * limit, limit, seen, old) = "red"
    BY <1>2 DEF Group
  <2>2. PICK m \in {15, 16} : /\ Sectors(g, Out(g), m)
                             /\ \A n \in 1 .. m : BeamOf(g, Out(g)[n]) \in 0 .. 60
    BY OutOwner
  <2>3. DOMAIN Out(g) = 1 .. m
    BY <2>2 DEF Sectors
  <2>4. \A n \in 1 .. m : seen[n] = bytes[BeamOf(g, Out(g)[n])] - 1
    BY <2>3
  <2> HIDE DEF seen
  <2>5. \A n \in 1 .. m : seen[n] \in Int /\ seen[n] >= -1
    <3>1. \A n \in 1 .. m : bytes[BeamOf(g, Out(g)[n])] \in Nat
      BY <2>2
    <3> QED BY <2>4, <3>1
  <2>6. old = "red" \/ InDisc
    BY <2>1, <2>3, <2>5, LoopRed
  <2>7. X # 0
    BY <1>2 DEF InGroup
  <2> QED BY <2>6, <2>7
<1> QED BY <1>1, <1>2

(* The highest beam at a pixel belongs to the last group that paints it,   *)
(* and is never beam 0.                                                    *)
LEMMA TopGroup ==
  ASSUME AtPixel, InDisc, X # 0
  PROVE  /\ Max(BeamsAt) \in 1 .. 60
         /\ \A g \in Turns :
              /\ FirstBeam(g) <= Max(BeamsAt) /\ Max(BeamsAt) <= LastBeam(g) =>
                   Along(g) # {} /\ Max(Along(g)) = Max(BeamsAt)
              /\ Max(BeamsAt) < FirstBeam(g) => Along(g) = {}
<1> DEFINE o == Max(BeamsAt)
<1>1. BeamsAt \in SUBSET (0 .. 61) /\ BeamsAt \in SUBSET (0 .. 60)
  BY DEF BeamsAt, Beam
<1>2. PICK k \in BeamsAt : k >= 1
  BY Reached
<1>3. o \in BeamsAt /\ \A l \in BeamsAt : l <= o
  BY <1>1, <1>2, Highest
<1> HIDE DEF o
<1>4. o \in 1 .. 60
  BY <1>1, <1>2, <1>3
<1>5. ASSUME NEW g \in Turns, FirstBeam(g) <= o, o <= LastBeam(g)
      PROVE  Along(g) # {} /\ Max(Along(g)) = o
  <2>1. o \in Along(g)
    BY <1>3, <1>5 DEF Along
  <2>2. Along(g) \in SUBSET (0 .. 61) /\ Along(g) # {}
    BY <2>1, BeamEnds
  <2>3. Max(Along(g)) \in Along(g) /\ o <= Max(Along(g)) /\ Max(Along(g)) \in 0 .. 61
    BY <2>1, <2>2, Highest
  <2>4. Max(Along(g)) <= o
    BY <1>3, <2>3 DEF Along
  <2> QED BY <1>4, <2>2, <2>3, <2>4
<1>6. ASSUME NEW g \in Turns, o < FirstBeam(g) PROVE Along(g) = {}
  <2>1. \A l \in BeamsAt : l <= o /\ l \in 0 .. 60
    BY <1>1, <1>3
  <2>2. \A l \in BeamsAt : ~(FirstBeam(g) <= l)
    BY <1>4, <1>6, <2>1, BeamEnds
  <2> QED BY <2>2 DEF Along
<1> QED BY <1>4, <1>5, <1>6 DEF o

LEMMA RadarShows ==
  ASSUME AtPixel, InDisc, X # 0, NEW limit, NEW bytes, \A k \in 0 .. 60 : bytes[k] \in Int
  PROVE  MakeRadar(limit, bytes) = Shows(2 * limit, limit, bytes[Max(BeamsAt)] - 1)
<1> DEFINE o == Max(BeamsAt)
           s == Shows(2 * limit, limit, bytes[o] - 1)
           first == Group("right flat", limit, bytes, Prepared(limit))
           second == Group("right steep", limit, bytes, first)
           third == Group("left steep", limit, bytes, second)
           fourth == Group("left flat", limit, bytes, third)
<1>1. MakeRadar(limit, bytes) = fourth
  BY DEF MakeRadar
<1>2. /\ FirstBeam("right flat") = 0 /\ LastBeam("right flat") = 15
      /\ FirstBeam("right steep") = 16 /\ LastBeam("right steep") = 30
      /\ FirstBeam("left steep") = 31 /\ LastBeam("left steep") = 45
      /\ FirstBeam("left flat") = 46 /\ LastBeam("left flat") = 60
  BY Sides DEF FirstBeam, LastBeam
<1>3. o \in 1 .. 60
  BY TopGroup
<1>4. ASSUME NEW g \in Turns, NEW old
      PROVE  /\ FirstBeam(g) <= o /\ o <= LastBeam(g) => Group(g, limit, bytes, old) = s
             /\ o < FirstBeam(g) /\ old = s => Group(g, limit, bytes, old) = s
  BY GroupShows, TopGroup
<1>5. /\ "right flat" \in Turns /\ "right steep" \in Turns
      /\ "left steep" \in Turns /\ "left flat" \in Turns
  BY DEF Turns
<1> HIDE DEF o, s
<1>6. o <= 15 => first = s
  <2>1. FirstBeam("right flat") <= o /\ o <= LastBeam("right flat") => first = s
    BY <1>4, <1>5, Zenon
  <2> HIDE DEF first
  <2>2. 0 <= o
    BY <1>3
  <2>3. FirstBeam("right flat") <= o /\ (o <= 15 => o <= LastBeam("right flat"))
    BY <1>2, <2>2
  <2> QED BY <2>1, <2>3
<1> HIDE DEF first
<1>7. /\ 16 <= o /\ o <= 30 => second = s
      /\ o < 16 /\ first = s => second = s
  <2>1. /\ FirstBeam("right steep") <= o /\ o <= LastBeam("right steep") => second = s
        /\ o < FirstBeam("right steep") /\ first = s => second = s
    BY <1>4, <1>5, Zenon
  <2> HIDE DEF second
  <2> QED BY <1>2, <2>1
<1> HIDE DEF second
<1>8. /\ 31 <= o /\ o <= 45 => third = s
      /\ o < 31 /\ second = s => third = s
  <2>1. /\ FirstBeam("left steep") <= o /\ o <= LastBeam("left steep") => third = s
        /\ o < FirstBeam("left steep") /\ second = s => third = s
    BY <1>4, <1>5, Zenon
  <2> HIDE DEF third
  <2> QED BY <1>2, <2>1
<1> HIDE DEF third
<1>9. /\ 46 <= o /\ o <= 60 => fourth = s
      /\ o < 46 /\ third = s => fourth = s
  <2>1. /\ FirstBeam("left flat") <= o /\ o <= LastBeam("left flat") => fourth = s
        /\ o < FirstBeam("left flat") /\ third = s => fourth = s
    BY <1>4, <1>5, Zenon
  <2> HIDE DEF fourth
  <2> QED BY <1>2, <2>1
<1> HIDE DEF fourth
<1>10. fourth = s
  BY <1>3, <1>6, <1>7, <1>8, <1>9
<1> QED BY <1>1, <1>10 DEF o, s

LEMMA RadarRed ==
  ASSUME AtPixel, NEW limit \in 10 .. 250, NEW bytes, \A k \in 0 .. 60 : bytes[k] \in Nat,
         screen = "red" => InDisc /\ X # 0,
         MakeRadar(limit, bytes) = "red"
  PROVE  InDisc /\ X # 0
<1> DEFINE first == Group("right flat", limit, bytes, Prepared(limit))
           second == Group("right steep", limit, bytes, first)
           middle == IF X = 0 /\ Y <= 499 THEN "white" ELSE second
           third == Group("left steep", limit, bytes, middle)
           fourth == Group("left flat", limit, bytes, third)
<1>1. fourth = "red"
  BY DEF MakeRadar
<1>2. /\ "right flat" \in Turns /\ "right steep" \in Turns
      /\ "left steep" \in Turns /\ "left flat" \in Turns
  BY DEF Turns
<1>3. Prepared(limit) = "red" => screen = "red"
  BY DEF Prepared
<1>4. first = "red" => Prepared(limit) = "red" \/ (InDisc /\ X # 0)
  BY <1>2, GroupRed
<1>5. second = "red" => first = "red" \/ (InDisc /\ X # 0)
  <2> HIDE DEF first
  <2> QED BY <1>2, GroupRed
<1>6. middle = "red" => second = "red"
  OBVIOUS
<1>7. third = "red" => middle = "red" \/ (InDisc /\ X # 0)
  <2> HIDE DEF middle
  <2> QED BY <1>2, GroupRed
<1>8. fourth = "red" => third = "red" \/ (InDisc /\ X # 0)
  <2> HIDE DEF third
  <2> QED BY <1>2, GroupRed
<1> HIDE DEF first, second, middle, third, fourth
<1> QED BY <1>1, <1>3, <1>4, <1>5, <1>6, <1>7, <1>8
LEMMA InvDraw ==
  ASSUME NEW from \in {"live", "parsed"}, PictureInv, Draw(from) PROVE PictureInv'
<1> DEFINE bytes == IF from = "live" THEN frame ELSE [frame EXCEPT ![0] = 0]
<1>1. /\ step \in {10, 16} /\ step' = step /\ pixel' = pixel /\ ring' = ring /\ warn' = warn
      /\ sight' = sight /\ r' = r /\ frame' = frame /\ colour' = colour
      /\ row = "due" /\ row' = from /\ screen' = MakeRadar(warn, bytes)
  BY DEF Draw, WayEnds
<1>2. AtPixel /\ warn \in 10 .. 250
  BY <1>1, OnScreen DEF PictureInv, PictureTypes
<1>3. frame \in [Beam -> Nat] /\ OnServer
  BY DEF PictureInv, PictureArrays
<1>4. /\ \A k \in 0 .. 60 : bytes[k] \in Nat
      /\ \A k \in 1 .. 60 : bytes[k] = frame[k]
  BY <1>3 DEF Beam
<1> HIDE DEF bytes
<1>5. PictureTypes' /\ PictureArrays'
  <2>1. PictureArrays'
    BY <1>1, Zenon DEF PictureInv, PictureArrays
  <2>2. /\ pixel \in Pixels /\ step \in 1 .. 16
        /\ step > 1 => ring \in {2 * w : w \in Warns}
        /\ step > 2 => warn \in 10 .. 250 /\ 2 * warn <= ring + 20
        /\ ring \in 0 .. 500 /\ warn \in 0 .. 250
    BY DEF PictureInv, PictureTypes
  <2>3. PictureTypes'
    BY <1>1, <2>2, Zenon DEF PictureTypes
  <2> QED BY <2>1, <2>3
<1>6. Shown' /\ MiddleWhite' /\ RedInside'
  <2>1. Shown'
    BY <1>1, Still, Zenon DEF PictureInv, Shown
  <2> QED BY <1>1, <2>1, Still DEF PictureInv, MiddleWhite, RedInside
<1>7. screen' = "red" => InDisc /\ X # 0
  BY <1>1, <1>2, <1>3, <1>4, RadarRed DEF OnServer
<1>8. FrameShown(row', warn', frame', screen')
  <2> SUFFICES ASSUME InDisc, Y <= 499
               PROVE  MakeRadar(warn, bytes) = Shows(2 * warn, warn, frame[Max(BeamsAt)] - 1)
    BY <1>1 DEF FrameShown
  <2>1. CASE X = 0
    <3>1. \A g : ~InGroup(g, ServerLowest(g))
      BY <2>1 DEF InGroup
    <3>2. MakeRadar(warn, bytes) = "white"
      BY <2>1, <3>1 DEF MakeRadar, Group
    <3> QED BY <2>1, <3>2 DEF Shows
  <2>2. CASE X # 0
    <3>1. \A k \in 0 .. 60 : bytes[k] \in Int
      <4>1. \A n \in Nat : n \in Int
        BY ONLY TRUE
      <4> QED BY <1>4, <4>1, Zenon
    <3>2. bytes[Max(BeamsAt)] = frame[Max(BeamsAt)]
      BY <1>2, <1>4, <2>2, TopGroup
    <3> QED BY <1>2, <2>2, <3>1, <3>2, RadarShows
  <2> QED BY <2>1, <2>2
<1>9. OnServer'
  BY <1>1, <1>7, <1>8, Still DEF OnServer
<1> QED BY <1>5, <1>6, <1>9 DEF PictureInv

LEMMA InvStuttered == PictureInv /\ UNCHANGED pictureVars => PictureInv'
<1> SUFFICES ASSUME PictureInv, UNCHANGED pictureVars PROVE PictureInv'
  OBVIOUS
<1>1. /\ step' = step /\ pixel' = pixel /\ ring' = ring /\ warn' = warn /\ sight' = sight
      /\ r' = r /\ frame' = frame /\ colour' = colour /\ row' = row /\ screen' = screen
  BY DEF pictureVars
<1>2. PictureTypes' /\ PictureArrays'
  BY <1>1, Zenon DEF PictureInv, PictureTypes, PictureArrays
<1>3. Shown'
  BY <1>1, Still, Zenon DEF PictureInv, Shown
<1>4. MiddleWhite' /\ RedInside'
  BY <1>1, Still DEF PictureInv, MiddleWhite, RedInside
<1>5. OnServer'
  <2>1. ServerShowsFrame'
    BY <1>1, Still, Zenon DEF PictureInv, OnServer, ServerShowsFrame, FrameShown
  <2> QED BY <1>1, <2>1, Still DEF PictureInv, OnServer
<1> QED BY <1>2, <1>3, <1>4, <1>5 DEF PictureInv

(* Every reachable state satisfies the invariant, whatever the pixel, the  *)
(* warning distances and the scenes are.                                   *)
THEOREM PictureInvariance == PictureSpec => []PictureInv
<1>1. PictureInv /\ [PictureNext]_pictureVars => PictureInv'
  <2> SUFFICES ASSUME PictureInv, [PictureNext]_pictureVars PROVE PictureInv'
    OBVIOUS
  <2>1. ASSUME NEW g \in {"right flat", "right steep", "left steep", "left flat"}, Sweep(g)
        PROVE  PictureInv'
    BY <2>1, InvSweep DEF Turns
  <2>2. ASSUME NEW from \in {"live", "parsed"}, Draw(from) PROVE PictureInv'
    BY <2>2, InvDraw
  <2> QED BY <2>1, <2>2, InvReadRing, InvReadWarn, InvClear, InvMiddle, InvReport,
             InvStuttered DEF PictureNext
<1> QED BY InvStart, <1>1, PTL DEF PictureSpec

(* When a way is painted, each pixel that the sectors reach shows what the *)
(* beam at its angle saw on this way: the four loops of radar_process with *)
(* their integer tangents, which meet and overlap, leave no gap and no     *)
(* pixel of an earlier picture.                                            *)
THEOREM WayShown == PictureSpec => []ClientShowsWay
<1>1. PictureInv => ClientShowsWay
  <2> SUFFICES ASSUME PictureInv, WayEnds, Swept
               PROVE  colour = Shows(ring, warn, sight[IF step = 10 THEN Max(BeamsAt)
                                                       ELSE Min(BeamsAt \ {0})])
    BY DEF ClientShowsWay
  <2>1. AtPixel /\ step \in {10, 16} /\ InDisc
    BY OnScreen DEF PictureInv, PictureTypes, WayEnds, Swept
  <2>2. CASE X = 0
    BY <2>1, <2>2 DEF PictureInv, MiddleWhite, Shows
  <2>3. CASE X # 0
    <3>1. PICK k \in BeamsAt : k >= 1
      BY <2>1, <2>3, Reached
    <3>2. \A l \in BeamsAt : l \in 0 .. 60
      BY DEF BeamsAt, Beam
    <3>3. PassedAt(10) = BeamsAt
      BY DEF PassedAt
    <3>4. PassedAt(16) = BeamsAt \ {0}
      BY <3>2 DEF PassedAt
    <3>5. k \in PassedAt(step)
      BY <2>1, <3>1, <3>2, <3>3, <3>4
    <3>6. colour = Shows(ring, warn, sight[OwnerAt(step)])
      BY <2>3, <3>5 DEF PictureInv, Shown, ShownAt
    <3>7. OwnerAt(step) = IF step = 10 THEN Max(BeamsAt) ELSE Min(BeamsAt \ {0})
      BY <2>1, <3>3, <3>4 DEF OwnerAt
    <3> QED BY <3>6, <3>7
  <2> QED BY <2>2, <2>3
<1> QED BY <1>1, PictureInvariance, PTL

(* On the server every pixel of the disc shows the byte of the frame that  *)
(* belongs to its angle, live or parsed: beam 0, which the history file    *)
(* loses, is never the last of the beams at a pixel.                       *)
THEOREM FrameOnServer == PictureSpec => []ServerShowsFrame
<1>1. PictureInv => ServerShowsFrame
  BY DEF PictureInv, OnServer
<1> QED BY <1>1, PictureInvariance, PTL

(* A pixel is red only inside the circle drawn, or one step of the button  *)
(* beyond it.                                                              *)
THEOREM RedOnlyInside == PictureSpec => []RedInsideRing
<1>1. PictureInv => RedInsideRing
  <2> SUFFICES ASSUME PictureInv PROVE RedInsideRing
    OBVIOUS
  <2>1. (step > 3 /\ colour = "red") => Square < (ring + 20) * (ring + 20)
    BY DEF PictureInv, RedInside
  <2>2. (row \in {"live", "parsed"} /\ screen = "red") => Square < 4 * warn * warn
    <3> SUFFICES ASSUME row \in {"live", "parsed"}, screen = "red"
                 PROVE  Square < 4 * warn * warn
      OBVIOUS
    <3>1. AtPixel /\ warn \in 10 .. 250 /\ frame \in [Beam -> Nat]
      <4>1. step >= 10
        BY DEF PictureInv, OnServer
      <4> QED BY <4>1, OnScreen DEF PictureInv, PictureTypes, PictureArrays
    <3>2. InDisc /\ X # 0 /\ Y <= 499
      BY <3>1, Squares DEF PictureInv, OnServer
    <3>3. Shows(2 * warn, warn, frame[Max(BeamsAt)] - 1) = "red"
      BY <3>2 DEF PictureInv, OnServer, ServerShowsFrame
    <3>4. frame[Max(BeamsAt)] \in Nat
      BY <3>1, <3>2, TopGroup DEF Beam
    <3>5. frame[Max(BeamsAt)] - 1 \in Int /\ frame[Max(BeamsAt)] - 1 >= -1
      BY ONLY <3>4
    <3> QED BY <3>1, <3>3, <3>5, RedNear
  <2> QED BY <2>1, <2>2 DEF RedInsideRing
<1> QED BY <1>1, PictureInvariance, PTL
-----------------------------------------------------------------------------
(* Both boards.  The frame of a way out is what the scene is: the loops    *)
(* fill r from beam 0 upwards, and what they have filled is of this way.   *)

(* The last beam whose reading is in r, and what r and a frame hold then.  *)
FilledTo(st) ==
  IF st = 5 THEN 15 ELSE IF st \in {6, 7} THEN 30 ELSE IF st = 8 THEN 45 ELSE 60
FilledAt(st, scene, distance) ==
  st \in 5 .. 10 => \A k \in 0 .. FilledTo(st) : distance[k] = 2 * scene[k]
SentAt(st, from, scene, bytes) ==
  st = 10 /\ from # "none" => \A k \in 0 .. 60 : bytes[k] = scene[k] + 1

SentInv ==
  /\ PictureInv
  /\ FilledAt(step, sight, r)
  /\ SentAt(step, row, sight, frame)

LEMMA StoredOut ==
  ASSUME NEW g \in Turns, Outward, NEW scene
  PROVE  /\ \A k \in 0 .. 60 : FirstBeam(g) <= k /\ k <= LastBeam(g) =>
                                Stored(g, Out(g), scene)[k] = 2 * scene[k]
         /\ \A k \in 0 .. 60 : k < FirstBeam(g) => Stored(g, Out(g), scene)[k] = r[k]
<1>1. PICK m \in {15, 16} :
        /\ Sectors(g, Out(g), m) /\ m = LastBeam(g) - FirstBeam(g) + 1
        /\ \A n \in 1 .. m : BeamOf(g, Out(g)[n]) = FirstBeam(g) + n - 1
  BY OutTurns
<1>2. DOMAIN Out(g) = 1 .. m /\ FirstBeam(g) \in 0 .. 46 /\ LastBeam(g) \in 0 .. 60
  BY <1>1, BeamEnds DEF Sectors
<1> DEFINE f == FirstBeam(g)
           seen == Sees(g, Out(g), scene)
           at(k) == {n \in DOMAIN Out(g) :
                       k = IF Outward THEN BeamOf(g, Out(g)[n]) ELSE BackPlace(g, Out(g)[n])}
<1>3. \A k \in Beam :
        Stored(g, Out(g), scene)[k] = IF at(k) = {} THEN r[k] ELSE 2 * seen[Max(at(k))]
  BY DEF Stored
<1>4. \A n \in 1 .. m : seen[n] = scene[f + n - 1]
  BY <1>1, <1>2 DEF Sees
<1>5. \A k, n : n \in at(k) <=> n \in 1 .. m /\ k = f + n - 1
  BY <1>1, <1>2
<1>6. f \in 0 .. 46 /\ LastBeam(g) \in 0 .. 60 /\ m = LastBeam(g) - f + 1 /\ m \in 15 .. 16
  BY <1>1, <1>2
<1> HIDE DEF at, seen, f
<1>7. ASSUME NEW k \in 0 .. 60, f <= k, k <= LastBeam(g)
      PROVE  Stored(g, Out(g), scene)[k] = 2 * scene[k]
  <2>1. k - f + 1 \in 1 .. m /\ k = f + (k - f + 1) - 1
    BY ONLY <1>7, <1>6
  <2>2. at(k) # {}
    BY <1>5, <2>1
  <2>3. at(k) \in SUBSET (0 .. 61)
    BY <1>5
  <2>4. Max(at(k)) \in at(k)
    BY <2>2, <2>3, Highest
  <2>5. seen[Max(at(k))] = scene[k]
    BY <1>4, <1>5, <2>4
  <2> QED BY <1>3, <2>2, <2>5 DEF Beam
<1>8. ASSUME NEW k \in 0 .. 60, k < f PROVE Stored(g, Out(g), scene)[k] = r[k]
  <2>1. \A n \in 1 .. m : k # f + n - 1
    BY ONLY <1>8, <1>6
  <2>2. \A n : n \notin at(k)
    BY <1>5, <2>1
  <2>3. at(k) = {}
    BY ONLY <2>2
  <2> QED BY <1>3, <2>3 DEF Beam
<1> QED BY <1>7, <1>8 DEF f

LEMMA FilledOut ==
  ASSUME NEW g \in Turns, SentInv, Sweep(g), OutTurn(step, g)
  PROVE  FilledAt(step + 1, sight', r')
<1>1. /\ step \in {4, 5, 7, 8} /\ Outward
      /\ r' = Stored(g, Out(g), sight') /\ (step # 4 => sight' = sight)
  BY DEF Sweep, OutTurn, Outward
<1>2. FilledTo(step + 1) = LastBeam(g) /\ (step # 4 => FilledTo(step) = FirstBeam(g) - 1)
      /\ (step = 4 => FirstBeam(g) = 0)
  BY DEF OutTurn, FilledTo, LastBeam, FirstBeam
<1>3. FirstBeam(g) \in 0 .. 46 /\ LastBeam(g) \in 0 .. 60
  BY BeamEnds
<1>4. ASSUME NEW k \in 0 .. LastBeam(g) PROVE r'[k] = 2 * sight'[k]
  <2>1. k \in 0 .. 60
    BY <1>3
  <2>2. CASE FirstBeam(g) <= k
    BY <1>1, <2>1, <2>2, StoredOut
  <2>3. CASE k < FirstBeam(g)
    <3>1. step # 4 /\ k \in 0 .. FilledTo(step)
      BY <1>2, <1>3, <2>3
    <3>2. r[k] = 2 * sight[k]
      BY <1>1, <3>1 DEF SentInv, FilledAt
    <3>3. r'[k] = r[k]
      BY <1>1, <2>1, <2>3, StoredOut
    <3> QED BY <1>1, <3>1, <3>2, <3>3
  <2> QED BY <1>3, <2>2, <2>3
<1> QED BY <1>2, <1>4 DEF FilledAt

LEMMA SentReport ==
  ASSUME SentInv, Report
  PROVE  FilledAt(step', sight', r') /\ SentAt(step', row', sight', frame')
<1>1. /\ step \in {9, 15} /\ step' = step + 1 /\ sight' = sight /\ r' = r
      /\ \/ row' = "due" /\ frame' = [k \in Beam |-> r[k] \div 2 + 1]
         \/ row' = "none"
  <2>1. step \in 1 .. 15 /\ Cycle[step] = "report" /\ step' = step + 1
    BY CyclePlaces DEF Report, Does
  <2>2. step \in {9, 15}
    BY <2>1, PlaceOf
  <2> QED BY <2>1, <2>2 DEF Report
<1>2. ASSUME step = 9 PROVE \A k \in 0 .. 60 : r[k] = 2 * sight[k] /\ sight[k] \in 0 .. 250
  <2>1. \A k \in 0 .. 60 : r[k] = 2 * sight[k]
    BY <1>2 DEF SentInv, FilledAt, FilledTo
  <2>2. \A k \in 0 .. 61 : sight[k] \in 0 .. 250
    BY Zenon DEF SentInv, PictureInv, PictureArrays
  <2> QED BY <2>1, <2>2
<1>3. FilledAt(step', sight', r')
  BY <1>1, <1>2 DEF FilledAt, FilledTo
<1>4. SentAt(step', row', sight', frame')
  <2> SUFFICES ASSUME step = 9, row' = "due", NEW k \in 0 .. 60
               PROVE  frame'[k] = sight[k] + 1
    BY <1>1 DEF SentAt
  <2>1. r[k] = 2 * sight[k] /\ sight[k] \in 0 .. 250
    BY <1>2
  <2>2. frame'[k] = r[k] \div 2 + 1
    BY <1>1 DEF Beam
  <2>3. ASSUME NEW d \in 0 .. 250 PROVE (2 * d) \div 2 + 1 = d + 1
    OBVIOUS
  <2> QED BY <2>1, <2>2, <2>3
<1> QED BY <1>3, <1>4

LEMMA SentKept == SentInv /\ [PictureNext]_pictureVars /\ PictureInv' => SentInv'
<1> SUFFICES ASSUME SentInv, [PictureNext]_pictureVars
             PROVE  FilledAt(step', sight', r') /\ SentAt(step', row', sight', frame')
  BY DEF SentInv
<1>1. CASE ReadRing \/ ReadWarn \/ Clear
  <2>1. step \in {1, 2, 3} /\ step' = step + 1
    <3>1. /\ step \in 1 .. 15 /\ step' = step + 1
          /\ Cycle[step] = "ring" \/ Cycle[step] = "warn" \/ Cycle[step] = "clear"
      BY <1>1, CyclePlaces DEF ReadRing, ReadWarn, Clear, Does
    <3> QED BY <3>1, PlaceOf
  <2> QED BY <2>1 DEF FilledAt, SentAt
<1>2. CASE Middle
  <2>1. step \in {6, 12} /\ step' = step + 1 /\ r' = r /\ sight' = sight
    <3>1. step \in 1 .. 15 /\ step' = step + 1 /\ Cycle[step] = "column"
      BY <1>2, CyclePlaces DEF Middle, Does
    <3> QED BY <1>2, <3>1, PlaceOf DEF Middle
  <2>2. FilledTo(7) = FilledTo(6)
    BY DEF FilledTo
  <2> QED BY <2>1, <2>2 DEF SentInv, FilledAt, SentAt
<1>3. CASE Report
  BY <1>3, SentReport
<1>4. ASSUME NEW g \in Turns, Sweep(g)
      PROVE  FilledAt(step', sight', r') /\ SentAt(step', row', sight', frame')
  <2>1. step' = step + 1
    BY <1>4 DEF Sweep, Does
  <2>2. CASE OutTurn(step, g)
    <3>1. step' # 10
      BY <2>1, <2>2 DEF OutTurn
    <3> QED BY <1>4, <2>1, <2>2, <3>1, FilledOut DEF SentAt
  <2>3. CASE BackTurn(step, g)
    <3>1. step' \in {11, 12, 14, 15}
      BY <2>1, <2>3 DEF BackTurn
    <3> QED BY <3>1 DEF FilledAt, SentAt
  <2> QED BY <1>4, <2>2, <2>3, TurnOf
<1>5. ASSUME NEW from \in {"live", "parsed"}, Draw(from)
      PROVE  FilledAt(step', sight', r') /\ SentAt(step', row', sight', frame')
  <2>1. /\ step' = step /\ sight' = sight /\ r' = r /\ frame' = frame /\ row = "due"
    BY <1>5 DEF Draw
  <2> QED BY <2>1 DEF SentInv, FilledAt, SentAt
<1>6. CASE UNCHANGED pictureVars
  BY <1>6 DEF pictureVars, SentInv, FilledAt, SentAt
<1> QED BY <1>1, <1>2, <1>3, <1>4, <1>5, <1>6 DEF PictureNext, Turns

(* When the server has drawn the frame of a way out, live or from the      *)
(* history, its picture is the client's, pixel by pixel, as long as the    *)
(* circle on the client was drawn for the same warning distance.           *)
SameOnServer ==
  (step = 10 /\ row \in {"live", "parsed"} /\ Swept /\ ring = 2 * warn) => screen = colour

THEOREM OnePicture == PictureSpec => []SameOnServer
<1>1. PictureInit => SentInv
  BY InvStart DEF SentInv, FilledAt, SentAt, PictureInit
<1>2. SentInv /\ PictureInv /\ ClientShowsWay => SameOnServer
  <2> SUFFICES ASSUME SentInv, ClientShowsWay, step = 10, row \in {"live", "parsed"},
                      Swept, ring = 2 * warn
               PROVE  screen = colour
    BY DEF SameOnServer
  <2> DEFINE o == Max(BeamsAt)
  <2>1. colour = Shows(2 * warn, warn, sight[o])
    BY DEF ClientShowsWay, WayEnds
  <2>2. screen = Shows(2 * warn, warn, frame[o] - 1)
    BY DEF SentInv, PictureInv, OnServer, ServerShowsFrame, Swept
  <2>3. CASE X = 0
    BY <2>1, <2>2, <2>3 DEF Shows
  <2>4. CASE X # 0
    <3>1. AtPixel /\ InDisc
      BY OnScreen DEF SentInv, PictureInv, PictureTypes, Swept
    <3>2. o \in 1 .. 60
      BY <2>4, <3>1, TopGroup
    <3> HIDE DEF o
    <3>3. frame[o] = sight[o] + 1
      <4>1. row # "none" /\ o \in 0 .. 60
        BY <3>2
      <4> QED BY <4>1 DEF SentInv, SentAt
    <3>4. sight[o] \in 0 .. 250
      <4>1. o \in 0 .. 61
        BY <3>2
      <4> QED BY <4>1, Zenon DEF SentInv, PictureInv, PictureArrays
    <3>5. frame[o] - 1 = sight[o]
      BY <3>3, <3>4
    <3> QED BY <2>1, <2>2, <3>5
  <2> QED BY <2>3, <2>4
<1>3. SentInv /\ [PictureNext]_pictureVars /\ PictureInv' => SentInv'
  BY SentKept
<1> QED BY <1>1, <1>2, <1>3, PictureInvariance, WayShown, PTL DEF PictureSpec
=============================================================================
