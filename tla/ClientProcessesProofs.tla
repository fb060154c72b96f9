----------------------- MODULE ClientProcessesProofs ------------------------
(***************************************************************************)
(* Proofs about the ports of the board, for any number of clients: two     *)
(* share none as long as no two opens of a port overlap, and a client that *)
(* starts when all others have ended is refused none.                      *)
(***************************************************************************)
EXTENDS ClientProcesses, TLAPS

Doing == {"off", "fork", "born", "test", "set", "setup", "border", "run", "held", "sweep",
          "kill", "close", "gone"}

(* What is a function of what. *)
AtShape == at \in [Client -> [Process -> Doing]]
TodoShape == todo \in [Client -> [Opener -> SUBSET Port]]
HoldsShape == holds = [c \in Client |-> holds[c]]
UsageShape == usage \in [Port -> 0 .. 1]
Shape == AtShape /\ TodoShape /\ HoldsShape /\ UsageShape

(* A port that is not marked is held by nobody. *)
FreeIsFree == \A p \in Port : usage[p] = 0 => \A c \in Client : p \notin holds[c]

Single == \A p \in Port : \A c, d \in Holders(p) : c = d

(* Between the two halves of an open the port is free, and nobody else is  *)
(* there for the same port.                                                *)
Inside(c, o) == at[c][o] = "set"
SetIsFree == \A c \in Client, o \in Opener :
  Inside(c, o) /\ Wanted(c, o) \in Port => usage[Wanted(c, o)] = 0
SetIsAlone == \A c, d \in Client, o, q \in Opener :
  /\ Inside(c, o) /\ Inside(d, q) /\ Wanted(c, o) = Wanted(d, q)
  => c = d /\ o = q

Shared == FreeIsFree /\ Single /\ SetIsFree /\ SetIsAlone
IInv == Shape /\ (~raced => Shared)

LEMMA Openers == Opener \subseteq Process /\ \A o \in Opener : o \notin Slow
BY ClientAssumption DEF Opener, Process, Child

LEMMA Workers == "panel" \in Process /\ "radar" \in Process /\ Slow \subseteq Process
BY DEF Process, Child

(* What a step is, without the names of the processes. *)
LEMMA Steps ==
  ASSUME Next
  PROVE  \E c \in Client :
           \/ \E o \in Opener : Opening(c, o)
           \/ \E p \in Process : Handle(c, p)
           \/ \E p \in Slow : EndSlow(c, p)
           \/ Fork(c) \/ Setup(c) \/ Hold(c) \/ Release(c) \/ KillAll(c)
           \/ Border(c) \/ EndRadar(c) \/ Lift(c) \/ User(c)
<1>1. PICK c \in Client : \/ Panel(c) \/ Radar(c) \/ Lift(c) \/ User(c)
                         \/ \E p \in Slow : SlowOne(c, p)
  BY DEF Next
<1>2. ASSUME Panel(c) \/ Radar(c)
      PROVE  \/ \E o \in Opener : Opening(c, o)
             \/ \E p \in Process : Handle(c, p)
             \/ Fork(c) \/ Setup(c) \/ Hold(c) \/ Release(c) \/ KillAll(c)
             \/ Border(c) \/ EndRadar(c)
  BY <1>2, Workers DEF Panel, Radar, Opener
<1>3. ASSUME \E p \in Slow : SlowOne(c, p)
      PROVE  (\E p \in Process : Handle(c, p)) \/ (\E p \in Slow : EndSlow(c, p))
  BY <1>3, Workers DEF SlowOne
<1> QED BY <1>1, <1>2, <1>3

LEMMA Marks ==
  ASSUME UsageShape, NEW p, NEW n \in 0 .. 1, usage' = [usage EXCEPT ![p] = n]
  PROVE  UsageShape'
BY DEF UsageShape

LEMMA Initial == Init => IInv
<1> SUFFICES ASSUME Init PROVE IInv
  OBVIOUS
<1>1. Shape
  <2>1. \A o \in Opener : PortsOf(o) \in SUBSET Port
    BY DEF PortsOf
  <2>2. TodoShape
    BY <2>1 DEF Init, TodoShape
  <2> QED BY <2>2, Openers DEF Init, Shape, AtShape, HoldsShape, UsageShape, Doing
<1>2. FreeIsFree /\ Single
  BY DEF Init, FreeIsFree, Single, Holders
<1>3. SetIsFree /\ SetIsAlone
  BY Openers DEF Init, SetIsFree, SetIsAlone, Inside
<1> QED BY <1>1, <1>2, <1>3 DEF IInv, Shared

-----------------------------------------------------------------------------
(* The steps that touch no port: nobody comes between the halves of an     *)
(* open, and nobody who is there begins to want something else.            *)
Quiet ==
  /\ UNCHANGED << usage, holds, raced >> /\ Shape'
  /\ \A c \in Client, o \in Opener :
       Inside(c, o)' => Inside(c, o) /\ todo'[c][o] = todo[c][o]

LEMMA QuietKeeps == IInv /\ Quiet => IInv'
<1> SUFFICES ASSUME IInv, Quiet, ~raced PROVE Shared'
  BY DEF IInv, Quiet
<1> USE DEF IInv, Shared, Quiet
<1>1. FreeIsFree' /\ Single'
  BY DEF FreeIsFree, Single, Holders
<1>2. \A c \in Client, o \in Opener :
        Inside(c, o)' => Inside(c, o) /\ Wanted(c, o)' = Wanted(c, o)
  BY DEF Wanted
<1>3. SetIsFree'
  BY <1>2 DEF SetIsFree
<1>4. SetIsAlone'
  BY <1>2 DEF SetIsAlone
<1> QED BY <1>1, <1>3, <1>4

LEMMA GoingIsQuiet ==
  ASSUME IInv, NEW c \in Client, NEW p \in Process, NEW to \in Doing, to # "set",
         Goes(c, p, to), UNCHANGED << todo, usage, holds, raced >>
  PROVE  Quiet
<1>1. at' \in [Client -> [Process -> Doing]] /\ \A d \in Client, q \in Process :
        at'[d][q] = IF d = c /\ q = p THEN to ELSE at[d][q]
  BY DEF IInv, Shape, AtShape, Goes
<1>2. Shape'
  BY <1>1 DEF IInv, Shape, AtShape, TodoShape, HoldsShape, UsageShape
<1> QED BY <1>1, <1>2, Openers DEF Quiet, Inside

LEMMA SignalIsQuiet ==
  ASSUME IInv, NEW c \in Client, NEW who, NEW panel \in Doing, panel \in {"close", at[c]["panel"]},
         Signal(c, who, panel), UNCHANGED << todo, usage, holds, raced >>
  PROVE  Quiet
<1>1. at' \in [Client -> [Process -> Doing]] /\ \A d \in Client, q \in Process :
        at'[d][q] # "set" \/ at'[d][q] = at[d][q]
  BY DEF IInv, Shape, AtShape, Signal, Doing
<1>2. Shape'
  BY <1>1 DEF IInv, Shape, AtShape, TodoShape, HoldsShape, UsageShape
<1> QED BY <1>1, <1>2, Openers DEF Quiet, Inside

LEMMA OthersQuiet ==
  ASSUME IInv, NEW c \in Client,
         \/ Setup(c) \/ Hold(c) \/ Release(c) \/ KillAll(c) \/ Border(c) \/ EndRadar(c)
         \/ Fork(c) \/ Lift(c) \/ User(c)
         \/ \E p \in Process : Handle(c, p)
         \/ \E p \in Slow : EndSlow(c, p)
  PROVE  Quiet
<1>1. CASE Setup(c) \/ Hold(c) \/ Release(c) \/ Exit(c)
  BY <1>1, GoingIsQuiet DEF Setup, Hold, Release, Exit, ports, Process, Doing
<1>2. CASE Border(c) \/ EndRadar(c)
  BY <1>2, GoingIsQuiet DEF Border, EndRadar, ports, Process, Child, Doing
<1>3. CASE \E p \in Slow : EndSlow(c, p)
  BY <1>3, GoingIsQuiet DEF EndSlow, ports, Process, Child, Doing
<1>4. CASE KillAll(c) \/ CtrlC(c)
  <2>1. at[c]["panel"] \in Doing
    BY DEF IInv, Shape, AtShape, Process
  <2> QED BY <1>4, <2>1, SignalIsQuiet DEF KillAll, CtrlC, ports, Doing
<1>5. CASE Lift(c) \/ Touch(c)
  BY <1>5 DEF Lift, Touch, procs, ports, IInv, Shape, AtShape, TodoShape,
     HoldsShape, UsageShape, Quiet, Inside
<1>6. CASE Start(c)
  BY <1>6, GoingIsQuiet DEF Start, ports, Process, Doing
<1>7. CASE Fork(c)
  <2>1. PICK p \in Child : Goes(c, p, IF p \in Quick THEN "run" ELSE "born")
    BY <1>7 DEF Fork
  <2>2. UNCHANGED << todo, usage, holds, raced >> /\ p \in Process
    BY <1>7 DEF Fork, ports, Process
  <2> QED BY <2>1, <2>2, GoingIsQuiet DEF Doing
<1>8. ASSUME NEW p \in Process, Handle(c, p) PROVE Quiet
  BY <1>8, GoingIsQuiet DEF Handle, ports, Doing
<1> QED BY <1>1, <1>2, <1>3, <1>4, <1>5, <1>6, <1>7, <1>8 DEF User

-----------------------------------------------------------------------------
LEMMA TestKeeps ==
  ASSUME IInv, NEW c \in Client, NEW o \in Opener, TestUsage(c, o) PROVE IInv'
<1> USE DEF TestUsage, Goes
<1>1. Shape'
  BY Openers DEF IInv, Shape, AtShape, TodoShape, HoldsShape, UsageShape, Doing
<1> SUFFICES ASSUME ~raced' PROVE Shared'
  BY <1>1 DEF IInv
<1>2. ~raced /\ ~Overlap(c, o) /\ Shared
  BY DEF IInv
<1>3. FreeIsFree' /\ Single'
  BY <1>2 DEF Shared, FreeIsFree, Single, Holders
<1>4. \A d \in Client, q \in Opener :
        /\ Wanted(d, q)' = Wanted(d, q)
        /\ Inside(d, q)' <=> (Inside(d, q) \/ << d, q >> = << c, o >>)
  BY Openers DEF IInv, Shape, AtShape, Wanted, Inside
<1>5. SetIsFree'
  BY <1>2, <1>4 DEF SetIsFree, Shared
<1>6. SetIsAlone'
  BY <1>2, <1>4 DEF SetIsAlone, Shared, Overlap, Inside
<1> QED BY <1>3, <1>5, <1>6 DEF Shared

LEMMA GoneOn ==
  ASSUME IInv, NEW c \in Client, NEW o \in Opener, GoesOn(c, o)
  PROVE  /\ AtShape' /\ TodoShape'
         /\ ~Inside(c, o)'
         /\ \A d \in Client, q \in Opener : << d, q >> # << c, o >> =>
              (Inside(d, q)' <=> Inside(d, q)) /\ Wanted(d, q)' = Wanted(d, q)
<1>1. PICK to \in Doing : to # "set" /\ Goes(c, o, to)
  BY DEF GoesOn, Doing
<1>2. AtShape' /\ \A d \in Client, q \in Process :
        at'[d][q] = IF d = c /\ q = o THEN to ELSE at[d][q]
  BY <1>1, Openers DEF IInv, Shape, AtShape, Goes
<1>3. PICK left \in SUBSET Port : todo' = [todo EXCEPT ![c][o] = left]
  <2>1. /\ todo[c][o] \ {Wanted(c, o)} \in SUBSET Port
        /\ PortsOf(o) \in SUBSET Port
    BY DEF IInv, Shape, TodoShape, PortsOf
  <2> QED BY <2>1 DEF GoesOn
<1>4. TodoShape' /\ \A d \in Client, q \in Opener :
        todo'[d][q] = IF d = c /\ q = o THEN left ELSE todo[d][q]
  BY <1>3 DEF IInv, Shape, TodoShape
<1> QED BY <1>1, <1>2, <1>4, Openers DEF Inside, Wanted

LEMMA SetKeeps ==
  ASSUME IInv, NEW c \in Client, NEW o \in Opener, SetUsage(c, o) PROVE IInv'
<1> DEFINE p == Wanted(c, o)
<1> USE DEF SetUsage
<1>1. Shape'
  <2>1. HoldsShape'
    BY DEF IInv, Shape, HoldsShape
  <2>2. UsageShape'
    <3>1. UsageShape /\ usage' = [usage EXCEPT ![p] = 1] /\ 1 \in 0 .. 1
      BY DEF IInv, Shape
    <3> QED BY <3>1, Marks
  <2>3. AtShape' /\ TodoShape'
    BY GoneOn
  <2> QED BY <2>1, <2>2, <2>3 DEF Shape
<1> SUFFICES ASSUME ~raced PROVE Shared'
  BY <1>1 DEF IInv
<1>2. Shared /\ Inside(c, o)
  BY DEF IInv, Inside
<1>3. \A d \in Client : p \in Port => p \notin holds[d]
  BY <1>2 DEF Shared, SetIsFree, FreeIsFree
<1>4. \A d \in Client : holds'[d] = IF d = c THEN holds[d] \cup {p} ELSE holds[d]
  BY DEF IInv, Shape, HoldsShape
<1>5. \A q \in Port : usage'[q] = IF q = p THEN 1 ELSE usage[q]
  BY DEF IInv, Shape, UsageShape
<1>6. FreeIsFree'
  BY <1>2, <1>4, <1>5 DEF Shared, FreeIsFree
<1>7. Single'
  BY <1>2, <1>3, <1>4 DEF Shared, Single, Holders
<1>8. SetIsFree'
  <2> SUFFICES ASSUME NEW d \in Client, NEW q \in Opener, Inside(d, q)',
                      Wanted(d, q)' \in Port
               PROVE  usage'[Wanted(d, q)'] = 0
    BY DEF SetIsFree
  <2>1. << d, q >> # << c, o >> /\ Inside(d, q) /\ Wanted(d, q)' = Wanted(d, q)
    BY GoneOn
  <2>2. Wanted(d, q) # p
    BY <1>2, <2>1 DEF Shared, SetIsAlone
  <2> QED BY <1>2, <1>5, <2>1, <2>2 DEF Shared, SetIsFree
<1>9. SetIsAlone'
  BY <1>2, GoneOn DEF Shared, SetIsAlone
<1> QED BY <1>6, <1>7, <1>8, <1>9 DEF Shared

(* A port that is given back, or was not got. *)
LEMMA BusyKeeps ==
  ASSUME IInv, NEW c \in Client, NEW o \in Opener, Busy(c, o) PROVE IInv'
<1> DEFINE p == Wanted(c, o)
           open == holds[c] \cap PortsOf(o)
<1>1. CASE p \notin Vital
  <2>1. GoesOn(c, o) /\ UNCHANGED << usage, holds, raced >>
    BY <1>1 DEF Busy
  <2>2. Shape'
    BY <2>1, GoneOn DEF IInv, Shape, HoldsShape, UsageShape
  <2> SUFFICES ASSUME ~raced PROVE Shared'
    BY <2>2, <2>1 DEF IInv
  <2>3. FreeIsFree' /\ Single'
    BY <2>1 DEF IInv, Shared, FreeIsFree, Single, Holders
  <2>4. SetIsFree' /\ SetIsAlone'
    <3>1. \A d \in Client, q \in Opener :
            Inside(d, q)' => Inside(d, q) /\ Wanted(d, q)' = Wanted(d, q)
      BY <2>1, GoneOn
    <3> QED BY <2>1, <3>1 DEF IInv, Shared, SetIsFree, SetIsAlone
  <2> QED BY <2>3, <2>4 DEF Shared
<1>2. CASE p \in Vital
  <2>1. /\ Goes(c, o, "gone") /\ UNCHANGED << todo, raced >>
        /\ usage' = [q \in Port |-> IF q \in open THEN 0 ELSE usage[q]]
        /\ holds' = [holds EXCEPT ![c] = @ \ open]
    BY <1>2 DEF Busy
  <2>2. Shape'
    <3>1. AtShape' /\ TodoShape'
      BY <2>1, Openers DEF IInv, Shape, AtShape, TodoShape, Goes, Doing
    <3>2. HoldsShape' /\ UsageShape'
      BY <2>1 DEF IInv, Shape, HoldsShape, UsageShape
    <3> QED BY <3>1, <3>2 DEF Shape
  <2> SUFFICES ASSUME ~raced PROVE Shared'
    BY <2>2, <2>1 DEF IInv
  <2>3. Shared
    BY DEF IInv
  <2>4. \A d \in Client : holds'[d] = IF d = c THEN holds[d] \ open ELSE holds[d]
    BY <2>1 DEF IInv, Shape, HoldsShape
  <2>5. \A d \in Client, q \in Opener :
          (Inside(d, q)' => Inside(d, q)) /\ Wanted(d, q)' = Wanted(d, q)
    BY <2>1, Openers DEF IInv, Shape, AtShape, Goes, Inside, Wanted
  <2>6. FreeIsFree'
    BY <2>1, <2>3, <2>4 DEF Shared, FreeIsFree, Single, Holders
  <2>7. Single'
    BY <2>3, <2>4 DEF Shared, Single, Holders
  <2>8. SetIsFree' /\ SetIsAlone'
    BY <2>1, <2>3, <2>5 DEF Shared, SetIsFree, SetIsAlone
  <2> QED BY <2>6, <2>7, <2>8 DEF Shared
<1> QED BY <1>1, <1>2

LEMMA CloseKeeps ==
  ASSUME IInv, NEW c \in Client, NEW o \in Opener, Close(c, o) PROVE IInv'
<1> DEFINE p == First(Closes[o], todo[c][o])
<1>1. /\ usage' = [usage EXCEPT ![p] = IF p \in holds[c] THEN 0 ELSE @]
      /\ holds' = [holds EXCEPT ![c] = @ \ {p}]
      /\ at[c][o] = "close" /\ UNCHANGED raced
  BY DEF Close
<1>2. \/ Goes(c, o, "gone") /\ UNCHANGED todo
      \/ todo' = [todo EXCEPT ![c][o] = @ \ {p}] /\ UNCHANGED at
  BY DEF Close
<1>3. AtShape' /\ TodoShape' /\ \A d \in Client, q \in Opener : Inside(d, q)' =>
        Inside(d, q) /\ Wanted(d, q)' = Wanted(d, q)
  <2>1. CASE Goes(c, o, "gone") /\ UNCHANGED todo
    <3>1. AtShape' /\ \A d \in Client, q \in Process :
            at'[d][q] = IF d = c /\ q = o THEN "gone" ELSE at[d][q]
      BY <2>1, Openers DEF IInv, Shape, AtShape, Goes, Doing
    <3> QED BY <2>1, <3>1, Openers DEF IInv, Shape, TodoShape, Inside, Wanted
  <2>2. CASE todo' = [todo EXCEPT ![c][o] = @ \ {p}] /\ UNCHANGED at
    <3>1. TodoShape' /\ \A d \in Client, q \in Opener :
            todo'[d][q] = IF d = c /\ q = o THEN todo[c][o] \ {p} ELSE todo[d][q]
      BY <2>2 DEF IInv, Shape, TodoShape
    <3> QED BY <1>1, <2>2, <3>1 DEF IInv, Shape, AtShape, Inside, Wanted
  <2> QED BY <1>2, <2>1, <2>2
<1>4. HoldsShape' /\ UsageShape'
  <2>1. HoldsShape'
    BY <1>1 DEF IInv, Shape, HoldsShape
  <2>2. UsageShape /\ 0 \in 0 .. 1
    BY DEF IInv, Shape
  <2>3. ASSUME p \in holds[c] PROVE UsageShape'
    BY <1>1, <2>2, <2>3, Marks
  <2>4. ASSUME p \notin holds[c] PROVE usage' = usage
    BY <1>1, <2>2, <2>4 DEF UsageShape
  <2>5. UsageShape'
    BY <2>2, <2>3, <2>4 DEF UsageShape
  <2> QED BY <2>1, <2>5
<1> SUFFICES ASSUME ~raced PROVE Shared'
  BY <1>1, <1>3, <1>4 DEF IInv, Shape
<1>5. Shared
  BY DEF IInv
<1>6. \A d \in Client : holds'[d] = IF d = c THEN holds[d] \ {p} ELSE holds[d]
  BY <1>1 DEF IInv, Shape, HoldsShape
<1>7. \A q \in Port : usage'[q] = IF q = p /\ p \in holds[c] THEN 0 ELSE usage[q]
  BY <1>1 DEF IInv, Shape, UsageShape
<1>8. FreeIsFree'
  <2> SUFFICES ASSUME NEW q \in Port, usage'[q] = 0, NEW d \in Client
               PROVE  q \notin holds'[d]
    BY DEF FreeIsFree
  <2>1. CASE q = p /\ p \in holds[c]
    <3>1. \A e \in Client : q \in holds[e] => e = c
      BY <1>5, <2>1 DEF Shared, Single, Holders
    <3> QED BY <1>6, <2>1, <3>1
  <2>2. CASE ~(q = p /\ p \in holds[c])
    BY <1>5, <1>6, <1>7, <2>2 DEF Shared, FreeIsFree
  <2> QED BY <2>1, <2>2
<1>9. Single'
  BY <1>5, <1>6 DEF Shared, Single, Holders
<1>10. SetIsFree' /\ SetIsAlone'
  BY <1>3, <1>5, <1>7 DEF Shared, SetIsFree, SetIsAlone
<1> QED BY <1>8, <1>9, <1>10 DEF Shared

LEMMA Inductive == IInv /\ [Next]_vars => IInv'
<1> SUFFICES ASSUME IInv, [Next]_vars PROVE IInv'
  OBVIOUS
<1>1. ASSUME NEW c \in Client, NEW o \in Opener, Opening(c, o) PROVE IInv'
  BY <1>1, TestKeeps, SetKeeps, BusyKeeps, CloseKeeps DEF Opening
<1>2. ASSUME NEW c \in Client,
             \/ Setup(c) \/ Hold(c) \/ Release(c) \/ KillAll(c) \/ Border(c) \/ EndRadar(c)
             \/ Fork(c) \/ Lift(c) \/ User(c)
             \/ \E p \in Process : Handle(c, p)
             \/ \E p \in Slow : EndSlow(c, p)
      PROVE  IInv'
  BY <1>2, OthersQuiet, QuietKeeps
<1>3. CASE UNCHANGED vars
  BY <1>3, QuietKeeps DEF vars, procs, ports, IInv, Shape, AtShape, TodoShape,
     HoldsShape, UsageShape, Quiet, Inside
<1> QED BY <1>1, <1>2, <1>3, Steps

(* Two clients have a port open at once only if two opens of it overlapped *)
(* between the test and the set in the driver; whatever else they do, in   *)
(* whatever order they start, fail, close and are killed.                  *)
THEOREM PortsExclusive == Spec => []PortExclusive
<1>1. IInv => PortExclusive
  BY DEF IInv, Shared, Single, PortExclusive
<1> QED BY Initial, Inductive, <1>1, PTL DEF Spec

-----------------------------------------------------------------------------
(* The types: those of at, todo and usage are in IInv. *)
FlagTypes ==
  /\ semaphore \in [Client -> 0 .. 1] /\ deep \in [Client -> 0 .. 1]
  /\ junk \subseteq Client /\ clean \subseteq Client /\ hit \subseteq Client
  /\ raced \in BOOLEAN
QuitTypes == quit \in [Client -> SUBSET ({"radar"} \cup Slow)]

LEMMA FlagsKept == FlagTypes /\ [Next]_vars => FlagTypes'
<1> SUFFICES ASSUME FlagTypes, [Next]_vars PROVE FlagTypes'
  OBVIOUS
<1> USE DEF FlagTypes
<1>1. ASSUME NEW c \in Client, NEW o \in Opener, Opening(c, o) PROVE FlagTypes'
  <2>1. CASE TestUsage(c, o)
    BY <2>1 DEF TestUsage, Overlap
  <2>2. CASE SetUsage(c, o)
    BY <2>2 DEF SetUsage
  <2>3. CASE Busy(c, o)
    BY <2>3 DEF Busy
  <2>4. CASE Close(c, o)
    BY <2>4 DEF Close
  <2> QED BY <1>1, <2>1, <2>2, <2>3, <2>4 DEF Opening
<1>2. ASSUME NEW c \in Client, Setup(c) \/ Touch(c) \/ Lift(c) PROVE FlagTypes'
  BY <1>2 DEF Setup, Touch, Lift, procs, ports
<1>3. ASSUME NEW c \in Client, \/ Hold(c) \/ Release(c) \/ KillAll(c) \/ Border(c)
             \/ EndRadar(c) \/ Exit(c) \/ Fork(c)
             \/ \E p \in Slow : EndSlow(c, p)
      PROVE  FlagTypes'
  BY <1>3 DEF Hold, Release, KillAll, Border, EndRadar, Exit, EndSlow, Fork, ports
<1>4. ASSUME NEW c \in Client, Start(c) \/ CtrlC(c) PROVE FlagTypes'
  BY <1>4 DEF Start, CtrlC, ports
<1>5. ASSUME NEW c \in Client, NEW p \in Process, Handle(c, p) PROVE FlagTypes'
  BY <1>5 DEF Handle, ports
<1>6. CASE UNCHANGED vars
  BY <1>6 DEF vars, ports
<1> QED BY <1>1, <1>2, <1>3, <1>4, <1>5, <1>6, Steps DEF User

LEMMA QuitKept == QuitTypes /\ [Next]_vars => QuitTypes'
<1> SUFFICES ASSUME QuitTypes, [Next]_vars PROVE QuitTypes'
  OBVIOUS
<1> USE DEF QuitTypes
<1>1. ASSUME NEW c \in Client, NEW who, NEW panel, Signal(c, who, panel) PROVE QuitTypes'
  BY <1>1 DEF Signal, Child, Unprepared
<1>2. ASSUME NEW c \in Client, KillAll(c) \/ CtrlC(c) PROVE QuitTypes'
  BY <1>1, <1>2 DEF KillAll, CtrlC
<1>3. ASSUME NEW c \in Client, NEW o \in Opener, Opening(c, o) PROVE QuitTypes'
  BY <1>3 DEF Opening, TestUsage, SetUsage, Busy, Close
<1>4. ASSUME NEW c \in Client, \/ Setup(c) \/ Hold(c) \/ Release(c) \/ Border(c)
             \/ EndRadar(c) \/ Exit(c) \/ Fork(c)
             \/ \E p \in Slow : EndSlow(c, p)
      PROVE  QuitTypes'
  BY <1>4 DEF Setup, Hold, Release, Border, EndRadar, Exit, EndSlow, Fork
<1>5. ASSUME NEW c \in Client, Start(c) \/ Touch(c) \/ Lift(c) PROVE QuitTypes'
  BY <1>5 DEF Start, Touch, Lift, procs
<1>6. ASSUME NEW c \in Client, NEW p \in Process, Handle(c, p) PROVE QuitTypes'
  BY <1>6 DEF Handle
<1>7. CASE UNCHANGED vars
  BY <1>7 DEF vars, procs
<1> QED BY <1>2, <1>3, <1>4, <1>5, <1>6, <1>7, Steps DEF User

-----------------------------------------------------------------------------
(***************************************************************************)
(* That a restart finds every port free.  What an opener holds and what it *)
(* has still to do fit together; a port that is marked is held by someone; *)
(* and while a client has the board for itself, nobody else holds a port.  *)
(***************************************************************************)
Early == {"fork", "born"}
Asking == {"test", "set"}
Going == {"setup", "border", "run", "held", "sweep", "kill"}

LeftOf(o) == {S \in SUBSET PortsOf(o) : S # {}}

Owns(c, o) ==
  /\ at[c][o] \in {"off", "gone"} \cup Early => holds[c] \cap PortsOf(o) = {}
  /\ at[c][o] \in Asking => /\ todo[c][o] \in LeftOf(o)
                            /\ holds[c] \cap todo[c][o] = {}
  /\ at[c][o] \in Going \cup {"off"} \cup Early => todo[c][o] = PortsOf(o)
  /\ at[c][o] = "close" => /\ todo[c][o] \in LeftOf(o)
                           /\ holds[c] \cap PortsOf(o) \subseteq todo[c][o]
OwnPorts == \A c \in Client, o \in Opener : Owns(c, o)

MarkedIsHeld == \A p \in Port : usage[p] = 1 => \E c \in Client : p \in holds[c]

NotBegun == \A c \in Client :
  at[c]["panel"] = "off" => at[c]["radar"] = "off" /\ failed[c] = {}

CleanAlone == \A c \in clean :
  /\ failed[c] = {} /\ at[c]["panel"] # "off"
  /\ \A d \in Client \ {c}, o \in Opener : ~Alive(d, o)

PortTypes == holds \in [Client -> SUBSET Port] /\ failed \in [Client -> SUBSET Port]
                                               /\ clean \subseteq Client

Restart == PortTypes /\ OwnPorts /\ MarkedIsHeld /\ NotBegun /\ CleanAlone

LEMMA PortsOfTwo ==
  /\ PortsOf("panel") \cap PortsOf("radar") = {}
  /\ \A o \in Opener : PortsOf(o) # {} /\ PortsOf(o) \subseteq Port
BY ClientAssumption DEF PortsOf, Opener

(* First finds a member of the set in a list of three, or of two. *)
LEMMA FirstOfThree ==
  ASSUME NEW x, NEW y, NEW z, NEW S, x \in S \/ y \in S \/ z \in S
  PROVE  First(<< x, y, z >>, S) \in S
<1> DEFINE list == << x, y, z >>
           Is(i) == list[i] \in S /\ \A j \in 1 .. i - 1 : list[j] \notin S
<1>1. DOMAIN list = 1 .. 3 /\ list[1] = x /\ list[2] = y /\ list[3] = z
  OBVIOUS
<1> HIDE DEF list
<1>2. \E i \in DOMAIN list : Is(i)
  <2>1. CASE x \in S
    <3>1. 1 \in DOMAIN list /\ Is(1)
      BY <1>1, <2>1
    <3> QED BY <3>1
  <2>2. CASE x \notin S /\ y \in S
    <3>1. \A j \in 1 .. 2 - 1 : j = 1
      OBVIOUS
    <3>2. 2 \in DOMAIN list /\ Is(2)
      BY <1>1, <2>2, <3>1
    <3> QED BY <3>2
  <2>3. CASE x \notin S /\ y \notin S /\ z \in S
    <3>1. \A j \in 1 .. 3 - 1 : j = 1 \/ j = 2
      OBVIOUS
    <3>2. 3 \in DOMAIN list /\ Is(3)
      BY <1>1, <2>3, <3>1
    <3> QED BY <3>2
  <2> QED BY <2>1, <2>2, <2>3
<1> QED BY <1>2 DEF First, list

LEMMA FirstOfTwo ==
  ASSUME NEW x, NEW y, NEW S, x \in S \/ y \in S
  PROVE  First(<< x, y >>, S) \in S
<1> DEFINE list == << x, y >>
           Is(i) == list[i] \in S /\ \A j \in 1 .. i - 1 : list[j] \notin S
<1>1. DOMAIN list = 1 .. 2 /\ list[1] = x /\ list[2] = y
  OBVIOUS
<1> HIDE DEF list
<1>2. \E i \in DOMAIN list : Is(i)
  <2>1. CASE x \in S
    <3>1. 1 \in DOMAIN list /\ Is(1)
      BY <1>1, <2>1
    <3> QED BY <3>1
  <2>2. CASE x \notin S /\ y \in S
    <3>1. \A j \in 1 .. 2 - 1 : j = 1
      OBVIOUS
    <3>2. 2 \in DOMAIN list /\ Is(2)
      BY <1>1, <2>2, <3>1
    <3> QED BY <3>2
  <2> QED BY <2>1, <2>2
<1> QED BY <1>2 DEF First, list

(* The next port is one of those that are left. *)
LEMMA FirstIsLeft ==
  ASSUME NEW o \in Opener, NEW S \in LeftOf(o)
  PROVE  First(Opens[o], S) \in S /\ First(Closes[o], S) \in S
<1>1. CASE o = "panel"
  <2>1. /\ Opens[o] = << "switch", "buzzer", "lcd" >>
        /\ Closes[o] = << "buzzer", "switch", "lcd" >>
        /\ "switch" \in S \/ "buzzer" \in S \/ "lcd" \in S
    BY <1>1 DEF Opens, Closes, PortsOf, LeftOf
  <2> QED BY <2>1, FirstOfThree
<1>2. CASE o = "radar"
  <2>1. /\ Opens[o] = << "fnd", "dot" >> /\ Closes[o] = << "dot", "fnd" >>
        /\ "fnd" \in S \/ "dot" \in S
    BY <1>2 DEF Opens, Closes, PortsOf, LeftOf
  <2> QED BY <2>1, FirstOfTwo
<1> QED BY <1>1, <1>2 DEF Opener

LEMMA RestartInit == Init => Restart
<1> SUFFICES ASSUME Init PROVE Restart
  OBVIOUS
<1>1. {} \in SUBSET Port
  OBVIOUS
<1>2. PortTypes
  BY <1>1 DEF Init, PortTypes
<1>3. \A c \in Client, o \in Opener : /\ at[c][o] = "off" /\ holds[c] = {}
                                      /\ todo[c][o] = PortsOf(o)
  BY Openers DEF Init
<1>4. OwnPorts
  BY <1>3 DEF OwnPorts, Owns, Asking
<1>5. MarkedIsHeld
  BY DEF Init, MarkedIsHeld
<1>6. NotBegun
  BY <1>3 DEF Init, NotBegun, Opener
<1>7. CleanAlone
  BY DEF Init, CleanAlone
<1> QED BY <1>2, <1>4, <1>5, <1>6, <1>7 DEF Restart

(* The steps that open and close nothing: an opener begins to ask for a    *)
(* port, goes about its work, begins to close or dies before it has begun. *)
Mild ==
  /\ UNCHANGED << usage, holds, failed, todo, clean >>
  /\ \A c \in Client, o \in Opener :
       \/ at'[c][o] = at[c][o]
       \/ at[c][o] \in Asking /\ at'[c][o] \in Asking
       \/ at[c][o] \in Going /\ at'[c][o] \in Going \cup {"close"}
       \/ at[c][o] \in Early /\ at'[c][o] \in {"test", "gone"}

LEMMA MildKeeps == Restart /\ Mild => Restart'
<1> SUFFICES ASSUME Restart, Mild PROVE Restart'
  OBVIOUS
<1> USE DEF Restart, Mild
<1>1. PortTypes' /\ MarkedIsHeld'
  BY DEF PortTypes, MarkedIsHeld
<1>2. OwnPorts'
  BY PortsOfTwo DEF OwnPorts, Owns, LeftOf, Asking, Going, Early
<1>3. \A c \in Client, o \in Opener : /\ at'[c][o] = "off" <=> at[c][o] = "off"
                                      /\ Alive(c, o)' => Alive(c, o)
  BY DEF Asking, Going, Early, Alive
<1>4. NotBegun' /\ CleanAlone'
  BY <1>3 DEF NotBegun, CleanAlone, PortTypes, Opener
<1> QED BY <1>1, <1>2, <1>4

LEMMA MildSteps ==
  ASSUME IInv, NEW c \in Client,
         \/ \E o \in Opener : TestUsage(c, o)
         \/ Setup(c) \/ Hold(c) \/ Release(c) \/ KillAll(c) \/ Border(c) \/ EndRadar(c)
         \/ Lift(c) \/ Touch(c) \/ Exit(c) \/ CtrlC(c) \/ \E p \in Slow : EndSlow(c, p)
         \/ \E p \in Process : Handle(c, p)
  PROVE  Mild
<1> USE DEF Mild, Goes, IInv, Shape, AtShape
<1>1. ASSUME NEW o \in Opener, TestUsage(c, o) PROVE Mild
  BY <1>1, Openers DEF TestUsage, Asking
<1>2. CASE Setup(c) \/ Hold(c) \/ Release(c) \/ Border(c) \/ EndRadar(c) \/ Exit(c)
  BY <1>2, Openers DEF Setup, Hold, Release, Border, EndRadar, Exit, ports, Going, Opener
<1>3. CASE \E p \in Slow : EndSlow(c, p)
  BY <1>3, Openers, ClientAssumption DEF EndSlow, ports, Opener
<1>4. CASE KillAll(c)
  BY <1>4, Openers DEF KillAll, Signal, Unprepared, ports, Going, Early, Opener, Quick
<1>5. CASE CtrlC(c)
  BY <1>5, Openers DEF CtrlC, Signal, Unprepared, ports, Early, Opener, Quick
<1>6. CASE Lift(c) \/ Touch(c)
  BY <1>6 DEF Lift, Touch, procs, ports
<1>7. ASSUME NEW p \in Process, Handle(c, p) PROVE Mild
  BY <1>7, Openers DEF Handle, ports, Early
<1> QED BY <1>1, <1>2, <1>3, <1>4, <1>5, <1>6, <1>7

(* A fork: the client's main is there already.                             *)
LEMMA ForkKeeps ==
  ASSUME IInv, Restart, NEW c \in Client, Fork(c) PROVE Restart'
<1> USE DEF Restart
<1>1. UNCHANGED << usage, holds, failed, todo, clean >> /\ at[c]["panel"] = "fork"
  BY DEF Fork, ports
<1>2. PICK p \in Child : /\ at[c][p] = "off"
                         /\ Goes(c, p, IF p \in Quick THEN "run" ELSE "born")
  BY DEF Fork
<1>3. p # "panel"
  BY <1>1, <1>2
<1>4. \A d \in Client, o \in Opener :
        at'[d][o] = IF d = c /\ o = p THEN "born" ELSE at[d][o]
  BY <1>2, Openers DEF Goes, IInv, Shape, AtShape, Process, Opener, Quick
<1>5. PortTypes' /\ MarkedIsHeld'
  BY <1>1 DEF PortTypes, MarkedIsHeld
<1>6. OwnPorts'
  BY <1>1, <1>2, <1>4 DEF OwnPorts, Owns, Early, Asking, Going
<1>7. NotBegun'
  BY <1>1, <1>3, <1>4 DEF NotBegun, Opener
<1>8. clean \subseteq {c}
  BY <1>1 DEF CleanAlone, PortTypes, Alive, Opener
<1>9. CleanAlone'
  BY <1>1, <1>3, <1>4, <1>8 DEF CleanAlone, Alive, Opener
<1> QED BY <1>5, <1>6, <1>7, <1>9

LEMMA StartKeeps ==
  ASSUME IInv, Restart, NEW c \in Client, Start(c) PROVE Restart'
<1> USE DEF Restart
<1>1. UNCHANGED << usage, holds, failed, todo >> /\ at[c]["panel"] = "off"
  BY DEF Start, ports
<1>2. \A d \in Client, o \in Opener :
        at'[d][o] = IF d = c /\ o = "panel" THEN "fork" ELSE at[d][o]
  BY Openers DEF Start, Goes, IInv, Shape, AtShape
<1>3. \A o \in Opener : at[c][o] = "off"
  BY <1>1 DEF NotBegun, Opener
<1>4. /\ clean' \subseteq {c}
      /\ clean' # {} => \A d \in Client, o \in Opener : ~Alive(d, o)
  BY DEF Start
<1>5. PortTypes' /\ MarkedIsHeld'
  BY <1>1, <1>4 DEF PortTypes, MarkedIsHeld
<1>6. OwnPorts'
  <2> SUFFICES ASSUME NEW d \in Client, NEW o \in Opener
               PROVE  Owns(d, o)'
    BY DEF OwnPorts
  <2>1. CASE d = c
    BY <1>1, <1>2, <1>3, <2>1 DEF OwnPorts, Owns, Early, Asking, Going
  <2>2. CASE d # c
    BY <1>1, <1>2, <2>2 DEF OwnPorts, Owns
  <2> QED BY <2>1, <2>2
<1>7. NotBegun'
  BY <1>1, <1>2 DEF NotBegun, Opener
<1>8. CleanAlone'
  BY <1>1, <1>2, <1>4 DEF CleanAlone, NotBegun, Alive, Opener
<1> QED BY <1>5, <1>6, <1>7, <1>8

(* The other steps change one opener, and what its client holds. *)
LEMMA SetRestart ==
  ASSUME IInv, Restart, NEW c \in Client, NEW o \in Opener, SetUsage(c, o)
  PROVE  Restart'
<1> DEFINE p == Wanted(c, o)
<1> USE DEF Restart
<1>1. /\ at[c][o] = "set" /\ UNCHANGED << failed, clean >>
      /\ usage' = [usage EXCEPT ![p] = 1]
      /\ holds' = [holds EXCEPT ![c] = @ \cup {p}]
  BY DEF SetUsage
<1>2. /\ todo[c][o] \in LeftOf(o) /\ holds[c] \cap todo[c][o] = {}
      /\ p \in todo[c][o] /\ p \in PortsOf(o) /\ p \in Port
  <2>1. todo[c][o] \in LeftOf(o) /\ holds[c] \cap todo[c][o] = {}
    BY <1>1 DEF OwnPorts, Owns, Asking
  <2>2. p \in todo[c][o]
    BY <2>1, FirstIsLeft DEF Wanted
  <2> QED BY <2>1, <2>2, PortsOfTwo DEF LeftOf
<1> HIDE DEF p
<1>3. \A d \in Client : holds'[d] = IF d = c THEN holds[d] \cup {p} ELSE holds[d]
  BY <1>1 DEF PortTypes
<1>4. PortTypes' /\ MarkedIsHeld'
  BY <1>1, <1>2, <1>3 DEF PortTypes, MarkedIsHeld, IInv, Shape, UsageShape
<1>5. /\ \A d \in Client, q \in Opener : << d, q >> # << c, o >> =>
           at'[d][q] = at[d][q] /\ todo'[d][q] = todo[d][q]
      /\ \/ at'[c][o] \in Going /\ todo'[c][o] = PortsOf(o)
         \/ at'[c][o] = "test" /\ todo'[c][o] = todo[c][o] \ {p} /\ todo[c][o] # {p}
  BY Openers DEF SetUsage, GoesOn, Goes, Going, IInv, Shape, AtShape, TodoShape, p
<1>6. OwnPorts'
  <2> SUFFICES ASSUME NEW d \in Client, NEW q \in Opener
               PROVE  Owns(d, q)'
    BY DEF OwnPorts
  <2>1. CASE << d, q >> = << c, o >>
    BY <1>2, <1>3, <1>5, <2>1 DEF Owns, Early, Asking, Going, LeftOf
  <2>2. CASE d = c /\ q # o
    <3>1. p \notin PortsOf(q)
      BY <1>2, <2>2, PortsOfTwo DEF Opener
    <3>2. at'[d][q] = at[d][q] /\ todo'[d][q] = todo[d][q]
      BY <1>5, <2>2
    <3>3. holds'[d] = holds[d] \cup {p} /\ (todo[d][q] \in LeftOf(q) => p \notin todo[d][q])
      BY <1>3, <2>2, <3>1 DEF LeftOf
    <3> QED BY <3>1, <3>2, <3>3 DEF OwnPorts, Owns
  <2>3. CASE d # c
    <3>1. at'[d][q] = at[d][q] /\ todo'[d][q] = todo[d][q] /\ holds'[d] = holds[d]
      BY <1>3, <1>5, <2>3
    <3> QED BY <3>1 DEF OwnPorts, Owns
  <2> QED BY <2>1, <2>2, <2>3
<1>7. \A d \in Client, q \in Opener : /\ at'[d][q] = "off" <=> at[d][q] = "off"
                                      /\ Alive(d, q)' => Alive(d, q)
  BY <1>1, <1>5 DEF Going, Alive
<1>8. NotBegun' /\ CleanAlone'
  BY <1>1, <1>7 DEF NotBegun, CleanAlone, PortTypes, Opener
<1> QED BY <1>4, <1>6, <1>8

(* A clean client meets no port in use: nobody else holds one, and what it *)
(* holds itself is not what it has still to open.                          *)
LEMMA CleanIsNotRefused ==
  ASSUME IInv, Restart, NEW c \in clean, NEW o \in Opener, at[c][o] \in Asking
  PROVE  usage[Wanted(c, o)] # 1
<1> DEFINE p == Wanted(c, o)
<1> USE DEF Restart
<1>1. c \in Client
  BY DEF PortTypes
<1>2. todo[c][o] \in LeftOf(o) /\ holds[c] \cap todo[c][o] = {}
  BY <1>1 DEF OwnPorts, Owns
<1>3. p \in todo[c][o]
  BY <1>2, FirstIsLeft DEF Wanted
<1>4. p \in PortsOf(o) /\ p \in Port
  BY <1>2, <1>3, PortsOfTwo DEF LeftOf
<1> HIDE DEF p
<1> SUFFICES ASSUME usage[p] = 1 PROVE FALSE
  BY DEF p
<1>5. PICK d \in Client : p \in holds[d]
  BY <1>4 DEF MarkedIsHeld
<1>6. d # c
  BY <1>2, <1>3, <1>5
<1>7. at[d][o] \in {"off", "gone"}
  BY <1>6 DEF CleanAlone, Alive
<1>8. holds[d] \cap PortsOf(o) = {}
  BY <1>7 DEF OwnPorts, Owns
<1> QED BY <1>4, <1>5, <1>8

LEMMA BusyRestart ==
  ASSUME IInv, Restart, NEW c \in Client, NEW o \in Opener, Busy(c, o)
  PROVE  Restart'
<1> DEFINE p == Wanted(c, o)
           open == holds[c] \cap PortsOf(o)
<1> USE DEF Restart
<1>1. /\ at[c][o] = "test" /\ usage[p] = 1 /\ UNCHANGED clean
      /\ failed' = [failed EXCEPT ![c] = @ \cup {p}]
  BY DEF Busy
<1>2. todo[c][o] \in LeftOf(o) /\ holds[c] \cap todo[c][o] = {} /\ p \in todo[c][o] /\ p \in Port
  <2>1. todo[c][o] \in LeftOf(o) /\ holds[c] \cap todo[c][o] = {}
    BY <1>1 DEF OwnPorts, Owns, Asking
  <2>2. p \in todo[c][o]
    BY <2>1, FirstIsLeft DEF Wanted
  <2> QED BY <2>1, <2>2, PortsOfTwo DEF LeftOf
<1>3. c \notin clean
  BY <1>1, CleanIsNotRefused DEF Asking
<1> HIDE DEF p
<1>4. \A d \in Client : failed'[d] = IF d = c THEN failed[d] \cup {p} ELSE failed[d]
  BY <1>1 DEF PortTypes
<1>5. failed' \in [Client -> SUBSET Port]
  BY <1>1, <1>2 DEF PortTypes
<1>6. \/ /\ UNCHANGED << usage, holds >>
         /\ \/ at'[c][o] \in Going /\ todo'[c][o] = PortsOf(o)
            \/ at'[c][o] = "test" /\ todo'[c][o] = todo[c][o] \ {p} /\ todo[c][o] # {p}
      \/ /\ at'[c][o] = "gone"
         /\ usage' = [q \in Port |-> IF q \in open THEN 0 ELSE usage[q]]
         /\ holds' = [holds EXCEPT ![c] = @ \ open]
  BY Openers DEF Busy, GoesOn, Goes, Going, IInv, Shape, AtShape, TodoShape, p
<1>7. \A d \in Client, q \in Opener : << d, q >> # << c, o >> =>
        at'[d][q] = at[d][q] /\ todo'[d][q] = todo[d][q]
  BY Openers DEF Busy, GoesOn, Goes, IInv, Shape, AtShape, TodoShape
<1>8. \A d \in Client : /\ holds'[d] \subseteq holds[d]
                        /\ holds[d] \ open \subseteq holds'[d]
                        /\ d # c => holds'[d] = holds[d]
  BY <1>6 DEF PortTypes
<1>9. PortTypes'
  <2>1. holds' \in [Client -> SUBSET Port]
    BY <1>6 DEF PortTypes
  <2> QED BY <1>1, <1>5, <2>1 DEF PortTypes
<1>10. MarkedIsHeld'
  BY <1>6, <1>8 DEF MarkedIsHeld, PortTypes
<1>11. OwnPorts'
  <2> SUFFICES ASSUME NEW d \in Client, NEW q \in Opener
               PROVE  Owns(d, q)'
    BY DEF OwnPorts
  <2>1. CASE << d, q >> = << c, o >>
    <3>1. CASE at'[c][o] = "gone"
      <4>1. holds'[c] \cap PortsOf(o) = {}
        BY <1>2, <1>6, <3>1 DEF Going, PortTypes
      <4> QED BY <2>1, <3>1, <4>1 DEF Owns, Early, Asking, Going
    <3>2. CASE at'[c][o] # "gone"
      BY <1>2, <1>6, <2>1, <3>2 DEF Owns, Early, Asking, Going, LeftOf
    <3> QED BY <3>1, <3>2
  <2>2. CASE << d, q >> # << c, o >>
    <3>1. at'[d][q] = at[d][q] /\ todo'[d][q] = todo[d][q] /\ holds'[d] \subseteq holds[d]
      BY <1>7, <1>8, <2>2
    <3> QED BY <3>1 DEF OwnPorts, Owns
  <2> QED BY <2>1, <2>2
<1>12. \A d \in Client, q \in Opener : /\ at'[d][q] = "off" <=> at[d][q] = "off"
                                       /\ Alive(d, q)' => Alive(d, q)
  BY <1>1, <1>6, <1>7 DEF Going, Alive
<1>13. NotBegun'
  BY <1>1, <1>4, <1>12 DEF NotBegun, Opener
<1>14. CleanAlone'
  BY <1>1, <1>3, <1>4, <1>12 DEF CleanAlone, PortTypes, Opener
<1> QED BY <1>9, <1>10, <1>11, <1>13, <1>14

LEMMA CloseRestart ==
  ASSUME IInv, Restart, NEW c \in Client, NEW o \in Opener, Close(c, o)
  PROVE  Restart'
<1> DEFINE p == First(Closes[o], todo[c][o])
<1> USE DEF Restart
<1>1. /\ at[c][o] = "close" /\ UNCHANGED << clean, failed >>
      /\ usage' = [usage EXCEPT ![p] = IF p \in holds[c] THEN 0 ELSE @]
      /\ holds' = [holds EXCEPT ![c] = @ \ {p}]
  BY DEF Close
<1>2. /\ todo[c][o] \in LeftOf(o) /\ holds[c] \cap PortsOf(o) \subseteq todo[c][o]
      /\ p \in todo[c][o] /\ p \in PortsOf(o) /\ p \in Port
  <2>1. todo[c][o] \in LeftOf(o) /\ holds[c] \cap PortsOf(o) \subseteq todo[c][o]
    BY <1>1 DEF OwnPorts, Owns
  <2>2. p \in todo[c][o]
    BY <2>1, FirstIsLeft
  <2> QED BY <2>1, <2>2, PortsOfTwo DEF LeftOf
<1>3. /\ \/ at'[c][o] = "gone" /\ todo[c][o] = {p}
         \/ at'[c][o] = "close" /\ todo'[c][o] = todo[c][o] \ {p} /\ todo[c][o] # {p}
      /\ \A d \in Client, q \in Opener : << d, q >> # << c, o >> =>
           at'[d][q] = at[d][q] /\ todo'[d][q] = todo[d][q]
  BY <1>1, Openers DEF Close, Goes, IInv, Shape, AtShape, TodoShape
<1> HIDE DEF p
<1>4. \A d \in Client : holds'[d] = IF d = c THEN holds[d] \ {p} ELSE holds[d]
  BY <1>1 DEF PortTypes
<1>5. PortTypes'
  BY <1>1 DEF PortTypes
<1>6. MarkedIsHeld'
  <2> SUFFICES ASSUME NEW q \in Port, usage'[q] = 1
               PROVE  \E d \in Client : q \in holds'[d]
    BY DEF MarkedIsHeld
  <2>1. usage[q] = 1 /\ (q = p => p \notin holds[c])
    BY <1>1, <1>2 DEF IInv, Shape, UsageShape
  <2>2. PICK d \in Client : q \in holds[d]
    BY <2>1 DEF MarkedIsHeld
  <2> QED BY <1>4, <2>1, <2>2
<1>7. OwnPorts'
  <2> SUFFICES ASSUME NEW d \in Client, NEW q \in Opener
               PROVE  Owns(d, q)'
    BY DEF OwnPorts
  <2>1. CASE << d, q >> = << c, o >>
    BY <1>2, <1>3, <1>4, <2>1 DEF Owns, Early, Asking, Going, LeftOf
  <2>2. CASE << d, q >> # << c, o >>
    <3>1. at'[d][q] = at[d][q] /\ todo'[d][q] = todo[d][q] /\ holds'[d] \subseteq holds[d]
      BY <1>3, <1>4, <2>2
    <3> QED BY <3>1 DEF OwnPorts, Owns
  <2> QED BY <2>1, <2>2
<1>8. \A d \in Client, q \in Opener : /\ at'[d][q] = "off" <=> at[d][q] = "off"
                                      /\ Alive(d, q)' => Alive(d, q)
  BY <1>1, <1>3 DEF Alive
<1>9. NotBegun' /\ CleanAlone'
  BY <1>1, <1>8 DEF NotBegun, CleanAlone, PortTypes, Opener
<1> QED BY <1>5, <1>6, <1>7, <1>9

LEMMA RestartKept == IInv /\ Restart /\ [Next]_vars => Restart'
<1> SUFFICES ASSUME IInv, Restart, [Next]_vars PROVE Restart'
  OBVIOUS
<1>1. ASSUME NEW c \in Client, NEW o \in Opener, Opening(c, o) PROVE Restart'
  BY <1>1, MildSteps, MildKeeps, SetRestart, BusyRestart, CloseRestart DEF Opening
<1>2. ASSUME NEW c \in Client, Start(c) \/ Fork(c) PROVE Restart'
  BY <1>2, StartKeeps, ForkKeeps
<1>3. ASSUME NEW c \in Client,
             \/ Setup(c) \/ Hold(c) \/ Release(c) \/ KillAll(c) \/ Border(c) \/ EndRadar(c)
             \/ Lift(c) \/ Touch(c) \/ Exit(c) \/ CtrlC(c) \/ \E p \in Slow : EndSlow(c, p)
             \/ \E p \in Process : Handle(c, p)
      PROVE  Restart'
  BY <1>3, MildSteps, MildKeeps
<1>4. CASE UNCHANGED vars
  <2>1. Mild
    BY <1>4 DEF vars, procs, ports, Mild
  <2> QED BY <2>1, MildKeeps
<1> QED BY <1>1, <1>2, <1>3, <1>4, Steps DEF User

(* A client that is started when no panel and no radar is left, and has    *)
(* the board for itself, gets every port, however the clients before it    *)
(* came to their end, and whatever they could not open themselves.         *)
THEOREM CleanStartProved == Spec => []CleanStart
<1>1. Restart => CleanStart
  BY DEF Restart, CleanAlone, CleanStart
<1> QED BY Initial, Inductive, RestartInit, RestartKept, <1>1, PTL DEF Spec

-----------------------------------------------------------------------------
(* Every variable keeps its type, for any number of clients and any set of *)
(* processes: a port's usage, in particular, stays 0 or 1.                 *)
THEOREM TypeCorrect == Spec => []TypeOK
<1>1. Init => FlagTypes /\ QuitTypes
  <2>1. Init => FlagTypes
    <3>1. Init => semaphore \in [Client -> 0 .. 1] /\ deep \in [Client -> 0 .. 1]
      BY DEF Init
    <3>2. Init => junk = {} /\ clean = {} /\ hit = {} /\ raced = FALSE
      BY DEF Init
    <3> QED BY <3>1, <3>2 DEF FlagTypes
  <2>2. {} \in SUBSET ({"radar"} \cup Slow)
    OBVIOUS
  <2>3. Init => QuitTypes
    BY <2>2 DEF Init, QuitTypes
  <2> QED BY <2>1, <2>3
<1>2. IInv /\ Restart /\ FlagTypes /\ QuitTypes => TypeOK
  BY DEF IInv, Restart, PortTypes, Shape, AtShape, TodoShape, UsageShape, Doing,
         FlagTypes, QuitTypes, TypeOK
<1> QED BY Initial, Inductive, RestartInit, RestartKept, FlagsKept, QuitKept,
           <1>1, <1>2, PTL DEF Spec
=============================================================================
