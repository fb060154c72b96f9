-------------------------- MODULE ClientProcesses ---------------------------
(***************************************************************************)
(* The processes of the radar client as the kernel sees them: main forks   *)
(* six children and becomes the panel (fpga_process); panel and radar open *)
(* ports of the FPGA, which a driver gives to one process at a time; the   *)
(* exit switch makes the panel send SIGINT to its children, and Ctrl-C     *)
(* sends it to all of a client.  The program can be started again, at once *)
(* from another terminal, or when the panel has ended.                     *)
(*                                                                         *)
(* A client has its memory (semaphore, deep, quit) for itself; all clients *)
(* share the ports and the touch screen.                                   *)
(***************************************************************************)
EXTENDS Integers, Sequences

CONSTANTS Client,   \* the times the program is started
          Port,     \* ports looked at: switch, buzzer, lcd, fnd and dot
          Slow,     \* children that only wait for quit: receive, up_down and
                    \* left_right
          Whole,    \* bound: clients whose slow children are looked at
          Typed,    \* bound: clients that Ctrl-C may be typed to, once
          Touched   \* bound: clients whose buttons may be touched

ASSUME ClientAssumption ==
  /\ Whole \subseteq Client /\ Typed \subseteq Client /\ Touched \subseteq Client
  /\ {"buzzer", "dot"} \subseteq Port
  /\ Port \subseteq {"switch", "buzzer", "lcd", "fnd", "dot"}
  /\ Slow \subseteq {"receive", "up_down", "left_right"}

Quick == {"sender", "touch"}             \* never with a handler for SIGINT
Child == {"radar"} \cup Quick \cup Slow
Process == {"panel"} \cup Child

(* The order of the forks.                                                 *)
Rank == [sender |-> 0, receive |-> 1, radar |-> 2, touch |-> 3, up_down |-> 4,
         left_right |-> 5]

(* The openers and the order in which they open and close their ports.    *)
Opener == {"panel", "radar"}
Opens == [o \in Opener |->
  IF o = "panel" THEN << "switch", "buzzer", "lcd" >> ELSE << "fnd", "dot" >>]
Closes == [o \in Opener |->
  IF o = "panel" THEN << "buzzer", "switch", "lcd" >> ELSE << "dot", "fnd" >>]
PortsOf(o) ==
  Port \cap (IF o = "panel" THEN {"switch", "buzzer", "lcd"} ELSE {"fnd", "dot"})
First(list, S) ==
  list[CHOOSE i \in DOMAIN list : /\ list[i] \in S
                                  /\ \A j \in 1 .. i - 1 : list[j] \notin S]
Vital == {"buzzer", "dot"}               \* without them the process exits

VARIABLES
  at,         \* per client and process: what the process is doing
  todo,       \* per client and opener: the ports it has not yet come to, of
              \* those it opens or, afterwards, closes
  usage,      \* per port: the driver's port_usage
  holds,      \* per client: the ports its processes have open
  quit,       \* per client: the processes whose handler has set quit
  semaphore,  \* per client: 1 while the panel draws its first buttons
  deep,       \* per client: 1 while its touch process sees a finger
  junk,       \* clients whose buffer of switches, never filled, says exit
  (* What follows is not in the code. *)
  failed,     \* per client: the ports it could not open
  clean,      \* the client that has the board for itself from its start
  raced,      \* have two opens of a port overlapped
  hit         \* clients that Ctrl-C was typed to

procs == << at, todo, quit >>
ports == << usage, holds, failed, raced, junk >>
vars == << procs, ports, deep, semaphore, clean, hit >>

(* Children that are not looked at count as gone from the start.           *)
Init ==
  /\ at = [c \in Client |->
             [p \in Process |-> IF p \in Slow /\ c \notin Whole THEN "gone" ELSE "off"]]
  /\ todo = [c \in Client |-> [o \in Opener |-> PortsOf(o)]]
  /\ usage = [p \in Port |-> 0] /\ holds = [c \in Client |-> {}]
  /\ quit = [c \in Client |-> {}]
  /\ semaphore = [c \in Client |-> 1] /\ deep = [c \in Client |-> 0]
  /\ junk = {} /\ failed = [c \in Client |-> {}]
  /\ clean = {} /\ raced = FALSE /\ hit = {}

Alive(c, p) == at[c][p] \notin {"off", "gone"}
Goes(c, p, to) == at' = [at EXCEPT ![c][p] = to]

-----------------------------------------------------------------------------
(* The forks, and the opening of the ports.  An operator Op_Bug is Op with *)
(* a bug the code might have had; no action uses it.                       *)

Start(c) ==
  /\ at[c]["panel"] = "off"
  /\ Goes(c, "panel", "fork")
  /\ clean' = IF \E d \in Client, o \in Opener : Alive(d, o) THEN {} ELSE {c}
  /\ UNCHANGED << todo, quit, ports, deep, semaphore, hit >>

(* main forks the next child.  Those that will have a handler are without  *)
(* it at first.                                                            *)
Fork(c) ==
  /\ at[c]["panel"] = "fork"
  /\ \E p \in Child :
       /\ at[c][p] = "off"
       /\ \A q \in Child : Rank[q] < Rank[p] => at[c][q] # "off"
       /\ Goes(c, p, IF p \in Quick THEN "run" ELSE "born")
  /\ UNCHANGED << todo, quit, ports, deep, semaphore, clean, hit >>

(* A process installs its handler and begins its work; main does when all  *)
(* its children are there, and is the panel from then on.                  *)
Handle(c, p) ==
  /\ \/ at[c][p] = "born"
     \/ p = "panel" /\ at[c][p] = "fork" /\ \A q \in Child : at[c][q] # "off"
  /\ Goes(c, p, IF p \in Opener THEN "test" ELSE "run")
  /\ UNCHANGED << todo, quit, ports, deep, semaphore, clean, hit >>

Wanted(c, o) == First(Opens[o], todo[c][o])

(* The next open, or what the opener does after its last one. *)
GoesOn(c, o) ==
  IF todo[c][o] = {Wanted(c, o)}
  THEN /\ Goes(c, o, IF o = "panel" THEN "setup" ELSE "border")
       /\ todo' = [todo EXCEPT ![c][o] = PortsOf(o)]
  ELSE /\ Goes(c, o, "test")
       /\ todo' = [todo EXCEPT ![c][o] = @ \ {Wanted(c, o)}]

Overlap(c, o) ==
  \E d \in Client, q \in Opener :
    << d, q >> # << c, o >> /\ at[d][q] = "set" /\ Wanted(d, q) = Wanted(c, o)

(* The driver looks at nothing. *)
TestUsage_Not(c, o) ==
  /\ at[c][o] = "test"
  /\ Goes(c, o, "set") /\ raced' = (raced \/ Overlap(c, o))
  /\ UNCHANGED << todo, quit, usage, holds, failed, junk, deep, semaphore, clean, hit >>

(* The driver's open, first half. *)
TestUsage(c, o) ==
  /\ at[c][o] = "test" /\ usage[Wanted(c, o)] = 0
  /\ Goes(c, o, "set") /\ raced' = (raced \/ Overlap(c, o))
  /\ UNCHANGED << todo, quit, usage, holds, failed, junk, deep, semaphore, clean, hit >>

(* Second half.  Nothing keeps another process out between the two. *)
SetUsage(c, o) ==
  LET p == Wanted(c, o) IN
  /\ at[c][o] = "set"
  /\ usage' = [usage EXCEPT ![p] = 1]
  /\ holds' = [holds EXCEPT ![c] = @ \cup {p}]
  /\ GoesOn(c, o)
  /\ UNCHANGED << quit, failed, raced, junk, deep, semaphore, clean, hit >>

(* The port is busy.  The process exits, and the kernel closes what it has *)
(* open; or it goes on without the port.  A panel without the switches has *)
(* in its buffer for them whatever was on the stack.                       *)
Busy(c, o) ==
  LET p == Wanted(c, o)
      open == holds[c] \cap PortsOf(o) IN
  /\ at[c][o] = "test" /\ usage[p] = 1
  /\ failed' = [failed EXCEPT ![c] = @ \cup {p}]
  /\ IF p \in Vital
     THEN /\ Goes(c, o, "gone") /\ UNCHANGED todo
          /\ usage' = [q \in Port |-> IF q \in open THEN 0 ELSE usage[q]]
          /\ holds' = [holds EXCEPT ![c] = @ \ open]
     ELSE GoesOn(c, o) /\ UNCHANGED << usage, holds >>
  /\ UNCHANGED junk \/ (p = "switch" /\ junk' = junk \cup {c})
  /\ UNCHANGED << quit, raced, deep, semaphore, clean, hit >>

(* The last close is forgotten. *)
Close_LeavesLast(c, o) ==
  LET p == First(Closes[o], todo[c][o]) IN
  /\ at[c][o] = "close"
  /\ IF todo[c][o] = {p}
     THEN Goes(c, o, "gone") /\ UNCHANGED << todo, usage >>
     ELSE /\ todo' = [todo EXCEPT ![c][o] = @ \ {p}] /\ UNCHANGED at
          /\ usage' = [usage EXCEPT ![p] = IF p \in holds[c] THEN 0 ELSE @]
  /\ holds' = [holds EXCEPT ![c] = @ \ {p}]
  /\ UNCHANGED << quit, failed, raced, junk, deep, semaphore, clean, hit >>

(* A close has no effect for a port that the process could not open.       *)
(* After the last one the process ends.                                    *)
Close(c, o) ==
  LET p == First(Closes[o], todo[c][o]) IN
  /\ at[c][o] = "close"
  /\ usage' = [usage EXCEPT ![p] = IF p \in holds[c] THEN 0 ELSE @]
  /\ holds' = [holds EXCEPT ![c] = @ \ {p}]
  /\ IF todo[c][o] = {p}
     THEN Goes(c, o, "gone") /\ UNCHANGED todo
     ELSE todo' = [todo EXCEPT ![c][o] = @ \ {p}] /\ UNCHANGED at
  /\ UNCHANGED << quit, failed, raced, junk, deep, semaphore, clean, hit >>

-----------------------------------------------------------------------------
(* The panel.                                                              *)

(* The lock is not given back after the first buttons. *)
Setup_KeepsLock(c) ==
  /\ at[c]["panel"] = "setup"
  /\ Goes(c, "panel", "run")
  /\ UNCHANGED << todo, quit, ports, deep, semaphore, clean, hit >>

Setup(c) ==
  /\ at[c]["panel"] = "setup"
  /\ semaphore' = [semaphore EXCEPT ![c] = 0]
  /\ Goes(c, "panel", "run")
  /\ UNCHANGED << todo, quit, ports, deep, clean, hit >>

(* It waits for a touch to end. *)
Hold(c) ==
  /\ at[c]["panel"] = "run" /\ deep[c] = 1
  /\ Goes(c, "panel", "held")
  /\ UNCHANGED << todo, quit, ports, deep, semaphore, clean, hit >>

Release(c) ==
  /\ at[c]["panel"] = "held" /\ deep[c] = 0
  /\ Goes(c, "panel", "run")
  /\ UNCHANGED << todo, quit, ports, deep, semaphore, clean, hit >>

(* The exit switch, in a panel that can read it. *)
Exit(c) ==
  /\ at[c]["panel"] = "run"
  /\ "switch" \in holds[c] \/ c \in junk
  /\ Goes(c, "panel", "kill")
  /\ UNCHANGED << todo, quit, ports, deep, semaphore, clean, hit >>

(* SIGINT ends a process without a handler and sets the quit of another.   *)
Unprepared(c, p) == p \in Quick \/ at[c][p] \in {"fork", "born"}

(* SIGINT to the processes in who; the panel, if it lives, goes on as      *)
(* panel says.                                                             *)
Signal(c, who, panel) ==
  LET reached == {p \in who : Alive(c, p)} IN
  /\ at' = [at EXCEPT ![c] = [p \in Process |->
              IF p \in reached /\ Unprepared(c, p) THEN "gone"
              ELSE IF p = "panel" THEN panel ELSE @[p]]]
  /\ quit' = [quit EXCEPT ![c] = @ \cup {p \in reached \cap Child : ~Unprepared(c, p)}]

KillAll(c) ==
  /\ at[c]["panel"] = "kill"
  /\ Signal(c, Child, "close")
  /\ UNCHANGED << todo, ports, deep, semaphore, clean, hit >>

-----------------------------------------------------------------------------
(* The other processes.                                                    *)

(* The radar draws its border as soon as semaphore lets it, quit or not. *)
Border(c) ==
  /\ at[c]["radar"] = "border" /\ semaphore[c] = 0
  /\ Goes(c, "radar", "sweep")
  /\ UNCHANGED << todo, quit, ports, deep, semaphore, clean, hit >>

(* It waits for the panel to end first. *)
EndRadar_Last(c) ==
  /\ at[c]["radar"] = "sweep" /\ "radar" \in quit[c] /\ at[c]["panel"] = "gone"
  /\ Goes(c, "radar", "close")
  /\ UNCHANGED << todo, quit, ports, deep, semaphore, clean, hit >>

(* It looks at quit between two cycles. *)
EndRadar(c) ==
  /\ at[c]["radar"] = "sweep" /\ "radar" \in quit[c]
  /\ Goes(c, "radar", "close")
  /\ UNCHANGED << todo, quit, ports, deep, semaphore, clean, hit >>

EndSlow(c, p) ==
  /\ at[c][p] = "run" /\ p \in quit[c]
  /\ Goes(c, p, "gone")
  /\ UNCHANGED << todo, quit, ports, deep, semaphore, clean, hit >>

(* A finger on the buttons of a client, seen by its touch process.         *)
Touch(c) ==
  /\ c \in Touched /\ at[c]["panel"] = "run" /\ Alive(c, "touch")
  /\ deep' = [deep EXCEPT ![c] = 1]
  /\ UNCHANGED << procs, ports, semaphore, clean, hit >>

(* The finger has left the screen. *)
Lift(c) ==
  /\ deep[c] = 1 /\ Alive(c, "touch")
  /\ deep' = [deep EXCEPT ![c] = 0]
  /\ UNCHANGED << procs, ports, semaphore, clean, hit >>

(* Ctrl-C, in the terminal of a client whose main has not ended.  A panel  *)
(* with its handler goes on: it never looks at its quit.                   *)
CtrlC(c) ==
  /\ Alive(c, "panel") /\ c \in Typed \ hit
  /\ Signal(c, Process, at[c]["panel"])
  /\ hit' = hit \cup {c}
  /\ UNCHANGED << todo, ports, deep, semaphore, clean >>

-----------------------------------------------------------------------------
Opening(c, o) == TestUsage(c, o) \/ SetUsage(c, o) \/ Busy(c, o) \/ Close(c, o)
Panel(c) ==
  \/ Fork(c) \/ Handle(c, "panel") \/ Opening(c, "panel")
  \/ Setup(c) \/ Hold(c) \/ Release(c) \/ KillAll(c)
Radar(c) == Handle(c, "radar") \/ Border(c) \/ EndRadar(c) \/ Opening(c, "radar")
SlowOne(c, p) == Handle(c, p) \/ EndSlow(c, p)
User(c) == Start(c) \/ Touch(c) \/ Exit(c) \/ CtrlC(c)

Next ==
  \/ \E c \in Client :
       \/ Panel(c) \/ Radar(c) \/ Lift(c) \/ User(c)
       \/ \E p \in Slow : SlowOne(c, p)

Spec == Init /\ [][Next]_vars

(* The scheduler runs every process; no finger stays on the screen, and    *)
(* none comes back faster than the panel looks at deep.                    *)
Fairness ==
  /\ \A c \in Client : /\ WF_vars(Panel(c)) /\ WF_vars(Radar(c))
                       /\ \A p \in Slow : WF_vars(SlowOne(c, p))
  /\ \A c \in Touched : WF_vars(Lift(c)) /\ SF_vars(Release(c))
FairSpec == Spec /\ Fairness

-----------------------------------------------------------------------------
(* Properties.                                                             *)

Holders(p) == {c \in Client : p \in holds[c]}

(* Types.  A process asks only for its own ports. *)
TypeOK ==
  /\ at \in [Client -> [Process -> {"off", "fork", "born", "test", "set", "setup", "border",
                "run", "held", "sweep", "kill", "close", "gone"}]]
  /\ todo \in [Client -> [Opener -> SUBSET Port]]
  /\ quit \in [Client -> SUBSET ({"radar"} \cup Slow)]
  /\ usage \in [Port -> 0 .. 1]
  /\ holds \in [Client -> SUBSET Port] /\ failed \in [Client -> SUBSET Port]
  /\ semaphore \in [Client -> 0 .. 1] /\ deep \in [Client -> 0 .. 1]
  /\ junk \subseteq Client /\ clean \subseteq Client /\ hit \subseteq Client
  /\ raced \in BOOLEAN

(* Two clients have a port open at once only if the two opens of a driver  *)
(* have overlapped.                                                        *)
PortExclusive ==
  ~raced => \A p \in Port : \A c, d \in Holders(p) : c = d

(* A client started when no panel and no radar is left, and alone since,   *)
(* gets every port: a restart needs no reboot.                             *)
CleanStart == \A c \in clean : failed[c] = {}

(* The exit switch ends the whole client, the panel and all its children. *)
ExitEndsClient ==
  \A c \in Client :
    at[c]["panel"] = "kill" ~> \A p \in Process : at[c][p] = "gone"

(* Ctrl-C, whenever it comes, ends every child, at once or at the end of   *)
(* its cycle; only the radar can be left, waiting for the screen for ever, *)
(* and only if the panel has died before its first buttons were drawn: of  *)
(* the buzzer, or of this Ctrl-C, before it had its handler.               *)
QuitEnds ==
  \A c \in Typed :
    c \in hit ~>
      /\ \A p \in Child \ {"radar"} : at[c][p] \in {"off", "gone"}
      /\ \/ at[c]["radar"] \in {"off", "gone"}
         \/ at[c]["panel"] = "gone" /\ semaphore[c] = 1
=============================================================================
