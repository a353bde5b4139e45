---------------------------- MODULE RcliService ----------------------------
(***************************************************************************)
(* What the console's "rcli" command promises, without server objects,     *)
(* threads or sockets: either an RCLI server is running or none is.        *)
(* "rcli status" reports which; "rcli start <port>" refuses a bad port,    *)
(* returns False while a server runs and starts one otherwise; "rcli stop" *)
(* stops the running server and returns True, or returns False. A running  *)
(* server may also end on its own (its port is taken, the client broke     *)
(* the protocol or closed), and nobody is told.                            *)
(***************************************************************************)
EXTENDS Integers

CONSTANTS PortArgs

VARIABLES
  running, \* a server is running (status would answer True)
  answer   \* the last console call and what it returned or raised

PortOk(p) == 1 <= p /\ p <= 65535

Answer(op, b) == [op |-> op, ret |-> b, raised |-> FALSE]

Init ==
  /\ running = FALSE
  /\ answer = Answer("none", FALSE)

Help ==
  /\ answer' = Answer("usage", FALSE)
  /\ UNCHANGED running

Status ==
  /\ answer' = Answer("status", running)
  /\ UNCHANGED running

Start(p) ==
  \/ /\ ~PortOk(p)
     /\ answer' = [op |-> "start", ret |-> FALSE, raised |-> TRUE]
     /\ UNCHANGED running
  \/ /\ PortOk(p)
     /\ answer' = Answer("start", ~running)
     /\ running' = TRUE

Stop ==
  /\ answer' = Answer("stop", running)
  /\ running' = FALSE

\* The running server ends without a console call.
Die ==
  /\ running
  /\ running' = FALSE
  /\ UNCHANGED answer

Next ==
  \/ Help \/ Status \/ Stop \/ Die
  \/ \E p \in PortArgs : Start(p)

Spec == Init /\ [][Next]_<<running, answer>>

=============================================================================
