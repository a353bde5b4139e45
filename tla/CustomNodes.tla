---------------------------- MODULE CustomNodes ----------------------------
(***************************************************************************)
(* The custom controllers and hosts of varanuspy/minadapter.py (classes    *)
(* CustomMixin, CustomControllerMixin and CustomNodeMixin): Mininet nodes  *)
(* whose start and stop run a configured startcmd / stopcmd through the    *)
(* node's shell, guarded by the _is_active flag "to prevent repeated calls *)
(* to start/stop". In VARANUS the commands are the daemonizer script that  *)
(* starts and stops the SDN controller or a collector (lib.py,             *)
(* VaranusUtils.start_daemon / stop_daemon, run with node.cmd).            *)
(*                                                                         *)
(* active is _is_active; daemons counts the daemon instances the commands  *)
(* leave running; shell is the state of the node's Mininet shell, which    *)
(* Node.stop and terminate kill, and in which node.cmd can no longer run   *)
(* (Mininet's sendCmd asserts a live shell).                               *)
(***************************************************************************)
EXTENDS Naturals

CONSTANTS
  Controllers,  \* custom controllers (CustomLocalController, ...)
  Hosts,        \* custom hosts (CustomLocalHost, collectors, ...)
  MaxDaemons    \* bound on the daemon count (reached only by a fault)

CustomNodes == Controllers \cup Hosts

VARIABLES
  active,   \* active[n]: n._is_active
  daemons,  \* daemons[n]: instances of n's daemon left running
  shell     \* shell[n]: "none" before build, "alive", or "dead"

nodeVars == <<active, daemons, shell>>

NodesTypeOK ==
  /\ active \in [CustomNodes -> BOOLEAN]
  /\ daemons \in [CustomNodes -> 0 .. MaxDaemons]
  /\ shell \in [CustomNodes -> {"none", "alive", "dead"}]

NodesInit ==
  /\ active = [n \in CustomNodes |-> FALSE]
  /\ daemons = [n \in CustomNodes |-> 0]
  /\ shell = [n \in CustomNodes |-> "none"]

\* BaseConfig.build: each node is created with its shell (Node.startShell).
BuildNodes(S) ==
  /\ shell' = [n \in CustomNodes |-> IF n \in S THEN "alive" ELSE shell[n]]
  /\ UNCHANGED <<active, daemons>>

\* startcmd or stopcmd running node.cmd in a dead shell.
CmdFails(n) == shell[n] # "alive"

\* The daemonizer's start and stop, through node.cmd.
StartCmd(n) == daemons' = [daemons EXCEPT ![n] = daemons[n] + 1]
StopCmd(n) == daemons' = [daemons EXCEPT ![n] = IF daemons[n] > 0 THEN daemons[n] - 1 ELSE 0]

-----------------------------------------------------------------------------
\* Mutant of start: the _is_active guard is dropped.
StartUnguarded(n) ==
  /\ ~CmdFails(n)
  /\ daemons[n] < MaxDaemons
  /\ StartCmd(n)
  /\ active' = [active EXCEPT ![n] = TRUE]
  /\ UNCHANGED shell

\* CustomControllerMixin.start and CustomNodeMixin.start, when startcmd
\* returns: an inactive node runs startcmd and becomes active; an active
\* one only warns.
Start(n) ==
  /\ ~CmdFails(n)
  /\ daemons[n] < MaxDaemons
  /\ IF ~active[n]
       THEN /\ StartCmd(n)
            /\ active' = [active EXCEPT ![n] = TRUE]
       ELSE UNCHANGED <<active, daemons>>
  /\ UNCHANGED shell

\* start on an inactive node whose shell is gone: startcmd raises before
\* _is_active is set, and nothing changes here.
StartRaises(n) == ~active[n] /\ CmdFails(n)

\* Mutant of the stops: _is_active is left set after stopcmd.
StopKeepsActive(n) ==
  IF active[n]
    THEN /\ StopCmd(n)
         /\ shell' = [shell EXCEPT ![n] = "dead"]
         /\ UNCHANGED active
    ELSE UNCHANGED nodeVars

\* CustomControllerMixin.stop and CustomNodeMixin.stop: an active node runs
\* stopcmd, clears _is_active and calls Node.stop, whose terminate kills
\* the shell (CustomNodeMixin.terminate skips stopcmd, the flag being
\* clear); an inactive node only warns, and keeps its shell.
Stop(n) ==
  IF active[n]
    THEN /\ StopCmd(n)
         /\ active' = [active EXCEPT ![n] = FALSE]
         /\ shell' = [shell EXCEPT ![n] = "dead"]
    ELSE UNCHANGED nodeVars

\* Mutant of terminate: stopcmd is not run for an active node.
TerminateNoStop(n) ==
  /\ shell' = [shell EXCEPT ![n] = "dead"]
  /\ UNCHANGED <<active, daemons>>

\* CustomNodeMixin.terminate, which Mininet calls directly on hosts at exit:
\* stopcmd if the node is still active, then always the shell is killed.
Terminate(n) ==
  /\ IF active[n]
       THEN /\ StopCmd(n)
            /\ active' = [active EXCEPT ![n] = FALSE]
       ELSE UNCHANGED <<active, daemons>>
  /\ shell' = [shell EXCEPT ![n] = "dead"]
=============================================================================
