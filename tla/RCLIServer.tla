---------------------------- MODULE RCLIServer ----------------------------
(***************************************************************************)
(* Lifecycle of the RCLI server (varanuspy/rcli.py): the console thread    *)
(* calls start_rcli, stop_rcli and status_rcli, which consult the global   *)
(* _RCLIServer._ACTIVE_SERVER; each _RCLIServer runs one thread (_run)     *)
(* that binds the listening port, polls accept() with a one-second         *)
(* timeout, serves the single accepted connection and, in its finally      *)
(* block, clears _active_thread. Shutdown is a flag (threading.Event)      *)
(* checked cooperatively at every bounded wait.                            *)
(*                                                                         *)
(* The console's "rcli { start <port> | stop | status }" command (cli.py   *)
(* _rcli) is the console's way to make these calls; a listening port is   *)
(* one of a few port arguments, and each port is held by at most one      *)
(* listening socket.                                                       *)
(*                                                                         *)
(* Server objects are numbered in creation order. The serve loop is        *)
(* abstracted to the outcome of one read: a command (dispatched and        *)
(* answered, see ShellCommands), a read aborted by the shutdown check, or  *)
(* an IOError (peer closed, protocol error) that ends the thread.          *)
(***************************************************************************)
EXTENDS Integers, Sequences, FiniteSets

CONSTANTS
  MaxServers,  \* bound on the _RCLIServer objects start_rcli creates
  PortArgs,    \* listenport arguments the console passes (integers)
  None         \* model value for Python's None

ASSUME MaxServers \in Nat \ {0} /\ None \notin Nat /\ PortArgs \subseteq Int

\* utils.as_int(listenport, minim=1, maxim=65535): a non-numeric argument
\* raises the same ValueError as one out of range, and stands for one.
PortValid(p) == 1 <= p /\ p <= 65535

Ports == {p \in PortArgs : PortValid(p)}

Servers == 1 .. MaxServers

\* Program counter of a server thread. "unborn": not created yet;
\* "bind": socket, bind, listen; "accept": the accept loop; "serve": the
\* _handle_connection loop; "exit": the thread ended; "failed": the thread
\* ended because bind raised (address in use).
PCs == {"unborn", "bind", "accept", "serve", "exit", "failed"}

VARIABLES
  active_server, \* _RCLIServer._ACTIVE_SERVER
  nservers,      \* servers created so far
  active_thread, \* is_some(_active_thread), per server
  shutdown_flag, \* _shutdown_check.is_set(), per server
  pc,            \* program counter of each server's thread
  lport,         \* _RCLIServer.listenport, per server
  port,          \* port[p]: the server whose listening socket holds p
  result         \* the last console call and what it returned or raised

vars == <<active_server, nservers, active_thread, shutdown_flag, pc, lport, port, result>>

Ret(op, b) == [op |-> op, ret |-> b, raised |-> FALSE]

\* The console printed its usage line and called nothing.
Usage ==
  /\ result' = Ret("usage", FALSE)
  /\ UNCHANGED <<active_server, nservers, active_thread, shutdown_flag, pc, lport, port>>

-----------------------------------------------------------------------------
(* Console thread: start_rcli, stop_rcli, status_rcli                      *)

\* is_some(srv) and srv.is_active()
IsActive(srv) == srv # None /\ active_thread[srv]

StatusRcli ==
  /\ result' = Ret("status", IsActive(active_server))
  /\ UNCHANGED <<active_server, nservers, active_thread, shutdown_flag, pc, lport, port>>

\* The thread of a new _RCLIServer s for listenport p is started.
Spawn(s, p) ==
  /\ nservers' = s
  /\ active_thread' = [active_thread EXCEPT ![s] = TRUE]
  /\ pc' = [pc EXCEPT ![s] = "bind"]
  /\ lport' = [lport EXCEPT ![s] = p]
  /\ active_server' = s

\* Mutant of StartRcli: the is_active() check is dropped, so a second
\* start replaces the reference to a live server.
StartRcliNoActiveCheck(p) ==
  /\ PortValid(p)
  /\ nservers < MaxServers
  /\ Spawn(nservers + 1, p)
  /\ result' = Ret("start", TRUE)
  /\ UNCHANGED <<shutdown_flag, port>>

\* start_rcli(listenport): as_int raises ValueError for a bad port before
\* anything else; an active server makes it return False; otherwise a new
\* _RCLIServer is created and started (its flag is fresh, so start()
\* always launches the thread) and becomes the active server.
StartRcli(p) ==
  \/ /\ ~PortValid(p)
     /\ result' = [op |-> "start", ret |-> FALSE, raised |-> TRUE]
     /\ UNCHANGED <<active_server, nservers, active_thread, shutdown_flag, pc, lport, port>>
  \/ /\ PortValid(p)
     /\ IsActive(active_server)
     /\ result' = Ret("start", FALSE)
     /\ UNCHANGED <<active_server, nservers, active_thread, shutdown_flag, pc, lport, port>>
  \/ /\ PortValid(p)
     /\ ~IsActive(active_server)
     /\ nservers < MaxServers
     /\ Spawn(nservers + 1, p)
     /\ result' = Ret("start", TRUE)
     /\ UNCHANGED <<shutdown_flag, port>>

\* Mutant of StopRcli: only is_some(srv) is checked, not srv.is_active().
StopRcliNoActiveCheck ==
  /\ \/ /\ active_server # None
        /\ shutdown_flag' = [shutdown_flag EXCEPT ![active_server] = TRUE]
        /\ active_server' = None
        /\ result' = Ret("stop", TRUE)
     \/ /\ active_server = None
        /\ result' = Ret("stop", FALSE)
        /\ UNCHANGED <<active_server, shutdown_flag>>
  /\ UNCHANGED <<nservers, active_thread, pc, lport, port>>

\* The flag is set and the reference dropped at once; the thread notices
\* the flag at its next bounded wait.
StopRcli ==
  /\ \/ /\ IsActive(active_server)
        /\ shutdown_flag' = [shutdown_flag EXCEPT ![active_server] = TRUE]
        /\ active_server' = None
        /\ result' = Ret("stop", TRUE)
     \/ /\ ~IsActive(active_server)
        /\ result' = Ret("stop", FALSE)
        /\ UNCHANGED <<active_server, shutdown_flag>>
  /\ UNCHANGED <<nservers, active_thread, pc, lport, port>>

\* The arguments of the console's "rcli" command line (line.split()).
RcliArgs ==
  {<< >>, <<"status">>, <<"stop">>, <<"start">>, <<"restart">>}
    \cup {<<"start", p>> : p \in PortArgs}

\* cli.py _rcli: a missing or unknown argument only prints the usage;
\* otherwise __status_rcli, __stop_rcli or __start_rcli, which catches
\* start_rcli's ValueError and prints it.
Rcli(args) ==
  CASE args = << >> -> Usage
    [] args[1] = "status" -> StatusRcli
    [] args[1] = "stop" -> StopRcli
    [] args[1] = "start" /\ Len(args) < 2 -> Usage
    [] args[1] = "start" -> StartRcli(args[2])
    [] OTHER -> Usage

-----------------------------------------------------------------------------
(* Server thread: _RCLIServer._run                                         *)

\* The finally block of _run.
Exit(s, to) ==
  /\ pc' = [pc EXCEPT ![s] = to]
  /\ active_thread' = [active_thread EXCEPT ![s] = FALSE]

\* bind(("localhost", listenport)) with SO_REUSEADDR: it fails while
\* another listening socket holds the port, raising an IOError that _run
\* catches and logs.
Bind(s) ==
  /\ pc[s] = "bind"
  /\ \/ /\ port[lport[s]] = None
        /\ port' = [port EXCEPT ![lport[s]] = s]
        /\ pc' = [pc EXCEPT ![s] = "accept"]
        /\ UNCHANGED active_thread
     \/ /\ port[lport[s]] # None
        /\ Exit(s, "failed")
        /\ UNCHANGED port
  /\ UNCHANGED <<active_server, nservers, shutdown_flag, lport, result>>

\* Closing the listening socket releases the server's port.
Release(s) == port' = [port EXCEPT ![lport[s]] = None]

\* The accept loop sees the flag: it ends and the listening socket is
\* closed, so _run ends.
AcceptShutdown(s) ==
  /\ pc[s] = "accept"
  /\ shutdown_flag[s]
  /\ Release(s)
  /\ Exit(s, "exit")
  /\ UNCHANGED <<active_server, nservers, shutdown_flag, lport, result>>

\* Mutant of AcceptConnection: the listening socket is left open while the
\* connection is served (no closing() around it).
AcceptKeepsListener(s) ==
  /\ pc[s] = "accept"
  /\ ~shutdown_flag[s]
  /\ pc' = [pc EXCEPT ![s] = "serve"]
  /\ UNCHANGED <<active_server, nservers, active_thread, shutdown_flag, lport, port, result>>

\* accept() returns a client connection (it may also time out, a stutter);
\* returning from the with block closes the listening socket.
AcceptConnection(s) ==
  /\ pc[s] = "accept"
  /\ ~shutdown_flag[s]
  /\ Release(s)
  /\ pc' = [pc EXCEPT ![s] = "serve"]
  /\ UNCHANGED <<active_server, nservers, active_thread, shutdown_flag, lport, result>>

\* Mutant of ServeShutdown: the serve loop keeps reading and never looks
\* at the flag (while True instead of while not self.is_shutdown()).
ServeIgnoresShutdown(s) ==
  /\ pc[s] = "serve"
  /\ shutdown_flag[s]
  /\ UNCHANGED vars

\* _handle_connection sees the flag: the loop ends, the connection is
\* closed and _run ends. A read aborted by the flag (recv_bytes returns
\* None) and a dispatched command leave this state as it is (ShellCommands
\* models the dispatch).
ServeShutdown(s) ==
  /\ pc[s] = "serve"
  /\ shutdown_flag[s]
  /\ Exit(s, "exit")
  /\ UNCHANGED <<active_server, nservers, shutdown_flag, lport, port, result>>

\* A read raises IOError (the peer closed the connection, a negative string
\* length, an invalid command type): _run catches it, logs it and ends.
ServeError(s) ==
  /\ pc[s] = "serve"
  /\ Exit(s, "exit")
  /\ UNCHANGED <<active_server, nservers, shutdown_flag, lport, port, result>>

-----------------------------------------------------------------------------

Init ==
  /\ active_server = None
  /\ nservers = 0
  /\ active_thread = [s \in Servers |-> FALSE]
  /\ shutdown_flag = [s \in Servers |-> FALSE]
  /\ pc = [s \in Servers |-> "unborn"]
  /\ lport = [s \in Servers |-> None]
  /\ port = [p \in Ports |-> None]
  /\ result = Ret("none", FALSE)

\* The console thread runs one "rcli" command at a time.
Console == \E args \in RcliArgs : Rcli(args)

Thread(s) ==
  Bind(s) \/ AcceptShutdown(s) \/ AcceptConnection(s) \/ ServeShutdown(s)
    \/ ServeError(s)

Next == Console \/ \E s \in Servers : Thread(s)

\* A server thread is a daemon scheduled by the OS and never blocks longer
\* than its one-second timeouts, so its steps are weakly fair. The console
\* (an operator) and the client are not: a client may never connect.
Fairness ==
  \A s \in Servers : WF_vars(Bind(s) \/ AcceptShutdown(s) \/ ServeShutdown(s))

Spec == Init /\ [][Next]_vars /\ Fairness

-----------------------------------------------------------------------------
(* Properties                                                              *)

TypeOK ==
  /\ active_server \in Servers \cup {None}
  /\ nservers \in 0 .. MaxServers
  /\ active_thread \in [Servers -> BOOLEAN]
  /\ shutdown_flag \in [Servers -> BOOLEAN]
  /\ pc \in [Servers -> PCs]
  /\ lport \in [Servers -> Ports \cup {None}]
  /\ port \in [Ports -> Servers \cup {None}]
  /\ result \in [op : {"none", "usage", "status", "start", "stop"},
                 ret : BOOLEAN, raised : BOOLEAN]

\* The console never loses the handle of a live server: a server thread
\* that was not asked to shut down is the one _ACTIVE_SERVER refers to, so
\* stop_rcli can still reach it.
LiveServerReachable ==
  \A s \in Servers :
    (active_thread[s] /\ ~shutdown_flag[s]) => active_server = s

\* A port is held only by a live thread, bound to that port, still in its
\* accept loop: every exit path of _run closes the listening socket.
PortHeldByListener ==
  \A p \in Ports :
    port[p] # None
      => (pc[port[p]] = "accept" /\ active_thread[port[p]] /\ lport[port[p]] = p)

\* A server asked to stop ends its thread: every wait in the accept and
\* serve loops rechecks the shutdown flag.
StoppedServerExits ==
  \A s \in Servers : shutdown_flag[s] ~> ~active_thread[s]

\* What the console sees of the servers implements RcliService: a server is
\* running exactly when _ACTIVE_SERVER refers to one whose thread is alive,
\* so start_rcli answers True only when status would have answered False,
\* stop_rcli answers True only for a running server, and a server thread
\* that ends by itself (a failed bind, an IOError) is RcliService's Die.
Service == INSTANCE RcliService WITH running <- IsActive(active_server), answer <- result

ServiceRefinement == Service!Spec

\* Spec (3, 4.6): start() reports success and the server goes Idle ->
\* Listening. A server that start_rcli reported as started never dies
\* because its port is still held by the server stopped before it.
StartedServerBinds ==
  \A s \in Servers : pc[s] # "failed"

=============================================================================
