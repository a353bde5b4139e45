--------------------------- MODULE ShellCommands ---------------------------
(***************************************************************************)
(* The shell-control branch of the RCLI server (varanuspy/rcli.py):        *)
(*   - _RCLIServer._do_exec_shell_cmd and its registry shell_handlers,     *)
(*     run on the single connection-handling thread, one command at a time;*)
(*   - each _ShellCommandHandler: its AsyncProcess (varanuspy/utils.py)    *)
(*     and the dedicated thread _run that forwards output lines to the     *)
(*     handler's own sink connection, or waits for the process to finish.  *)
(*                                                                         *)
(* Data is abstracted: a key is a model value, a node and a command line   *)
(* are not represented, an output line is a unit counted in the queue, and *)
(* the sink stream records which of the four length-prefixed pieces of an  *)
(* output record (key length, key, line length, line) were written.       *)
(* Python 2 semantics are assumed (the code imports Queue): poll() and     *)
(* wait() reap the child, and Popen.terminate() then fails with ESRCH.     *)
(***************************************************************************)
EXTENDS Naturals, Sequences

CONSTANTS
  Keys,         \* command keys chosen by the client
  MaxHandlers,  \* bound on the number of _ShellCommandHandler objects
  MaxLines,     \* bound on the output lines one process writes
  NoHandler     \* model value: the key is not in shell_handlers

ASSUME MaxHandlers \in Nat \ {0} /\ MaxLines \in Nat /\ NoHandler \notin Nat

Handlers == 1 .. MaxHandlers

\* The four pieces send_string writes for one output record, in order.
Pieces == <<"keylen", "key", "linelen", "line">>

\* Program counter of a handler's thread (_ShellCommandHandler._run).
FwdPCs == {"idle", "connect", "check", "read", "wait", "done", "dead"}
            \cup {Pieces[i] : i \in 1..4}

\* States of the child process as seen through Popen.
ProcStates == {"none", "running", "exited", "reaped"}

Codes == {"none", "ok", "error"}
Ops == {"none", "parse", "start", "stop", "stop_custom"}

VARIABLES
  shell_handlers, \* _RCLIServer.shell_handlers: key -> handler
  nhandlers,      \* handlers created so far (handler h is the h-th)
  hkey,           \* _ShellCommandHandler.key
  haddr,          \* TRUE iff _ShellCommandHandler.addr is set
  cmd_proc,       \* child process of _ShellCommandHandler.cmd_proc
  signalled,      \* Popen.terminate() delivered SIGTERM to the child
  stopped,        \* the handler was removed from shell_handlers
  queue,          \* lines in AsyncProcess.queue
  emitted,        \* lines the child has written so far
  fwd,            \* program counter of the handler's thread
  sink,           \* pieces written to the handler's sink connection
  reply           \* result of the last _do_exec_shell_cmd

handlerVars == <<nhandlers, hkey, haddr>>
procVars == <<cmd_proc, signalled, queue, emitted>>
vars == <<shell_handlers, handlerVars, procVars, stopped, fwd, sink, reply>>

-----------------------------------------------------------------------------
(* Helpers                                                                 *)

Finished(h) == cmd_proc[h] \in {"exited", "reaped"}

\* AsyncProcess.is_finished() calls Popen.poll(), which reaps an exited child.
Poll(h) ==
  cmd_proc' = [cmd_proc EXCEPT ![h] = IF @ = "exited" THEN "reaped" ELSE @]

\* NodeUtils.run_cmd_async: Popen in the node, wrapped in an AsyncProcess
\* whose daemon thread starts consuming the child's output.
AsyncSpawn(h) == cmd_proc' = [cmd_proc EXCEPT ![h] = "running"]

\* AsyncProcess.terminate(): SIGTERM to the child (Popen.terminate).
SendSigterm(h) == signalled' = [signalled EXCEPT ![h] = TRUE]

\* AsyncProcess.readline(block=True, timeout): the next queued line, taken
\* from the queue, or None once the timeout passes on an empty queue.
QueueGet(h) == queue' = [queue EXCEPT ![h] = @ - 1]

\* AsyncProcess.wait_to_finish(): Popen.wait() reaps the child.
WaitReap(h) == cmd_proc' = [cmd_proc EXCEPT ![h] = "reaped"]

\* AsyncProcess.read_available_lines(): readline_nowait until None, which
\* empties the queue.
ReadAvailableLines(h) == queue' = [queue EXCEPT ![h] = 0]

\* The result code sent back for the command (the key is not kept).
Reply(op, k, code) == reply' = [op |-> op, code |-> code]

-----------------------------------------------------------------------------
(* Connection thread: _RCLIServer._do_exec_shell_cmd                       *)

\* Any malformed payload: too few tokens, unknown operation, unknown node
\* (NodeUtils.as_node) or a socket address that does not split in two.
ParseError ==
  /\ Reply("parse", NoHandler, "error")
  /\ UNCHANGED <<shell_handlers, handlerVars, procVars, stopped, fwd, sink>>

StartDuplicate(k) ==
  /\ shell_handlers[k] # NoHandler
  /\ Reply("start", k, "error")
  /\ UNCHANGED <<shell_handlers, handlerVars, procVars, stopped, fwd, sink>>

\* _ShellCommandHandler.__init__ raises in get_address (resolve, as_int)
\* before the handler is registered.
StartBadAddress(k) ==
  /\ shell_handlers[k] = NoHandler
  /\ Reply("start", k, "error")
  /\ UNCHANGED <<shell_handlers, handlerVars, procVars, stopped, fwd, sink>>

\* Mutant of Start: the "key in self.shell_handlers" check is dropped.
StartOverwrite(k, addr) ==
  /\ nhandlers < MaxHandlers
  /\ LET h == nhandlers + 1 IN
     /\ nhandlers' = h
     /\ shell_handlers' = [shell_handlers EXCEPT ![k] = h]
     /\ hkey' = [hkey EXCEPT ![h] = k]
     /\ haddr' = [haddr EXCEPT ![h] = addr]
     /\ cmd_proc' = [cmd_proc EXCEPT ![h] = "running"]
     /\ fwd' = [fwd EXCEPT ![h] = IF addr THEN "connect" ELSE "wait"]
     /\ Reply("start", k, "ok")
  /\ UNCHANGED <<signalled, queue, emitted, stopped, sink>>

\* _ShellCommandHandler.start: NodeUtils.run_cmd_async spawns the child
\* (popen can raise), then the thread is started.
HandlerStart(h, k) ==
  \/ /\ AsyncSpawn(h)
     /\ fwd' = [fwd EXCEPT ![h] = IF haddr'[h] THEN "connect" ELSE "wait"]
     /\ Reply("start", k, "ok")
  \/ /\ UNCHANGED <<cmd_proc, fwd>>
     /\ Reply("start", k, "error")

\* The handler is registered before handler.start() runs, so when the
\* spawn raises, the error is reported but the registry entry stays.
Start(k, addr) ==
  /\ shell_handlers[k] = NoHandler
  /\ nhandlers < MaxHandlers
  /\ LET h == nhandlers + 1 IN
     /\ nhandlers' = h
     /\ shell_handlers' = [shell_handlers EXCEPT ![k] = h]
     /\ hkey' = [hkey EXCEPT ![h] = k]
     /\ haddr' = [haddr EXCEPT ![h] = addr]
     /\ HandlerStart(h, k)
  /\ UNCHANGED <<signalled, queue, emitted, stopped, sink>>

StopUnknown(k) ==
  /\ shell_handlers[k] = NoHandler
  /\ \E op \in {"stop", "stop_custom"} : Reply(op, k, "error")
  /\ UNCHANGED <<shell_handlers, handlerVars, procVars, stopped, fwd, sink>>

\* _ShellCommandHandler.terminate: signals the child if one was spawned.
\* Popen.terminate() on a reaped child raises OSError (ESRCH).
Terminate(h, k) ==
  \/ /\ cmd_proc[h] = "none"
     /\ Reply("stop", k, "ok")
     /\ UNCHANGED signalled
  \/ /\ cmd_proc[h] \in {"running", "exited"}
     /\ SendSigterm(h)
     /\ Reply("stop", k, "ok")
  \/ /\ cmd_proc[h] = "reaped"
     /\ Reply("stop", k, "error")
     /\ UNCHANGED signalled

\* Mutant of Stop: the registry entry is not deleted (del is missing).
StopKeepsEntry(k) ==
  /\ shell_handlers[k] # NoHandler
  /\ LET h == shell_handlers[k] IN
     /\ stopped' = [stopped EXCEPT ![h] = TRUE]
     /\ Terminate(h, k)
  /\ UNCHANGED <<shell_handlers, handlerVars, cmd_proc, queue, emitted, fwd, sink>>

\* "stop": the entry is deleted, then handler.terminate() runs.
Stop(k) ==
  /\ shell_handlers[k] # NoHandler
  /\ LET h == shell_handlers[k] IN
     /\ shell_handlers' = [shell_handlers EXCEPT ![k] = NoHandler]
     /\ stopped' = [stopped EXCEPT ![h] = TRUE]
     /\ Terminate(h, k)
  /\ UNCHANGED <<handlerVars, cmd_proc, queue, emitted, fwd, sink>>

\* _ShellCommandHandler.stop_custom: NodeUtils.run_cmd runs the stop
\* command synchronously. Its popen may raise; if it runs, the child may
\* or may not exit as a side effect.
RunStopCustom(h, k) ==
  \/ /\ Reply("stop_custom", k, "error")
     /\ UNCHANGED cmd_proc
  \/ /\ Reply("stop_custom", k, "ok")
     /\ \/ UNCHANGED cmd_proc
        \/ /\ cmd_proc[h] = "running"
           /\ cmd_proc' = [cmd_proc EXCEPT ![h] = "exited"]

\* "stop_custom": the entry is deleted, then handler.stop_custom(cmd) runs.
StopCustom(k) ==
  /\ shell_handlers[k] # NoHandler
  /\ LET h == shell_handlers[k] IN
     /\ shell_handlers' = [shell_handlers EXCEPT ![k] = NoHandler]
     /\ stopped' = [stopped EXCEPT ![h] = TRUE]
     /\ RunStopCustom(h, k)
  /\ UNCHANGED <<handlerVars, signalled, queue, emitted, fwd, sink>>

-----------------------------------------------------------------------------
(* The child process and AsyncProcess.__consume_output                     *)

\* The consumer thread (__consume_output) puts a line of the child's output
\* in the queue. It reads the pipe until EOF, so lines the child wrote
\* before it exited can still be put after the exit, and after the reap.
ProcEmit(h) ==
  /\ cmd_proc[h] # "none"
  /\ emitted[h] < MaxLines
  /\ emitted' = [emitted EXCEPT ![h] = @ + 1]
  /\ queue' = [queue EXCEPT ![h] = @ + 1]
  /\ UNCHANGED <<shell_handlers, handlerVars, cmd_proc, signalled, stopped,
                 fwd, sink, reply>>

\* The child exits, on its own or because of SIGTERM.
ProcExit(h) ==
  /\ cmd_proc[h] = "running"
  /\ cmd_proc' = [cmd_proc EXCEPT ![h] = "exited"]
  /\ UNCHANGED <<shell_handlers, handlerVars, signalled, queue, emitted,
                 stopped, fwd, sink, reply>>

-----------------------------------------------------------------------------
(* The handler's thread: _ShellCommandHandler._run                         *)

\* sock.connect(self.addr); a refused connection raises and ends the thread.
Connect(h) ==
  /\ fwd[h] = "connect"
  /\ \E ok \in BOOLEAN : fwd' = [fwd EXCEPT ![h] = IF ok THEN "check" ELSE "dead"]
  /\ UNCHANGED <<shell_handlers, handlerVars, procVars, stopped, sink, reply>>

\* while not self.cmd_proc.is_finished()
CheckFinished(h) ==
  /\ fwd[h] = "check"
  /\ Poll(h)
  /\ fwd' = [fwd EXCEPT ![h] = IF Finished(h) THEN "done" ELSE "read"]
  /\ UNCHANGED <<shell_handlers, handlerVars, signalled, queue, emitted,
                 stopped, sink, reply>>

\* Mutant of ReadLine: the line is peeked, not taken off the queue.
ReadLinePeek(h) ==
  /\ fwd[h] = "read"
  /\ fwd' = [fwd EXCEPT ![h] = IF queue[h] > 0 THEN Pieces[1] ELSE "check"]
  /\ UNCHANGED <<shell_handlers, handlerVars, procVars, stopped, sink, reply>>

\* Mutant of ReadLine: after a timeout the thread waits for a line again
\* without rechecking is_finished().
ReadLineNoRecheck(h) ==
  /\ fwd[h] = "read"
  /\ queue[h] > 0
  /\ queue' = [queue EXCEPT ![h] = @ - 1]
  /\ fwd' = [fwd EXCEPT ![h] = Pieces[1]]
  /\ UNCHANGED <<shell_handlers, handlerVars, cmd_proc, signalled, emitted,
                 stopped, sink, reply>>

\* readline(block=True, timeout=1): a line, or None after the timeout.
ReadLine(h) ==
  /\ fwd[h] = "read"
  /\ IF queue[h] > 0
       THEN /\ QueueGet(h)
            /\ fwd' = [fwd EXCEPT ![h] = Pieces[1]]
       ELSE /\ fwd' = [fwd EXCEPT ![h] = "check"]
            /\ UNCHANGED queue
  /\ UNCHANGED <<shell_handlers, handlerVars, cmd_proc, signalled, emitted,
                 stopped, sink, reply>>

\* _do_write_output_line: send_string(key) then send_string(line), each a
\* send_bytes of the length then of the bytes, and each send_bytes first
\* evaluates exit_check=is_finished. A failed send_string skips the rest.
SendPiece(h) ==
  /\ \E i \in 1..4 :
       /\ fwd[h] = Pieces[i]
       /\ Poll(h)
       /\ IF Finished(h)
            THEN /\ fwd' = [fwd EXCEPT ![h] = "check"]
                 /\ UNCHANGED sink
            ELSE /\ sink' = [sink EXCEPT ![h] = Append(@, Pieces[i])]
                 /\ fwd' = [fwd EXCEPT ![h] = IF i = 4 THEN "check" ELSE Pieces[i + 1]]
  /\ UNCHANGED <<shell_handlers, handlerVars, signalled, queue, emitted,
                 stopped, reply>>

\* Without a sink: wait_to_finish() (reaps), then read_available_lines().
WaitToFinish(h) ==
  /\ fwd[h] = "wait"
  /\ Finished(h)
  /\ WaitReap(h)
  /\ ReadAvailableLines(h)
  /\ fwd' = [fwd EXCEPT ![h] = "done"]
  /\ UNCHANGED <<shell_handlers, handlerVars, signalled, emitted, stopped,
                 sink, reply>>

-----------------------------------------------------------------------------

Init ==
  /\ shell_handlers = [k \in Keys |-> NoHandler]
  /\ nhandlers = 0
  /\ hkey = [h \in Handlers |-> NoHandler]
  /\ haddr = [h \in Handlers |-> FALSE]
  /\ cmd_proc = [h \in Handlers |-> "none"]
  /\ signalled = [h \in Handlers |-> FALSE]
  /\ stopped = [h \in Handlers |-> FALSE]
  /\ queue = [h \in Handlers |-> 0]
  /\ emitted = [h \in Handlers |-> 0]
  /\ fwd = [h \in Handlers |-> "idle"]
  /\ sink = [h \in Handlers |-> <<>>]
  /\ reply = [op |-> "none", code |-> "none"]

Command ==
  \/ ParseError
  \/ \E k \in Keys :
       \/ StartDuplicate(k)
       \/ StartBadAddress(k)
       \/ \E addr \in BOOLEAN : Start(k, addr)
       \/ StopUnknown(k)
       \/ Stop(k)
       \/ StopCustom(k)

Handler(h) ==
  \/ ProcEmit(h)
  \/ ProcExit(h)
  \/ Connect(h)
  \/ CheckFinished(h)
  \/ ReadLine(h)
  \/ SendPiece(h)
  \/ WaitToFinish(h)

Next == Command \/ \E h \in Handlers : Handler(h)

\* Threads are scheduled by the OS and every wait in _run is bounded, so
\* each thread step is weakly fair. A child exits fairly only once SIGTERM
\* was delivered; the client and the child's own exit are not fair.
Fairness ==
  \A h \in Handlers :
    /\ WF_vars(Connect(h) \/ CheckFinished(h) \/ ReadLine(h) \/ SendPiece(h)
                 \/ WaitToFinish(h))
    /\ WF_vars(signalled[h] /\ ProcExit(h))

Spec == Init /\ [][Next]_vars /\ Fairness

-----------------------------------------------------------------------------
(* Properties                                                              *)

TypeOK ==
  /\ shell_handlers \in [Keys -> Handlers \cup {NoHandler}]
  /\ nhandlers \in 0 .. MaxHandlers
  /\ hkey \in [Handlers -> Keys \cup {NoHandler}]
  /\ haddr \in [Handlers -> BOOLEAN]
  /\ cmd_proc \in [Handlers -> ProcStates]
  /\ signalled \in [Handlers -> BOOLEAN]
  /\ stopped \in [Handlers -> BOOLEAN]
  /\ queue \in [Handlers -> 0 .. MaxLines]
  /\ emitted \in [Handlers -> 0 .. MaxLines]
  /\ fwd \in [Handlers -> FwdPCs]
  /\ \A h \in Handlers : Len(sink[h]) <= 4 * MaxLines
  /\ reply \in [op : Ops, code : Codes]

\* A spawned child that no stop has removed is still reachable from the
\* registry under its own key, so the client can still stop it: starting a
\* key never displaces the handler already registered under it.
NoLeakedProcess ==
  \A h \in 1 .. nhandlers :
    (cmd_proc[h] # "none" /\ ~stopped[h]) => shell_handlers[hkey[h]] = h

\* Every output record the thread began to send was a distinct line the
\* child wrote: lines in flight, in the sink and still queued never
\* outnumber the lines written (no line is forwarded twice).
NoLineForwardedTwice ==
  \A h \in Handlers : (Len(sink[h]) + 3) \div 4 + queue[h] <= emitted[h]

\* Once stop has signalled a handler's child, the handler's thread ends.
StoppedHandlerThreadEnds ==
  \A h \in Handlers :
    (stopped[h] /\ signalled[h]) ~> (fwd[h] \in {"done", "dead"})

\* The registry of _do_exec_shell_cmd implements the abstract registry of
\* ShellRegistry: its active keys are the keys of shell_handlers.
Registry == INSTANCE ShellRegistry
              WITH active <- {k \in Keys : shell_handlers[k] # NoHandler}

\* Every command changes the set of registered keys only as ShellRegistry
\* allows: a duplicate start or an unknown stop changes nothing, an Ok
\* start registers its key, a stop removes it, and handler threads and
\* children never touch the registry.
RegistryRefinement == Registry!Spec

\* Spec (data model invariant): a key is in the registry only if its
\* process was started. _do_exec_shell_cmd registers the key before
\* handler.start() spawns the child.
RegisteredProcessStarted ==
  \A k \in Keys :
    shell_handlers[k] # NoHandler => cmd_proc[shell_handlers[k]] # "none"

\* Spec (4.3, 4.4, scenario C): "stop <key>" fails only for an inactive key,
\* and terminate() is idempotent on a finished process. A "stop" that
\* removes an active key must answer Ok, however long ago the child exited.
StopActiveKeySucceeds ==
  [][\A k \in Keys :
       (shell_handlers[k] # NoHandler /\ shell_handlers'[k] = NoHandler
          /\ reply'.op = "stop")
          => reply'.code = "ok"]_vars

\* Spec (4.3): each forwarded line is written to the sink as the key string
\* followed by the line string. When the thread closes the sink, the stream
\* must hold whole records only.
SinkRecordsComplete ==
  \A h \in Handlers : fwd[h] = "done" => Len(sink[h]) % 4 = 0

=============================================================================
