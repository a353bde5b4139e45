# TLA+ models of the varanus network manager

This directory holds TLA+ models of `src/network-manager`. That is the
Python 2 program that declares a Mininet topology from a configuration
(`config/`), runs it (`varanuspy/runner.py`, `minadapter.py`, `lib.py`), and
offers a console and a remote-command (RCLI) server (`cli.py`, `rcli.py`,
`functions.py`, `utils.py`). Every module is checked by TLC through an `MC*.tla`
instance and the `.cfg` files listed under Runs. `PROJECT.json` is the
machine-readable record of this project. It holds the components, the runs,
one mutant per checked property, the source lines each definition models, the
findings, and the hazards.

## 1. The system and how its parts interact

`run_netmanager.py` `run()` builds a `MininetRunner`. It then calls the
configuration's `pre_start_config`, which declares the topology through
`config/util/topo.py` `VaranusTopo`. If `conclude()` is True, it goes on with
`build()`, `start()` (where `net.start` starts the controllers),
`post_start_config` and `interact()`. The console runs there until exit, and
then `net.stop` stops the controllers and terminates the hosts. `run()` has
no `try`/`finally`, so any exception ends the process with whatever daemons
are running left running.

The VARANUS controller and collectors are custom Mininet nodes
(`minadapter.py` `CustomMixin`). Their `start`/`stop` run a daemonizer
command through the node's shell, guarded by an `_is_active` flag. With
`--novaranus`, `MininetRunner` registers the controller and collectors as
null nodes (`add_null_controller`, `add_null_host`). These pass the same
duplicate checks, but their build gives a `_MockObject` that the Mininet net
never holds, and `add_link` drops every link to them.

Mininet itself and the tc/ovs-vsctl commands are the environment. The model
keeps what they hold, for example an interface's bandwidth and netem, and
not how they do it. The demo configuration (`config/demo.py`) declares a ring
of OVS switches with chords, hosts and a collector. Its `post_start_config`
then sets the same bandwidth and netem on every switch link, starts the
collector and starts the RCLI server.

The RCLI server (`rcli.py`) runs on its own daemon thread. It accepts one
TCP connection and reads command frames from it, each encoded by `_IOUtils`.
Expression commands are evaluated in the namespace of `functions.py`. Shell
commands start and stop child processes. Each child has a forwarding thread
that sends its output lines to a sink socket. `stop_rcli` only sets a
shutdown flag and forgets the server, and every thread notices the flag at
its next one-second timeout (`utils.send_bytes`/`recv_bytes`).

## 2. Modules

| Module | Models | State (code) | Actions |
|---|---|---|---|
| `Topology` | `topo.py` `VaranusTopo` add_* methods, `ring.py` `RingBuilder`, `runner.py` `add_*` registries, `lib.py` ports | `controller`, `rings`, `tswitches`/`thosts`/`tcollectors` (VaranusTopo dicts), `rswitches`/`rhosts` (MininetRunner dicts), `pica8`, `dpid`, `ports` (NodeConfig.ports, is_virtual), `links`, `rb` (the builder in use), `raised`, `varanus` (`enable_varanus`; false under `--novaranus`, when the controller and collectors are the null nodes `NullNodes`) | one per VaranusTopo call, for example `AddSwitch`, `AddSwitchLink`, `GetRingBuilder`, `RingAddNode`, `RingBuild`, `AddVirSwitchRing`, `AddRingVirLink`, `AddRingVirHost`, `AddRingVirCollector`; each raises (`Raise`) on the code's errors |
| `QoSCache` | `functions.py` QoS functions and `QOS_CACHE` | `dev` (what tc/OVS hold per interface), `cache`, per thread `qpc`/`qop`/`qrb`/`qres` | `GetQos`, `SetQos`, `DelQos`, `ResetQos`, and each tc/ovs-vsctl command as a step of its own (`ReadBand`, `ReadNetemAndPut`, `DelOvsQos`, `SetOvsQos`, `SetTcNetem`) |
| `CustomNodes` | `minadapter.py` `CustomControllerMixin`/`CustomNodeMixin`, `lib.py` `VaranusUtils` | `active` (`_is_active`), `daemons` (instances running), `shell` | `Start`, `Stop`, `Terminate`, `BuildNodes` |
| `NetworkRuntime` | `run_netmanager.py` `run`, `runner.py` build/start/interact, `demo.py`, `cli.py` QoS and control commands, `functions.py` link queries | composes the three above, plus `phase`, `script` (post_start_config's QoS calls still to make), `pending` (net.stop), and `cfgscript` | `ConfigCall`/`ConfigRaised`, `Build`, `NetStart`, `PostCall`, `PostDone`, `ConsoleQoS`/`ConsoleQoSStep`, `ControlCall`/`ControlStep` (with `ctlq`, the node methods a control command has still to run), `Exit`, `NetStopController`/`NetStopHost`, `Stopped` |
| `ShellCommands` | `rcli.py` `_do_exec_shell_cmd`, `_ShellCommandHandler`, `utils.AsyncProcess` | `shell_handlers`, per handler `cmd_proc` (none/running/exited/reaped), `signalled`, `stopped`, `queue`, `emitted`, `fwd` (the forwarding thread), `sink`, `reply` | dispatcher (`ParseError`, `StartDuplicate`, `StartBadAddress`, `Start`, `StopUnknown`, `Stop`, `StopCustom`), the child (`ProcEmit`, `ProcExit`), the handler thread (`Connect`, `CheckFinished`, `ReadLine`, `SendPiece`, `WaitToFinish`) |
| `ShellRegistry` | the registry as the spec promises it (abstract) | `active` keys, `reply` | start and stop of a key |
| `RcliService` | the console's `rcli` command as it promises to behave (abstract) | `running`, `answer` | `Help`, `Status`, `Start(p)`, `Stop`, and `Die` (a server ending by itself) |
| `RCLIServer` | `rcli.py` `start_rcli`/`stop_rcli`/`status_rcli`, `_RCLIServer._run`; `cli.py` `_rcli` (the console's `rcli` command) | `active_server`, per server `active_thread`, `shutdown_flag`, `pc`, `lport` (its listen port); `port` (which server holds each valid port); `result` | `Rcli(args)` for each argument form, validating the port as `utils.as_int` does; `Bind`, `AcceptShutdown`, `AcceptConnection`, `ServeShutdown`, `ServeError` |
| `RCLIConnection` | `_handle_connection`, `_do_read_cmd`, dispatch, `_do_write_cmd_result` | the two byte streams, the server's frame-reading state, `shutdown`, histories of commands read and results written | client writes/reads/closes, server reads a field, dispatches, writes a field, `StopRcli` |
| `SocketIO` | `utils.send_bytes`/`recv_bytes` | the sender's `sendall` progress, the channel (at most `Cap` bytes), the receiver's buffer | exit check, byte-wise `sendall` with timeout, `recv_into` of one byte up to all missing bytes |
| `WireCodec` | `_IOUtils` and the frame layouts | none (operators) | `pack_int`/`unpack_int` (signed 32-bit big-endian), `pack_byte`, `send_string`/`recv_string`, a `RECURSIVE` frame decoder |

How the modules map to the code:

* A Python dict is a function whose domain grows, updated with `:>` and `@@`.
  A value that may be None is a set of at most one element.
* Every `run_cmd`, `send_bytes` or `recv_bytes` call is one step, so other
  threads can run between them.
* An action models a whole handler: its guard comes from the code's checks and
  early returns, and a raise is a branch of its own.
* `ShellCommands` names each `utils.AsyncProcess` call its actions make:
  `AsyncSpawn`, `QueueGet` (readline), `SendSigterm` (terminate),
  `WaitReap` (wait_to_finish) and `ReadAvailableLines`.
* `Topology` also covers the remote and Pica8 variants. They fill the same
  registries, and the Pica8 port rules (no virtual ports, port numbers 1 to
  52) are `Pica8PortFails`.
* `NetworkRuntime` resolves the QoS commands by node pair, as `getqos`,
  `setqos` and `delqos` do. `links(mn, src, dst)` is `SrcIntfs`, and
  `__get_src_intf` raises ValueError unless that set has exactly one
  interface.

Refinement: `ShellCommands` is shown to implement `ShellRegistry` with
`Registry == INSTANCE ShellRegistry WITH active <- {k : shell_handlers[k] # NoHandler}`,
checked as the property `RegistryRefinement`. `RCLIServer` is shown to
implement `RcliService` with `running <- IsActive(active_server)` and
`answer <- result`, checked as `ServiceRefinement`. So start answers True
only when status would have answered False, stop answers True only for a
running server, and a thread that dies (a failed bind, an IOError) is the
abstract `Die`.

## 3. Runs

| Run | Module / cfg | Expect | What it checks |
|---|---|---|---|
| shell_ok | `MCShellCommands` / `ShellCommands.cfg` | pass | `NoLeakedProcess`: a spawned child that was not stopped is still registered. `NoLineForwardedTwice`. `StoppedHandlerThreadEnds`: a signalled handler's thread ends. `RegistryRefinement`. |
| shell_registered_unstarted | `ShellCommands_RegisteredProcessStarted.cfg` | violation | A failed spawn leaves its key registered without a process. |
| shell_stop_reaped | `ShellCommands_StopActiveKeySucceeds.cfg` | violation | `stop` of a key whose child exited and was reaped answers Error. |
| shell_sink_truncated | `ShellCommands_SinkRecordsComplete.cfg` | violation | The child exits between the four sends of a record, and the sink is closed mid-record. |
| server_ok | `MCRCLIServer` / `RCLIServer.cfg` | pass | The console's `rcli` command with every argument form: `LiveServerReachable`, `PortHeldByListener`, `StoppedServerExits`, `ServiceRefinement`. |
| server_restart_bind | `RCLIServer_StartedServerBinds.cfg` | violation | `start_rcli` right after `stop_rcli` reports success, but the bind fails. |
| socket_send_retry | `MCSocketIO` / `SocketIO_StreamIntact.cfg` | violation | A timed-out partial `sendall` is retried whole and duplicates bytes. |
| codec_ok | `MCWireCodec` / `WireCodec.cfg` | pass | `unpack_int` matches two's complement on boundary words, integers round-trip, only a negative length is rejected, and command frames round-trip (prefixes of a stream included). |
| connection_ok | `MCRCLIConnection` / `RCLIConnection.cfg` | pass | The server reads exactly the client's frames in order, across partial reads and timeouts, and ends when the client closes. |
| connection_unanswered | `RCLIConnection_AnsweredBeforeClose.cfg` | violation | `stop_rcli` after a command was applied abandons its reply. |
| runtime_ok | `MCNetworkRuntime` / `NetworkRuntime.cfg` | pass | Properties listed below. |
| qos_stale_cache | `NetworkRuntime_GetqosStale.cfg` | violation | A setqos whose netem tc rejects changes the interface but raises before the cache is updated, so a later getqos reports the old setting. |

runtime_ok runs every configuration of `MCConfigScripts`. It checks these
properties:

* `RingClosed`: every stored ring is a cycle over ports 2 and 1.
* `PortsLinkedOnce`: no port is in two links and no link joins a port to
  itself.
* `DemoQoSApplied`: when post_start_config's loop completes, both ends of
  every switch link hold the demo's QoS. Each end is reached through the
  node-pair lookup.
* `GetqosReportsDevice`: getqos returns what the interface holds.
* `ActiveMatchesDaemon`: `_is_active` holds exactly when one daemon
  instance runs.
* `DaemonsStoppedAtExit`: no daemon runs after a normal exit.
* `NoVaranusNoDaemons`: under `--novaranus`, no daemon ever runs and no
  custom node gets a shell. The null controller and collector are not in
  the net or in `cli.mn`, and the demo's `c1.netnode.start()` is a call on
  a `_MockObject`.

The findings behind the violation runs are in `PROJECT.json` under
"findings". Every property of a passing run has a mutant in `PROJECT.json`: a
plausible bug in the mapped code (a dropped guard, an off-by-one, a missing
remove, a ring closed only from three nodes, ssrclinks visiting only one end
of each link, …) under which TLC finds the property violated.

## 4. Bounds and why they are enough

* **ShellCommands**: one key and two handlers. The key can be started,
  stopped and started again while the first handler's thread still runs. One
  output line per child is enough to interrupt a record at each of its four
  pieces. A second key only meets the first through the registry, so it adds
  no interleaving.
* **RCLIServer**: three server objects. That allows a start after a stop
  while the old thread runs, and a third start after it. The console's port
  arguments are 0, 1, 65535 and 65536: both edges of `as_int`'s range and
  one value past each, so `rcli start` can raise on a bad port and two
  servers can ask for different ports.
* **SocketIO**: one result frame of four buffers and a 2-byte channel, so
  every buffer can be split across reads and block mid-write.
* **WireCodec**: the boundary words 0, 1, 127, 128 and 255 in every byte
  position, integers at ±2^31, ±2^16, ±2^8 and ±2^7, and up to two frames
  with payloads of 0 to 2 bytes.
* **NetworkRuntime**:
  * The demo is scaled to a ring of three switches with a host and the
    collector. Three switches are the fewest for which ring neighbours are
    joined by one link each, as the real demo's eleven are.
  * `DemoAdjacentChord` adds a chord between neighbours. It passes
    pre_start_config and crashes in post_start_config.
  * Ten more configurations each raise at their last call: a duplicate
    chord, a self-chord, a second controller, a reused switch name, a
    collector named like a host, a virtual port on a Pica8 switch, a Pica8
    port past 52, an automatic ring whose node name is reused, ring number
    0, and a host link from a collector.
  * Interfaces: the six ring ports and the two chord ports, which are OVS
    ports (`OvsPorts`), and the port of the host h1, which is not. One ring
    port is unavailable, as on an unmanaged node. On h1's port, the
    `ovs-vsctl ... clear Port` of `__del_ovs_qos` prints an error, so
    setqos and delqos raise RuntimeError before the cache is touched.
  * The console names four linked node pairs (one from h1) and one pair
    with no link,
    with two bands and one netem. `qos_stale_cache` adds a netem that tc
    rejects.
  * `DpidBase` stands for 2^32 and is scaled to 16.
  * `--novaranus` (`varanus` false in `Init`) is taken with the demo and
    with `Pica8Virtual`, whose explicit collector link goes through
    `add_link`'s null branch. The demo covers the ring collector and
    everything after build. The other configurations raise before build
    and treat null nodes exactly like real ones.
  * `control` is called with the methods start, stop and view and with
    restart, which no node has. Its node lists are a name not in the net, a
    plain host before a custom node, each custom node alone, and both custom
    nodes. That covers every return of `_control_node` and a raise in the
    second method after the first has run.

## 5. Fairness

* Server and handler threads are daemons that never block longer than
  their one-second timeouts, so their own steps are weakly fair:
  * RCLIServer: `Bind`, `AcceptShutdown` and `ServeShutdown`.
  * ShellCommands: `Connect`, `CheckFinished`, `ReadLine`, `SendPiece` and
    `WaitToFinish`.
  * RCLIConnection: the server's steps.
* A child's exit is fair only after SIGTERM, because a command may run for
  ever.
* The console, the client and the child's own output are not fair.
  `ProcEmit` is the consumer thread's `queue.put`. That thread reads the
  pipe until EOF, so it may put lines after the child exited or was reaped.
* NetworkRuntime, SocketIO and WireCodec check safety only. run() is one
  finite sequential thread, so that it reaches the console and net.stop
  reaches exit would hold of any code shaped like it.
* `CHECK_DEADLOCK FALSE` is set only where the behaviour is finite: a
  connection that has closed, and a transfer whose last field was read.
  NetworkRuntime ends in `Ended`, which stutters.

## 6. Not modelled, and why

* **The `rcli` docstring's frame layout.** `cli.py` (lines 79-82 and
  121-124) describes result frames as a code byte with no echoed type byte,
  and an Ok answer to a shell command as carrying the key string.
  `_do_write_cmd_result` writes the type byte, then the code, and a string
  only when there is a result. For a shell command's Ok there is none.
  `spec.md` section 6 agrees with the code. The models follow the code, and
  no run checks a round trip of result frames: passing it would only
  confirm the code against itself.

* **The expression evaluator** (`eval` in the Mininet namespace) is an
  abstract choice of result code.
* **`exit_on_timeout`** of `send_bytes`/`recv_bytes` is False at every call,
  so its re-raise is never reached.
* **Other command-line options**:
  * `--netcontroller` adds a plain Mininet controller.
  * `--gencfg`, `--autocfg` and `--cleanlocal` write files and run shell
    commands, which is I/O. So `conclude()` is taken to return True.
* **Mininet object construction** (`MininetRunner.build`'s node, interface
  and link classes) and ssh command lines are I/O without state the
  properties depend on.
* **Other `control` methods** (`terminate`, or attributes such as
  `start_daemon`) are outside `ControlOps`. The console calls them with
  `cli=cli`, like start, stop and view.
* **A second thread calling the QoS functions** (RCLI expressions) is
  possible. It is left out of runtime_ok because `GetqosReportsDevice` is
  stated for one thread. The race is listed as a hazard.
* **Ring-number reuse** gives two switches the same dpid. It is not checked,
  because every run slot is taken. The reasoning is in the `topo.py:260`
  hazard.
* Findings, and the hazards no property covers, are listed with their
  reasons in `PROJECT.json`.
