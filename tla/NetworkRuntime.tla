--------------------------- MODULE NetworkRuntime ---------------------------
(***************************************************************************)
(* The life of the network manager process (run_netmanager.py, run): the   *)
(* MininetRunner is built and started, the configuration's                 *)
(* post_start_config runs (config/demo.py: QoS on every switch link, then  *)
(* the collector is started), and the console (MininetRunner.interact)     *)
(* takes commands until exit, when net.stop stops the controllers and      *)
(* terminates the hosts. It composes the QoS bookkeeping (QoSCache) and    *)
(* the custom nodes (CustomNodes) over one thread, the main thread that    *)
(* runs the configuration and then the console; pre_start_config is the   *)
(* topology declaration of Topology, run call by call from a script.       *)
(***************************************************************************)
EXTENDS QoSCache, CustomNodes, Topology, SequencesExt

CONSTANTS
  Console,        \* the main thread
  ConfigScripts,  \* pre_start_config bodies: sequences of Topology calls
  DemoBand,     \* demo.py: band = '100000000'
  DemoNetem,    \* demo.py: netem = 'delay 5ms'
  Collector,    \* demo.py: the host 'c1'
  ConsolePairs, \* <<src_node, dst_node>> pairs the console names
  ControlArgs,  \* node-name lists the console's "control" command names
  ControlOps,   \* method names it names
  NoVaranusScripts \* the ConfigScripts also run with --novaranus

VARIABLES
  phase,    \* where run() is
  script,   \* the QoS calls post_start_config has still to make
  pending,  \* the nodes net.stop has still to stop or terminate
  cfgscript, \* the calls pre_start_config has still to make
  ctlq       \* the node methods a "control" command has still to call

cfgVars == <<topoVars, cfgscript>>
vars == <<qosVars, nodeVars, cfgVars, phase, script, pending, ctlq>>

Phases == {"config", "built", "started", "post", "interact", "stopping",
           "exited", "crashed"}

\* functions.py links(mn, src, dst): the interfaces of src whose link's
\* other end is on dst (_srclinks_matching on the peer's name).
SrcIntfs(src, dst) ==
  {l[1] : l \in {m \in links : m[1][1] = src /\ m[2][1] = dst}}
    \cup {l[2] : l \in {m \in links : m[2][1] = src /\ m[1][1] = dst}}

\* _peer_intf: the other end of interface i's link.
PeerIntf(i) == CHOOSE q \in DOMAIN ports : <<i, q>> \in links \/ <<q, i>> \in links

\* Mutant of ssrclinks: only the interfaces that are the first end of their
\* link (link.intf1) are visited.
SwitchSrcIntfsOneWay(sw) ==
  UNION {{l[1] : l \in {m \in links : m[1][1] = sw /\ m[2][1] = d}} : d \in Range(rswitches)}

\* ssrclinks(sw): the links from an interface of sw whose peer is on a switch.
SwitchSrcIntfs(sw) == UNION {SrcIntfs(sw, d) : d \in Range(rswitches)}

\* QoS calls by node pair (getqos, setqos, delqos of functions.py) and by
\* interface (the __*qos_intf functions they end in, and resetqos).
NodeOps ==
  [op : {"get", "del"}, src : Nodes, dst : Nodes]
    \cup [op : {"set"}, src : Nodes, dst : Nodes, band : Bands,
          netem : Netems \cup BadNetems \cup {None}]

\* demo.py post_start_config: resetqos(), then for each switch ssrclinks
\* (whose _make_link calls __getqos_intf on every link's source interface)
\* and setqos(mr.net, L.nsrc, L.ndst, band, netem) per link. switches(net)
\* and intfList follow dict and creation order, which SetToSeq stands for.
GetOp(i) == [op |-> "get", intf |-> i]
SetOp(i) == [op |-> "set", src |-> i[1], dst |-> PeerIntf(i)[1], band |-> DemoBand,
             netem |-> DemoNetem]
SwitchOps(s) == [j \in DOMAIN s |-> GetOp(s[j])] \o [j \in DOMAIN s |-> SetOp(s[j])]
DemoScript ==
  LET sws == SetToSeq(Range(rswitches)) IN
  <<[op |-> "reset", intf |-> CHOOSE i \in Intfs : TRUE]>>
    \o FlattenSeq([k \in DOMAIN sws |-> SwitchOps(SetToSeq(SwitchSrcIntfs(sws[k])))])

\* Mutant of build: the null nodes are taken for nodes of the net.
NetCustomNodesWithNull == CustomNodes

\* The custom nodes MininetRunner.build adds to the net: a null node's
\* build makes a _MockObject, which the net's controllers and hosts never
\* hold.
NetCustomNodes == CustomNodes \ NullNodes

\* "name in cli.mn": the nodes MininetRunner.build added to the net.
InNet(n) == n \in (Range(rswitches) \cup rhosts \cup controller) \ NullNodes

\* The methods "control" can call on a custom node: start and stop of
\* CustomControllerMixin / CustomNodeMixin, and the 'view' of morecmds
\* (LocalSDNControllerConfig, LocalCollectorConfig).
CustomMethods == {"start", "stop", "view"}

TypeOK ==
  /\ QoSTypeOK
  /\ NodesTypeOK
  /\ TopoTypeOK
  /\ phase \in Phases
  /\ script \in Seq(Ops \cup NodeOps)
  /\ pending \subseteq CustomNodes
  /\ ctlq \in Seq(CustomMethods \X CustomNodes)
  /\ \A n \in CustomNodes : active[n] => shell[n] = "alive"

Init ==
  /\ QoSInit
  /\ NodesInit
  /\ TopoInit
  /\ cfgscript \in ConfigScripts
  /\ varanus \/ cfgscript \in NoVaranusScripts
  /\ phase = "config"
  /\ script = <<>>
  /\ pending = {}
  /\ ctlq = << >>

\* Begin the QoS call o, on an interface, on thread t.
BeginOp(t, o) ==
  CASE o.op = "get" -> GetQos(t, o.intf)
    [] o.op = "set" -> SetQos(t, o.intf, o.band, o.netem)
    [] o.op = "del" -> DelQos(t, o.intf)
    [] o.op = "reset" -> ResetQos(t)

\* getqos, setqos and delqos by node pair: __get_src_intf raises ValueError
\* unless links(mn, src, dst) has exactly one link, and the call goes on on
\* that link's source interface.
GetSrcIntfFails(o) == Cardinality(SrcIntfs(o.src, o.dst)) # 1
AtSrcIntf(o) ==
  LET i == CHOOSE j \in SrcIntfs(o.src, o.dst) : TRUE IN
  IF o.op = "set" THEN [op |-> "set", intf |-> i, band |-> o.band, netem |-> o.netem]
                  ELSE [op |-> o.op, intf |-> i]
QoSCall(t, o) ==
  \/ /\ ~GetSrcIntfFails(o)
     /\ BeginOp(t, AtSrcIntf(o))
  \/ /\ GetSrcIntfFails(o)
     /\ Idle(t)
     /\ qres' = [qres EXCEPT ![t] = ValueError]
     /\ UNCHANGED <<dev, cache, qpc, qop, qrb>>

-----------------------------------------------------------------------------
\* pre_start_config makes its next call; nothing in run() catches what it
\* raises.
ConfigCall ==
  /\ phase = "config"
  /\ cfgscript # << >>
  /\ ~raised
  /\ TopoCall(Head(cfgscript))
  /\ cfgscript' = Tail(cfgscript)
  /\ UNCHANGED <<qosVars, nodeVars, phase, script, pending, ctlq>>

ConfigRaised ==
  /\ phase = "config"
  /\ raised
  /\ phase' = "crashed"
  /\ UNCHANGED <<qosVars, nodeVars, cfgVars, script, pending, ctlq>>

\* VaranusTopo.conclude returns True (no --gencfg, no --cleanlocal) and
\* MininetRunner.build creates every node; the custom nodes are the
\* controller and the collectors the configuration declared, unless they
\* are null nodes.
Build ==
  /\ phase = "config"
  /\ cfgscript = << >>
  /\ ~raised
  /\ controller = Controllers
  /\ tcollectors = Hosts
  /\ BuildNodes(NetCustomNodes)
  /\ phase' = "built"
  /\ UNCHANGED <<cfgVars, qosVars, script, pending, ctlq>>

\* MininetRunner.start: net.start() calls start() on every controller of
\* the net.
NetStart ==
  /\ phase = "built"
  /\ LET cs == Controllers \cap NetCustomNodes IN
     /\ active' = [n \in CustomNodes |-> n \in cs \/ active[n]]
     /\ daemons' = [n \in CustomNodes |->
                      IF n \in cs /\ ~active[n] THEN daemons[n] + 1 ELSE daemons[n]]
  /\ phase' = "started"
  /\ script' = DemoScript
  /\ UNCHANGED <<cfgVars, qosVars, shell, pending, ctlq>>

\* post_start_config makes its next QoS call (the steps of a call are
\* QoSStep): resetqos or a __getqos_intf of ssrclinks, or a setqos by node
\* pair. demo.py catches none of their exceptions: a ValueError of
\* __get_src_intf ends run() with the daemons net.start started running.
PostCall ==
  /\ phase \in {"started", "post"}
  /\ script # <<>>
  /\ IF Head(script) \in Ops THEN BeginOp(Console, Head(script))
                             ELSE QoSCall(Console, Head(script))
  /\ phase' = IF Head(script) \in NodeOps /\ GetSrcIntfFails(Head(script))
                THEN "crashed" ELSE "post"
  /\ script' = Tail(script)
  /\ UNCHANGED <<cfgVars, nodeVars, pending, ctlq>>

\* The end of post_start_config: c1.netnode.start() (a call on the
\* _MockObject of a null host does nothing), then start_rcli; run() goes on
\* to MininetRunner.interact.
PostDone ==
  /\ phase = "post"
  /\ script = <<>>
  /\ Idle(Console)
  /\ IF Collector \in NullNodes THEN UNCHANGED nodeVars ELSE Start(Collector)
  /\ phase' = "interact"
  /\ UNCHANGED <<cfgVars, qosVars, script, pending, ctlq>>

-----------------------------------------------------------------------------
\* The console's getqos/setqos/delqos commands on a pair of nodes, and
\* resetqos (cli.py); they catch ValueError and RuntimeError.
ConsoleQoS ==
  /\ phase = "interact"
  /\ ctlq = << >>
  /\ \/ \E o \in NodeOps : <<o.src, o.dst>> \in ConsolePairs /\ QoSCall(Console, o)
     \/ ResetQos(Console)
  /\ UNCHANGED <<cfgVars, nodeVars, phase, script, pending, ctlq>>

\* A step of a QoS call under way on the main thread. The console catches
\* a RuntimeError; post_start_config does not, and run() ends.
ConsoleQoSStep ==
  /\ phase \in {"post", "interact"}
  /\ QoSStep(Console)
  /\ phase' = IF phase = "post" /\ qres'[Console] = RuntimeError THEN "crashed" ELSE phase
  /\ UNCHANGED <<cfgVars, nodeVars, script, pending, ctlq>>

\* "control <op> <node>[ <node>]*" (cli.py _control_node): an unknown name
\* returns before anything runs; a node that is not a CustomMixin is only
\* reported and left out; an op that is not a method of every remaining
\* node returns before anything runs. The methods then run in turn.
ControlCall(op, ns) ==
  /\ phase = "interact"
  /\ Idle(Console)
  /\ ctlq = << >>
  /\ LET todo == SelectSeq(ns, LAMBDA n : n \in CustomNodes) IN
     ctlq' = IF (\A i \in DOMAIN ns : InNet(ns[i])) /\ op \in CustomMethods
               THEN [i \in DOMAIN todo |-> <<op, todo[i]>>]
               ELSE << >>
  /\ UNCHANGED <<cfgVars, qosVars, nodeVars, phase, script, pending>>

\* VaranusUtils.view_daemon with the console: run_cli_cmd runs the
\* daemonizer's view through cli.onecmd in the node's shell, which raises
\* when the shell is gone; it changes nothing.
ViewRaises(n) == CmdFails(n)

\* The next method of the command, n.op(cli=cli). Nothing in the console
\* loop catches what it raises: interact ends without reaching net.stop,
\* the nodes before n changed and the ones after n untouched.
ControlStep ==
  /\ phase = "interact"
  /\ ctlq # << >>
  /\ LET op == Head(ctlq)[1]
         n == Head(ctlq)[2] IN
     \/ /\ op = "start"
        /\ ~StartRaises(n)
        /\ Start(n)
        /\ ctlq' = Tail(ctlq)
        /\ UNCHANGED phase
     \/ /\ op = "stop"
        /\ Stop(n)
        /\ ctlq' = Tail(ctlq)
        /\ UNCHANGED phase
     \/ /\ op = "view"
        /\ ~ViewRaises(n)
        /\ ctlq' = Tail(ctlq)
        /\ UNCHANGED <<phase, nodeVars>>
     \/ /\ \/ op = "start" /\ StartRaises(n)
           \/ op = "view" /\ ViewRaises(n)
        /\ phase' = "crashed"
        /\ ctlq' = << >>
        /\ UNCHANGED nodeVars
  /\ UNCHANGED <<cfgVars, qosVars, script, pending>>

\* The console's exit: interact calls net.stop().
Exit ==
  /\ phase = "interact"
  /\ Idle(Console)
  /\ ctlq = << >>
  /\ phase' = "stopping"
  /\ pending' = NetCustomNodes
  /\ UNCHANGED <<cfgVars, qosVars, nodeVars, script, ctlq>>

\* net.stop(): stop() on each controller, then terminate() on each host.
NetStopController(c) ==
  /\ phase = "stopping"
  /\ c \in pending \cap Controllers
  /\ Stop(c)
  /\ pending' = pending \ {c}
  /\ UNCHANGED <<cfgVars, qosVars, phase, script, ctlq>>

NetStopHost(h) ==
  /\ phase = "stopping"
  /\ h \in pending \cap Hosts
  /\ pending \cap Controllers = {}
  /\ Terminate(h)
  /\ pending' = pending \ {h}
  /\ UNCHANGED <<cfgVars, qosVars, phase, script, ctlq>>

\* run() returns once net.stop has visited every node.
Stopped ==
  /\ phase = "stopping"
  /\ pending = {}
  /\ phase' = "exited"
  /\ UNCHANGED <<cfgVars, qosVars, nodeVars, script, pending, ctlq>>

\* The process has ended; it stays ended.
Ended ==
  /\ phase \in {"exited", "crashed"}
  /\ UNCHANGED vars

Next ==
  \/ ConfigCall \/ ConfigRaised \/ Build \/ NetStart \/ PostCall \/ PostDone
  \/ ConsoleQoSStep
  \/ ConsoleQoS \/ Exit \/ Stopped \/ Ended
  \/ \E op \in ControlOps, ns \in ControlArgs : ControlCall(op, ns)
  \/ ControlStep
  \/ \E c \in Controllers : NetStopController(c)
  \/ \E h \in Hosts : NetStopHost(h)

Spec == Init /\ [][Next]_vars

-----------------------------------------------------------------------------
\* The _is_active flag tracks the daemon: through net.start, the demo's
\* collector start, "control start/stop" in any order, a start that raises
\* and net.stop, a custom node is active exactly when one instance of its
\* daemon runs (none for an inactive node, never two).
ActiveMatchesDaemon ==
  \A n \in CustomNodes : daemons[n] = IF active[n] THEN 1 ELSE 0

\* demo.py "Setup base QoS in all switch links": when post_start_config's
\* last setqos has returned, both ends of every link between two switches
\* of the declared topology hold the demo's bandwidth and netem, where the
\* interface is available. Each end is reached only as the source of one of
\* ssrclinks' links, whose setqos by node pair __get_src_intf resolves.
DemoQoSApplied ==
  (phase = "post" /\ script = << >> /\ Idle(Console))
    => \A l \in links, k \in {1, 2} :
         (/\ l[1][1] \in Range(rswitches) /\ l[2][1] \in Range(rswitches)
          /\ l[k] \in Available)
           => dev[l[k]] = QoS(DemoBand, DemoNetem)

\* With --novaranus no VARANUS daemon ever runs and no custom node gets a
\* shell: the controller and collectors are null nodes the net does not
\* hold, so net.start, the demo's c1.netnode.start(), "control" and
\* net.stop never reach a daemonizer command.
NoVaranusNoDaemons ==
  ~varanus => \A n \in CustomNodes : daemons[n] = 0 /\ shell[n] = "none"

\* When run() returns normally, net.stop has stopped every daemon the
\* controllers, the collector and the console's "control start" left
\* running (CustomNodeMixin.terminate runs stopcmd for a still-active host).
DaemonsStoppedAtExit ==
  phase = "exited" => \A n \in CustomNodes : daemons[n] = 0
=============================================================================
