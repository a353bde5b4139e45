------------------------------ MODULE QoSCache ------------------------------
(***************************************************************************)
(* The QoS bookkeeping of varanuspy/functions.py: the module-level         *)
(* QOS_CACHE (class QoSCache) in front of the bandwidth (an OVS linux-htb  *)
(* QoS, read back with "tc class show") and netem ("tc qdisc") settings    *)
(* of each link's source interface, and the getqos / setqos / delqos /     *)
(* resetqos operations on an interface that fill and invalidate it.       *)
(*                                                                         *)
(* Every run_cmd is a separate shell command, so each one is a step of its *)
(* own: a thread's operation is a small state machine (qpc) and other      *)
(* threads may run between its commands. dev is what the kernel and OVS    *)
(* hold for an interface; cache is QOS_CACHE.cache_map.                    *)
(***************************************************************************)
EXTENDS Naturals

CONSTANTS
  Intfs,      \* source interfaces of the links
  Available,  \* those for which __check_iface_is_available returns True
  Bands,      \* bandwidth strings a caller passes (valid rates)
  Netems,     \* netem parameter strings "tc qdisc add" accepts
  BadNetems,  \* netem parameter strings "tc qdisc add" rejects
  OvsPorts,   \* the interfaces that are ports of an OVS bridge
  Threads,    \* threads that call the operations
  None        \* Python's None

ASSUME Available \subseteq Intfs /\ OvsPorts \subseteq Intfs

VARIABLES
  dev,    \* dev[i]: the bandwidth and netem set on interface i
  cache,  \* cache[i]: the QoS tuple cached for i, or Miss
  qpc,    \* qpc[t]: the step thread t's current operation is at
  qop,    \* qop[t]: the operation and its arguments
  qrb,    \* qrb[t]: the bandwidth read back so far
  qres    \* qres[t]: what the last operation of t returned or raised

qosVars == <<dev, cache, qpc, qop, qrb, qres>>

QoS(b, n) == [band |-> b, netem |-> n]
NoQoS == QoS(None, None)
Miss == [miss |-> TRUE]
QoSValues == [band : Bands \cup {None}, netem : Netems \cup {None}]

\* Results: a QoS tuple from getqos, a boolean, or a RuntimeError; each a
\* record, so that any two compare.
Ret(b) == [ret |-> b]
RuntimeError == [raised |-> "RuntimeError"]
ValueError == [raised |-> "ValueError"]
NoResult == [pending |-> TRUE]
Results == QoSValues \cup [ret : BOOLEAN] \cup {RuntimeError, ValueError, NoResult}

Ops == [op : {"get", "del", "reset"}, intf : Intfs]
         \cup [op : {"set"}, intf : Intfs, band : Bands,
               netem : Netems \cup BadNetems \cup {None}]

PCs == {"idle", "rb_band", "rb_netem", "s_del", "s_band", "s_netem", "d_del"}

QoSTypeOK ==
  /\ dev \in [Intfs -> QoSValues]
  /\ cache \in [Intfs -> QoSValues \cup {Miss}]
  /\ qpc \in [Threads -> PCs]
  /\ qop \in [Threads -> Ops]
  /\ qrb \in [Threads -> Bands \cup {None}]
  /\ qres \in [Threads -> Results]

QoSInit ==
  /\ dev = [i \in Intfs |-> NoQoS]
  /\ cache = [i \in Intfs |-> Miss]
  /\ qpc = [t \in Threads |-> "idle"]
  /\ qop = [t \in Threads |-> [op |-> "reset", intf |-> CHOOSE i \in Intfs : TRUE]]
  /\ qrb = [t \in Threads |-> None]
  /\ qres = [t \in Threads |-> NoResult]

Idle(t) == qpc[t] = "idle"
Goto(t, pc) == qpc' = [qpc EXCEPT ![t] = pc]
Return(t, r) == /\ qpc' = [qpc EXCEPT ![t] = "idle"]
                /\ qres' = [qres EXCEPT ![t] = r]
CacheRemove(i) == cache' = [cache EXCEPT ![i] = Miss]

-----------------------------------------------------------------------------
\* getqos: __getqos_intf. A hit returns the cached tuple; a miss on an
\* available interface reads it back (two tc commands) and puts it.
GetQos(t, i) ==
  /\ Idle(t)
  /\ qop' = [qop EXCEPT ![t] = [op |-> "get", intf |-> i]]
  /\ IF cache[i] # Miss
       THEN Return(t, cache[i])
     ELSE IF i \in Available
       THEN /\ Goto(t, "rb_band")
            /\ qres' = [qres EXCEPT ![t] = NoResult]
     ELSE Return(t, NoQoS)
  /\ UNCHANGED <<dev, cache, qrb>>

\* __get_tc_bandwidth: the "ceil" of class htb 1:1, or None.
ReadBand(t) ==
  /\ qpc[t] = "rb_band"
  /\ qrb' = [qrb EXCEPT ![t] = dev[qop[t].intf].band]
  /\ Goto(t, "rb_netem")
  /\ UNCHANGED <<dev, cache, qop, qres>>

\* __get_tc_netem, then QOS_CACHE.put of the pair. The pair is what
\* getqos returns; setqos returns True after the same put.
ReadNetemAndPut(t) ==
  LET i == qop[t].intf
      q == QoS(qrb[t], dev[i].netem)
  IN /\ qpc[t] = "rb_netem"
     /\ cache' = [cache EXCEPT ![i] = q]
     /\ Return(t, IF qop[t].op = "get" THEN q ELSE Ret(TRUE))
     /\ UNCHANGED <<dev, qop, qrb>>

-----------------------------------------------------------------------------
\* setqos: __setqos_intf. On an unavailable interface the entry is removed
\* and False returned; otherwise __set_bandwidth_and_netem runs its three
\* commands, and on success the pair is read back and put.
SetQos(t, i, b, n) ==
  /\ Idle(t)
  /\ qop' = [qop EXCEPT ![t] = [op |-> "set", intf |-> i, band |-> b, netem |-> n]]
  /\ IF i \in Available
       THEN /\ Goto(t, "s_del")
            /\ qres' = [qres EXCEPT ![t] = NoResult]
            /\ UNCHANGED cache
       ELSE /\ Return(t, Ret(FALSE))
            /\ CacheRemove(i)
  /\ UNCHANGED <<dev, qrb>>

\* Mutant of the delete: delqos returns without QOS_CACHE.remove.
DelOvsQosKeepsEntry(t) ==
  /\ qpc[t] \in {"s_del", "d_del"}
  /\ dev' = [dev EXCEPT ![qop[t].intf] = NoQoS]
  /\ IF qpc[t] = "s_del"
       THEN /\ Goto(t, "s_band")
            /\ UNCHANGED <<cache, qres>>
       ELSE /\ Return(t, Ret(TRUE))
            /\ UNCHANGED cache
  /\ UNCHANGED <<qop, qrb>>

\* __del_ovs_qos: destroying the OVS QoS also removes the netem under it.
\* For delqos (d_del) the entry is then removed and True returned. On an
\* interface that is no OVS port, "clear Port {i} qos" prints an error:
\* RuntimeError, out of setqos or delqos before the cache is touched.
DelOvsQos(t) ==
  /\ qpc[t] \in {"s_del", "d_del"}
  /\ \/ /\ qop[t].intf \in OvsPorts
        /\ dev' = [dev EXCEPT ![qop[t].intf] = NoQoS]
        /\ IF qpc[t] = "s_del"
             THEN /\ Goto(t, "s_band")
                  /\ UNCHANGED <<cache, qres>>
             ELSE /\ Return(t, Ret(TRUE))
                  /\ CacheRemove(qop[t].intf)
     \/ /\ qop[t].intf \notin OvsPorts
        /\ Return(t, RuntimeError)
        /\ UNCHANGED <<dev, cache>>
  /\ UNCHANGED <<qop, qrb>>

\* __set_ovs_qos: creates the htb QoS with max-rate band; returns True
\* whatever ovs-vsctl printed.
SetOvsQos(t) ==
  /\ qpc[t] = "s_band"
  /\ dev' = [dev EXCEPT ![qop[t].intf].band = qop[t].band]
  /\ Goto(t, "s_netem")
  /\ UNCHANGED <<cache, qop, qrb, qres>>

\* __set_tc_netem: nothing to do for None; "tc qdisc add" otherwise, whose
\* error output raises RuntimeError out of setqos, past the put and the
\* remove of __setqos_intf.
SetTcNetem(t) ==
  LET n == qop[t].netem IN
  /\ qpc[t] = "s_netem"
  /\ \/ /\ n = None
        /\ Goto(t, "rb_band")
        /\ UNCHANGED <<dev, qres>>
     \/ /\ n \in Netems
        /\ dev' = [dev EXCEPT ![qop[t].intf].netem = n]
        /\ Goto(t, "rb_band")
        /\ UNCHANGED qres
     \/ /\ n \in BadNetems
        /\ Return(t, RuntimeError)
        /\ UNCHANGED dev
  /\ UNCHANGED <<cache, qop, qrb>>

-----------------------------------------------------------------------------
\* delqos: __delqos_intf. __del_ovs_qos on an available interface, and the
\* entry is removed in either case.
DelQos(t, i) ==
  /\ Idle(t)
  /\ qop' = [qop EXCEPT ![t] = [op |-> "del", intf |-> i]]
  /\ IF i \in Available
       THEN /\ Goto(t, "d_del")
            /\ qres' = [qres EXCEPT ![t] = NoResult]
            /\ UNCHANGED cache
       ELSE /\ Return(t, Ret(FALSE))
            /\ CacheRemove(i)
  /\ UNCHANGED <<dev, qrb>>

\* resetqos: __resetqos. "ovs-vsctl --all destroy QoS -- --all destroy
\* Queue" either succeeds (every QoS and netem gone) or fails as a whole;
\* the cache is cleared either way and the exit status returned.
ResetQos(t) ==
  /\ Idle(t)
  /\ qop' = [qop EXCEPT ![t] = [op |-> "reset", intf |-> qop[t].intf]]
  /\ \E ok \in BOOLEAN :
       /\ dev' = IF ok THEN [i \in Intfs |-> NoQoS] ELSE dev
       /\ Return(t, Ret(ok))
  /\ cache' = [i \in Intfs |-> Miss]
  /\ UNCHANGED qrb

\* The steps of operations already under way.
QoSStep(t) ==
  \/ ReadBand(t)
  \/ ReadNetemAndPut(t)
  \/ DelOvsQos(t)
  \/ SetOvsQos(t)
  \/ SetTcNetem(t)

-----------------------------------------------------------------------------
\* cli.py documents getqos as returning "the bandwidth and Netem
\* configurations currently assigned" to the link: whenever a getqos call
\* of a thread has returned a tuple, and that thread has not started
\* another operation, the tuple is what the interface holds.
GetqosReportsDevice ==
  \A t \in Threads :
    (Idle(t) /\ qop[t].op = "get" /\ qres[t] \in QoSValues)
      => qres[t] = dev[qop[t].intf]
=============================================================================
