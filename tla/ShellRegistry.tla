--------------------------- MODULE ShellRegistry ---------------------------
(***************************************************************************)
(* What the shell-control registry promises its client (spec sections 4.4 *)
(* and 8), seen as the set of active keys and the reply to the last        *)
(* command:                                                                *)
(*   - a start of an active key, and a stop of an inactive one, change     *)
(*     nothing and answer Error;                                           *)
(*   - a start that answers Ok makes its key active; a stop of an active   *)
(*     key makes it inactive, whatever it answers;                         *)
(*   - nothing else changes the set of active keys.                        *)
(* A start of an inactive key that answers Error may or may not have      *)
(* registered it: the spec does not say what a failed spawn leaves behind.*)
(***************************************************************************)
CONSTANTS Keys

VARIABLES active, reply

SetReply(op, code) == reply' = [op |-> op, code |-> code]

Init == active = {} /\ reply = [op |-> "none", code |-> "none"]

ParseFailure == SetReply("parse", "error") /\ UNCHANGED active

StartKey(k) ==
  \/ /\ k \in active
     /\ SetReply("start", "error")
     /\ UNCHANGED active
  \/ /\ k \notin active
     /\ active' = active \cup {k}
     /\ SetReply("start", "ok")
  \/ /\ k \notin active
     /\ active' \in {active, active \cup {k}}
     /\ SetReply("start", "error")

StopKey(k) ==
  \E op \in {"stop", "stop_custom"} :
    \/ /\ k \notin active
       /\ SetReply(op, "error")
       /\ UNCHANGED active
    \/ /\ k \in active
       /\ active' = active \ {k}
       /\ \E c \in {"ok", "error"} : SetReply(op, c)

Next == ParseFailure \/ \E k \in Keys : StartKey(k) \/ StopKey(k)

Spec == Init /\ [][Next]_<<active, reply>>
=============================================================================
