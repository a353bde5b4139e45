---------------------------- MODULE MCRCLIServer ----------------------------
(* Model-checking instance of RCLIServer: three successive server objects,  *)
(* enough for a start after a stop while the old thread still runs, and a   *)
(* third start after that.                                                  *)
EXTENDS RCLIServer
=============================================================================
