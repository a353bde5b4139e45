-------------------------- MODULE MCShellCommands --------------------------
(* Model-checking instance of ShellCommands: the keys are model values;    *)
(* a key may be reused by a later handler after a stop.                    *)
EXTENDS ShellCommands, TLC

CONSTANTS k1, k2

MCKeys == {k1, k2}

\* Keys are interchangeable model values (safety runs only).
KeySymmetry == Permutations(MCKeys)
=============================================================================
