----------------------------- MODULE MCSocketIO -----------------------------
(* Model-checking instance of SocketIO: one result frame with a payload    *)
(* string, written as _do_write_cmd_result does (type byte, code byte,     *)
(* 4-byte length, payload) and read back field by field by the client.     *)
EXTENDS SocketIO

\* Type byte, code byte, length prefix, a 2-byte payload.
MCBufLens == <<1, 1, 4, 2>>

\* The client reads the same fields.
MCReadLens == <<1, 1, 4, 2>>
=============================================================================
