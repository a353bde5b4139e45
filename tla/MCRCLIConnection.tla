------------------------- MODULE MCRCLIConnection -------------------------
(***************************************************************************)
(* Two clients: one writes an expression, an empty shell command and a     *)
(* frame whose length word is negative; the other writes an expression and *)
(* a frame with the invalid type 7 (scenario D).                           *)
(***************************************************************************)
EXTENDS RCLIConnection

Expr == EncodeCmd(0, <<49, 50>>)
EmptyShell == EncodeCmd(1, <<>>)
NegativeLength == <<0>> \o pack_int(-1)
BadType == EncodeCmd(7, <<49>>)

MCScripts == {<<Expr, EmptyShell, NegativeLength>>, <<Expr, BadType>>}
MCResStr == <<82>>
=============================================================================
