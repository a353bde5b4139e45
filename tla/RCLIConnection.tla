--------------------------- MODULE RCLIConnection ---------------------------
(***************************************************************************)
(* One control connection of the RCLI server (varanuspy/rcli.py): the      *)
(* serve loop _RCLIServer._handle_connection with its frame reader         *)
(* _do_read_cmd, the dispatch by command type, and the frame writer        *)
(* _do_write_cmd_result, against a client that writes command frames and  *)
(* reads result frames over the two directions of the TCP connection, and  *)
(* a console that may call stop_rcli at any moment.                        *)
(*                                                                         *)
(* Bytes are those of WireCodec. Every recv_bytes and send_bytes call is   *)
(* one step: SocketIO checks that partial reads are reassembled, and a     *)
(* timeout is a stutter here. Each call checks the shutdown flag before    *)
(* it touches the socket; the flag may be set just after that check, so a  *)
(* call may still complete once the flag is set. The outcome of a          *)
(* dispatched command is any code of its type (ShellCommands models the    *)
(* shell branch; the expression evaluator is an external collaborator).    *)
(***************************************************************************)
EXTENDS WireCodec, SequencesExt

CONSTANTS
  Scripts,  \* the byte frames a client may write, in order (one per run)
  ResStr    \* the bytes of a result or error string

VARIABLES
  script,    \* the frames this client writes
  c2s,       \* bytes in flight from the client to the server
  s2c,       \* bytes in flight from the server to the client
  sent,      \* frames of script the client has written
  cclosed,   \* the client closed the connection
  answers,   \* result frames the client has decoded
  shutdown,  \* _shutdown_check.is_set()
  spc,       \* where the server thread is in _handle_connection
  inrecv,    \* recv_bytes passed its exit check and calls recv_into
  got,       \* the bytes of the current field received so far
  ctype,     \* the command type byte read
  slen,      \* the command string length read
  cmd,       \* the command string read
  code,      \* the result code of the dispatched command
  res,       \* its result string, or NoString for None
  reads,     \* history: the commands _do_read_cmd returned, in order
  written    \* history: result frames written in full

clientVars == <<script, sent, cclosed, answers>>
serverVars == <<spc, inrecv, got, ctype, slen, cmd, code, res, reads, written>>
vars == <<clientVars, c2s, s2c, shutdown, serverVars>>

\* The result codes of each command type, and the string of each code.
Codes(t) == IF t = 0 THEN {0, 1, 2} ELSE {1, 2}
ResultOf(t, c) == IF HasString(t, c) THEN ResStr ELSE NoString

\* The bytes recv_bytes is waiting for at each read of _do_read_cmd.
RecvPCs == {"rtype", "rlen", "rpay"}
Need == [p \in RecvPCs |-> CASE p = "rtype" -> 1 [] p = "rlen" -> 4 [] p = "rpay" -> slen]

\* The send_bytes calls of _do_write_cmd_result and send_string.
WritePCs == {"wtype", "wcode", "wslen", "wsbody"}

-----------------------------------------------------------------------------
(* Server thread                                                           *)

\* while not self.is_shutdown(): leaving the loop closes the connection
\* (with closing(sock)) and ends _run.
LoopCheck ==
  /\ spc = "loop"
  /\ spc' = IF shutdown THEN "closed" ELSE "rtype"
  /\ UNCHANGED <<clientVars, c2s, s2c, shutdown, inrecv, got, ctype, slen, cmd, code, res, reads, written>>

\* while not exit_check(): the flag is set, so recv_bytes returns None and
\* _do_read_cmd returns (None, None); nothing is dispatched.
RecvAbort ==
  /\ spc \in RecvPCs
  /\ ~inrecv
  /\ shutdown
  /\ spc' = "loop"
  /\ got' = <<>>
  /\ UNCHANGED <<clientVars, c2s, s2c, shutdown, inrecv, ctype, slen, cmd, code, res, reads, written>>

\* The flag is not set: the loop body calls recv_into. The flag may be set
\* by the console right after this check.
RecvCheck ==
  /\ spc \in RecvPCs
  /\ ~inrecv
  /\ ~shutdown
  /\ inrecv' = TRUE
  /\ UNCHANGED <<clientVars, c2s, s2c, shutdown, spc, got, ctype, slen, cmd, code, res, reads, written>>

\* recv_into times out with nothing to read: socket.timeout is caught and
\* the loop checks the flag again.
RecvTimeout ==
  /\ inrecv
  /\ c2s = <<>>
  /\ ~cclosed
  /\ inrecv' = FALSE
  /\ UNCHANGED <<clientVars, c2s, s2c, shutdown, spc, got, ctype, slen, cmd, code, res, reads, written>>

\* Mutant of RecvEOF: a zero-byte read is taken for a timeout and retried.
RecvEOFAsTimeout ==
  /\ inrecv
  /\ c2s = <<>>
  /\ cclosed
  /\ inrecv' = FALSE
  /\ UNCHANGED <<clientVars, c2s, s2c, shutdown, spc, got, ctype, slen, cmd, code, res, reads, written>>

\* recv_into returns 0: IOError('remote side terminated the connection'),
\* caught by _run, which ends.
RecvEOF ==
  /\ inrecv
  /\ c2s = <<>>
  /\ cclosed
  /\ spc' = "closed"
  /\ inrecv' = FALSE
  /\ got' = <<>>
  /\ UNCHANGED <<clientVars, c2s, s2c, shutdown, ctype, slen, cmd, code, res, reads, written>>

\* What _do_read_cmd and recv_string do with each field recv_bytes
\* returns. The type byte: ctype = unpack_byte(ctype_raw).
ReadType(buf) ==
  /\ ctype' = unpack_byte(buf)
  /\ spc' = "rlen"
  /\ UNCHANGED <<slen, cmd>>

\* The length word: a negative one raises IOError. A zero length returns
\* an empty buffer at once, without checking exit_check.
ReadLen(buf) ==
  LET n == unpack_int(buf) IN
  /\ slen' = n
  /\ spc' = CASE n < 0 -> "closed" [] n = 0 -> "dispatch" [] OTHER -> "rpay"
  /\ cmd' = <<>>
  /\ UNCHANGED ctype

\* The command string.
ReadPayload(buf) ==
  /\ cmd' = buf
  /\ spc' = "dispatch"
  /\ UNCHANGED <<ctype, slen>>

\* Mutant of RecvInto: bufview is not advanced after a partial read, so
\* every recv_into writes at the start of the buffer.
RecvIntoNoAdvance ==
  /\ inrecv
  /\ \E k \in 1 .. Need[spc] - Len(got) :
       /\ k <= Len(c2s)
       /\ c2s' = SubSeq(c2s, k + 1, Len(c2s))
       /\ LET buf == [p \in 1 .. Len(got) + k |->
                        IF p <= k THEN c2s[p] ELSE IF p <= Len(got) THEN got[p] ELSE 0]
          IN IF Len(buf) < Need[spc]
               THEN got' = buf /\ UNCHANGED <<spc, ctype, slen, cmd>>
               ELSE /\ got' = <<>>
                    /\ CASE spc = "rtype" -> ReadType(buf)
                         [] spc = "rlen" -> ReadLen(buf)
                         [] spc = "rpay" -> ReadPayload(buf)
  /\ inrecv' = FALSE
  /\ UNCHANGED <<clientVars, s2c, shutdown, code, res, reads, written>>

\* nread = sock.recv_into(bufview): between one byte and what the view
\* still lacks; bufview = bufview[nread:]; a full buffer is returned to
\* the caller, which goes on with the field.
RecvInto ==
  /\ inrecv
  /\ \E k \in 1 .. Need[spc] - Len(got) :
       /\ k <= Len(c2s)
       /\ c2s' = SubSeq(c2s, k + 1, Len(c2s))
       /\ LET buf == got \o SubSeq(c2s, 1, k) IN
          IF Len(buf) < Need[spc]
            THEN got' = buf /\ UNCHANGED <<spc, ctype, slen, cmd>>
            ELSE /\ got' = <<>>
                 /\ CASE spc = "rtype" -> ReadType(buf)
                      [] spc = "rlen" -> ReadLen(buf)
                      [] spc = "rpay" -> ReadPayload(buf)
  /\ inrecv' = FALSE
  /\ UNCHANGED <<clientVars, s2c, shutdown, code, res, reads, written>>

\* _handle_connection: _do_exec_python_cmd for type 0 (Null, NonNull or
\* Exception), _do_exec_shell_cmd for type 1 (Ok or Error); any other type
\* raises IOError('received invalid command type') and nothing is written.
Dispatch ==
  /\ spc = "dispatch"
  /\ reads' = Append(reads, <<ctype, cmd>>)
  /\ \/ /\ ctype \in {0, 1}
        /\ \E c \in Codes(ctype) : code' = c /\ res' = ResultOf(ctype, c)
        /\ spc' = "wtype"
     \/ /\ ctype \notin {0, 1}
        /\ spc' = "closed"
        /\ UNCHANGED <<code, res>>
  /\ UNCHANGED <<clientVars, c2s, s2c, shutdown, inrecv, got, ctype, slen, cmd, written>>

\* send_bytes sees exit_check() and returns False: _do_write_cmd_result
\* skips the rest of the frame and the loop rechecks the flag.
WriteAbort ==
  /\ spc \in WritePCs
  /\ shutdown
  /\ spc' = "loop"
  /\ UNCHANGED <<clientVars, c2s, s2c, shutdown, inrecv, got, ctype, slen, cmd, code, res, reads, written>>

\* sendall on a connection the client closed raises socket.error (an
\* IOError), caught by _run, which ends.
WriteFail ==
  /\ spc \in WritePCs
  /\ cclosed
  /\ spc' = "closed"
  /\ inrecv' = FALSE
  /\ got' = <<>>
  /\ UNCHANGED <<clientVars, c2s, s2c, shutdown, ctype, slen, cmd, code, res, reads, written>>

\* Mutant of WriteField: every field written counts as a whole frame.
WriteFieldCountsEach ==
  /\ spc \in WritePCs
  /\ LET field == CASE spc = "wtype" -> pack_byte(ctype)
                    [] spc = "wcode" -> pack_byte(code)
                    [] spc = "wslen" -> pack_int(Len(res))
                    [] spc = "wsbody" -> res
         after == CASE spc = "wtype" -> "wcode"
                    [] spc = "wcode" -> IF res = NoString THEN "loop" ELSE "wslen"
                    [] spc = "wslen" -> "wsbody"
                    [] spc = "wsbody" -> "loop"
     IN /\ s2c' = s2c \o field
        /\ spc' = after
        /\ written' = written + 1
  /\ UNCHANGED <<clientVars, c2s, shutdown, inrecv, got, ctype, slen, cmd, code, res, reads>>

\* One send_bytes call of _do_write_cmd_result: the type byte, the code
\* byte, then (if res is not None) send_string's length and bytes.
WriteField ==
  /\ spc \in WritePCs
  /\ LET field == CASE spc = "wtype" -> pack_byte(ctype)
                    [] spc = "wcode" -> pack_byte(code)
                    [] spc = "wslen" -> pack_int(Len(res))
                    [] spc = "wsbody" -> res
         after == CASE spc = "wtype" -> "wcode"
                    [] spc = "wcode" -> IF res = NoString THEN "loop" ELSE "wslen"
                    [] spc = "wslen" -> "wsbody"
                    [] spc = "wsbody" -> "loop"
     IN /\ s2c' = s2c \o field
        /\ spc' = after
        /\ written' = IF after = "loop" THEN written + 1 ELSE written
  /\ UNCHANGED <<clientVars, c2s, shutdown, inrecv, got, ctype, slen, cmd, code, res, reads>>

-----------------------------------------------------------------------------
(* Client and console                                                      *)

\* The client writes its next command frame.
ClientSend ==
  /\ ~cclosed
  /\ sent < Len(script)
  /\ c2s' = c2s \o script[sent + 1]
  /\ sent' = sent + 1
  /\ UNCHANGED <<script, cclosed, answers, s2c, shutdown, serverVars>>

\* The client reads one whole result frame.
ClientRecv ==
  /\ ~cclosed
  /\ DecodeResult(s2c).st = "ok"
  /\ answers' = Append(answers, DecodeResult(s2c).val)
  /\ s2c' = DecodeResult(s2c).rest
  /\ UNCHANGED <<script, sent, cclosed, c2s, shutdown, serverVars>>

ClientClose ==
  /\ ~cclosed
  /\ cclosed' = TRUE
  /\ UNCHANGED <<script, sent, answers, c2s, s2c, shutdown, serverVars>>

\* stop_rcli: the flag is set; the connection is not closed by it.
StopRcli ==
  /\ ~shutdown
  /\ shutdown' = TRUE
  /\ UNCHANGED <<clientVars, c2s, s2c, serverVars>>

-----------------------------------------------------------------------------

Init ==
  /\ script \in Scripts
  /\ c2s = <<>>
  /\ s2c = <<>>
  /\ sent = 0
  /\ cclosed = FALSE
  /\ answers = <<>>
  /\ shutdown = FALSE
  /\ spc = "loop"
  /\ inrecv = FALSE
  /\ got = <<>>
  /\ ctype = 0
  /\ slen = 0
  /\ cmd = <<>>
  /\ code = 0
  /\ res = NoString
  /\ reads = <<>>
  /\ written = 0

Server ==
  \/ LoopCheck \/ RecvAbort \/ RecvCheck \/ RecvTimeout \/ RecvEOF \/ RecvInto
  \/ Dispatch \/ WriteAbort \/ WriteFail \/ WriteField

Next == Server \/ ClientSend \/ ClientRecv \/ ClientClose \/ StopRcli

\* The server thread never blocks longer than its one-second socket
\* timeout, so its steps are weakly fair. The client and the console are
\* not: a client may stay connected and silent for ever.
Spec == Init /\ [][Next]_vars /\ WF_vars(Server)

-----------------------------------------------------------------------------
(* Properties                                                              *)

\* The bytes the client has written.
SentBytes == FlattenSeq(SubSeq(script, 1, sent))

\* Commands read whose type is dispatched (0 or 1).
Answerable == Len(SelectSeq(reads, LAMBDA r : r[1] \in {0, 1}))

TypeOK ==
  /\ sent \in 0 .. Len(script)
  /\ cclosed \in BOOLEAN /\ shutdown \in BOOLEAN
  /\ spc \in {"loop", "dispatch", "closed"} \cup RecvPCs \cup WritePCs
  /\ ctype \in Byte /\ code \in 0 .. 2
  /\ inrecv \in BOOLEAN /\ got \in Seq(Byte)
  /\ spc \in RecvPCs => Len(got) < Need[spc]
  /\ spc \notin RecvPCs => got = <<>> /\ ~inrecv
  /\ written \in 0 .. Len(reads)

\* Section 4.6 and 5: commands are processed strictly in arrival order.
\* Whatever the shutdown flag and the client do, the commands the serve
\* loop has read are, in order, the leading frames of the bytes the client
\* wrote: no frame is skipped, merged or read from the middle of another.
ServerReadsClientFrames ==
  IsPrefix(reads, ReadCmds(SentBytes).frames)

\* Section 7: a peer that closes the connection ends the serve loop
\* (recv_bytes raises on EOF and _run ends).
ClientCloseEndsServer == cclosed ~> spc = "closed"

\* Section 4.6: shutdown stops the loop from issuing further reads after
\* the current one completes. A command already applied is answered by a
\* whole result frame before the server closes a connection the client
\* still holds.
AnsweredBeforeClose ==
  (spc = "closed" /\ ~cclosed) => written = Answerable
=============================================================================
