----------------------------- MODULE SocketIO -----------------------------
(***************************************************************************)
(* The socket primitives of varanuspy/utils.py over one TCP connection:    *)
(* a sender that calls send_bytes for each buffer of a message (as         *)
(* _do_write_cmd_result and send_string do) and a receiver that calls      *)
(* recv_bytes for each field it expects (as _do_read_cmd and recv_string   *)
(* do). Both sockets have a timeout (settimeout(1)); a timeout is retried  *)
(* until exit_check() holds.                                               *)
(*                                                                         *)
(* The kernel send buffer holds at most Cap bytes. sock.sendall writes     *)
(* what fits and blocks; when it times out it raises socket.timeout after  *)
(* having written part of the buffer. recv_into returns between one byte   *)
(* and what was asked. Bytes are tagged 10*i + j (byte j of buffer i), so  *)
(* a byte written twice is visible to the receiver.                        *)
(***************************************************************************)
EXTENDS Naturals, Sequences, SequencesExt

CONSTANTS
  BufLens,   \* lengths of the buffers passed to successive send_bytes calls
  ReadLens,  \* nbytes of successive recv_bytes calls
  Cap        \* bytes the connection holds before sendall blocks

ASSUME /\ BufLens \in Seq(1 .. 9) /\ ReadLens \in Seq(1 .. 9)
       /\ Cap \in Nat \ {0}

\* The bytes of buffer i.
Buf(i) == [j \in 1 .. BufLens[i] |-> 10 * i + j]

\* The byte stream the sender means to transmit.
Expected == FlattenSeq([i \in 1 .. Len(BufLens) |-> Buf(i)])

VARIABLES
  spc,      \* sender: "check" (exit_check), "sendall", "done", "aborted"
  si,       \* index of the buffer being sent
  soff,     \* bytes of it written by the current sock.sendall attempt
  exiting,  \* exit_check() (the shutdown flag or is_finished)
  chan,     \* bytes in flight
  ri,       \* index of the recv_bytes call in progress
  rbuf,     \* its bytearray(nbytes)
  roff,     \* bytes of it already filled (len(buf) - len(bufview))
  got,      \* buffers returned by completed recv_bytes calls
  consumed  \* every byte taken off the connection, in order

senderVars == <<spc, si, soff>>
receiverVars == <<ri, rbuf, roff, got, consumed>>
vars == <<senderVars, exiting, chan, receiverVars>>

-----------------------------------------------------------------------------
(* send_bytes(sock, buf, exit_check)                                       *)

\* while not exit_check(): try sock.sendall(buf) ... else: return False
SendCheck ==
  /\ spc = "check"
  /\ spc' = IF exiting THEN "aborted" ELSE "sendall"
  /\ soff' = 0
  /\ UNCHANGED <<si, exiting, chan, receiverVars>>

\* sendall writes the next byte of the buffer; after the last one
\* send_bytes returns True and the caller goes on with the next buffer.
SendByte ==
  /\ spc = "sendall"
  /\ Len(chan) < Cap
  /\ chan' = Append(chan, Buf(si)[soff + 1])
  /\ IF soff + 1 = BufLens[si]
       THEN /\ si' = si + 1
            /\ soff' = 0
            /\ spc' = IF si = Len(BufLens) THEN "done" ELSE "check"
       ELSE /\ soff' = soff + 1
            /\ UNCHANGED <<si, spc>>
  /\ UNCHANGED <<exiting, receiverVars>>

\* sendall blocked on a full connection for the whole timeout: socket.timeout
\* is caught ("no bytes were sent") and the whole buffer is sent again.
SendTimeout ==
  /\ spc = "sendall"
  /\ Len(chan) = Cap
  /\ spc' = "check"
  /\ UNCHANGED <<si, soff, exiting, chan, receiverVars>>

\* Another thread sets the shutdown flag, or the child process exits.
SetExit ==
  /\ ~exiting
  /\ exiting' = TRUE
  /\ UNCHANGED <<senderVars, chan, receiverVars>>

-----------------------------------------------------------------------------
(* recv_bytes(sock, nbytes, exit_check)                                    *)

\* nread = sock.recv_into(bufview): k bytes land at the start of the view,
\* then bufview = bufview[nread:]; a full buffer is returned.
RecvInto ==
  /\ ri <= Len(ReadLens)
  /\ chan # <<>>
  /\ \E k \in 1 .. ReadLens[ri] - roff :
       /\ k <= Len(chan)
       /\ LET filled == [p \in 1 .. ReadLens[ri] |->
                           IF p > roff /\ p <= roff + k THEN chan[p - roff] ELSE rbuf[p]]
          IN IF roff + k = ReadLens[ri]
               THEN /\ got' = Append(got, filled)
                    /\ ri' = ri + 1
                    /\ rbuf' = IF ri < Len(ReadLens)
                                 THEN [p \in 1 .. ReadLens[ri + 1] |-> 0] ELSE <<>>
                    /\ roff' = 0
               ELSE /\ rbuf' = filled
                    /\ roff' = roff + k
                    /\ UNCHANGED <<got, ri>>
       /\ consumed' = consumed \o SubSeq(chan, 1, k)
       /\ chan' = SubSeq(chan, k + 1, Len(chan))
  /\ UNCHANGED <<senderVars, exiting>>

-----------------------------------------------------------------------------

Init ==
  /\ spc = "check"
  /\ si = 1
  /\ soff = 0
  /\ exiting = FALSE
  /\ chan = <<>>
  /\ ri = 1
  /\ rbuf = [p \in 1 .. ReadLens[1] |-> 0]
  /\ roff = 0
  /\ got = <<>>
  /\ consumed = <<>>

Next == SendCheck \/ SendByte \/ SendTimeout \/ SetExit \/ RecvInto

Spec == Init /\ [][Next]_vars

-----------------------------------------------------------------------------
(* Properties                                                              *)

\* Spec (4.2): send_bytes retries a timed-out send without corrupting the
\* stream. Everything the receiver took, followed by what is in flight, is
\* a prefix of the bytes the sender meant to send.
StreamIntact ==
  IsPrefix(consumed \o chan, Expected)

=============================================================================
