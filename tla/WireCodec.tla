----------------------------- MODULE WireCodec -----------------------------
(***************************************************************************)
(* The framing primitives of the RCLI wire protocol (varanuspy/rcli.py,    *)
(* class _IOUtils, and the frame readers and writers of _RCLIServer) as    *)
(* pure operators on byte sequences. A byte is a number in 0..255 and a    *)
(* string is the sequence of its UTF-8 bytes (encode_str).                 *)
(*                                                                         *)
(* struct.pack('>i') is big-endian two's complement. TLC's integers are    *)
(* themselves 32-bit, so a negative number is encoded through the          *)
(* complement of -(num + 1) rather than through num + 2^32.                *)
(***************************************************************************)
EXTENDS Integers, Sequences

Byte == 0 .. 255

\* The range struct.pack('>i') accepts; anything else raises struct.error.
IntMin == -2147483647 - 1
IntMax == 2147483647

\* Byte i (1 = most significant) of a non-negative number below 2^31.
ByteOf(n, i) == (n \div (256 ^ (4 - i))) % 256

\* The unsigned value of a big-endian byte sequence (short enough to fit).
RECURSIVE BigEndian(_)
BigEndian(bytes) ==
  IF bytes = <<>> THEN 0
  ELSE BigEndian(SubSeq(bytes, 1, Len(bytes) - 1)) * 256 + bytes[Len(bytes)]

Complement(bytes) == [i \in DOMAIN bytes |-> 255 - bytes[i]]

\* Mutant of pack_int: the bytes are written little-endian ('<i').
pack_int_le(num) ==
  LET b == IF num >= 0 THEN [i \in 1 .. 4 |-> ByteOf(num, i)]
           ELSE Complement([i \in 1 .. 4 |-> ByteOf(-(num + 1), i)])
  IN [i \in 1 .. 4 |-> b[5 - i]]

\* _IOUtils.pack_int: struct.pack('>i', num).
pack_int(num) ==
  IF num >= 0 THEN [i \in 1 .. 4 |-> ByteOf(num, i)]
  ELSE Complement([i \in 1 .. 4 |-> ByteOf(-(num + 1), i)])

\* Mutant of unpack_int: the bytes are read little-endian ('<i').
unpack_int_le(raw) ==
  LET r == [i \in 1 .. 4 |-> raw[5 - i]] IN
  IF r[1] < 128 THEN BigEndian(r) ELSE -BigEndian(Complement(r)) - 1

\* _IOUtils.unpack_int: struct.unpack('>i', raw_bytes)[0].
unpack_int(raw) ==
  IF raw[1] < 128 THEN BigEndian(raw)
  ELSE -BigEndian(Complement(raw)) - 1

\* _IOUtils.pack_byte / unpack_byte: struct '=B'.
pack_byte(num) == <<num>>
unpack_byte(raw) == raw[1]

-----------------------------------------------------------------------------
(* Writers: the bytes a sequence of successful send_bytes calls puts on   *)
(* the connection.                                                         *)

\* _IOUtils.send_string: the 4-byte length, then the bytes.
send_string(s) == pack_int(Len(s)) \o s

\* The result-string argument of _do_write_cmd_result: a string, or None.
NoString == <<-1>>

\* _RCLIServer._do_write_cmd_result(sock, ctype, code, res).
do_write_cmd_result(ctype, code, res) ==
  pack_byte(ctype) \o pack_byte(code)
    \o (IF res = NoString THEN <<>> ELSE send_string(res))

\* The client's command frame (section 6): type byte, then a string.
EncodeCmd(ctype, cmd) == pack_byte(ctype) \o send_string(cmd)

-----------------------------------------------------------------------------
(* Readers over the bytes received so far. "short": recv_bytes is still  *)
(* waiting for bytes; "error": an IOError; "ok": the value and the bytes  *)
(* left after it.                                                          *)

Short == [st |-> "short"]
Failed == [st |-> "error"]
Ok(v, rest) == [st |-> "ok", val |-> v, rest |-> rest]

\* recv_bytes(sock, n): the first n bytes, once they have arrived.
RecvN(stream, n) ==
  IF Len(stream) < n THEN Short
  ELSE Ok(SubSeq(stream, 1, n), SubSeq(stream, n + 1, Len(stream)))

\* Mutant of recv_string: the length check also rejects the empty string.
recv_string_nonpositive(stream) ==
  LET lenr == RecvN(stream, 4) IN
  IF lenr.st # "ok" THEN lenr
  ELSE LET slen == unpack_int(lenr.val) IN
       IF slen <= 0 THEN Failed
       ELSE RecvN(lenr.rest, slen)

\* _IOUtils.recv_string: a negative length is an IOError.
recv_string(stream) ==
  LET lenr == RecvN(stream, 4) IN
  IF lenr.st # "ok" THEN lenr
  ELSE LET slen == unpack_int(lenr.val) IN
       IF slen < 0 THEN Failed
       ELSE RecvN(lenr.rest, slen)

\* Mutant of do_read_cmd: the string is read before the type byte.
do_read_cmd_swapped(stream) ==
  LET sr == recv_string(stream) IN
  IF sr.st # "ok" THEN sr
  ELSE LET tr == RecvN(sr.rest, 1) IN
       IF tr.st # "ok" THEN tr
       ELSE Ok(<<unpack_byte(tr.val), sr.val>>, tr.rest)

\* _RCLIServer._do_read_cmd: the type byte, then the command string.
do_read_cmd(stream) ==
  LET tr == RecvN(stream, 1) IN
  IF tr.st # "ok" THEN tr
  ELSE LET sr == recv_string(tr.rest) IN
       IF sr.st # "ok" THEN sr
       ELSE Ok(<<unpack_byte(tr.val), sr.val>>, sr.rest)

\* Successive _do_read_cmd calls over a stream: the frames read, and how
\* the next read ends ("short" when the stream is used up).
RECURSIVE ReadCmds(_)
ReadCmds(stream) ==
  LET r == do_read_cmd(stream) IN
  IF r.st # "ok" THEN [frames |-> <<>>, last |-> r.st]
  ELSE LET more == ReadCmds(r.rest) IN
       [frames |-> <<r.val>> \o more.frames, last |-> more.last]

\* The result codes that carry a string (section 6).
HasString(ctype, code) == (ctype = 0 /\ code \in {1, 2}) \/ (ctype = 1 /\ code = 2)

\* The client's reader of one result frame (section 6).
DecodeResult(stream) ==
  LET hr == RecvN(stream, 2) IN
  IF hr.st # "ok" THEN hr
  ELSE IF ~HasString(hr.val[1], hr.val[2])
       THEN Ok(<<hr.val[1], hr.val[2], NoString>>, hr.rest)
       ELSE LET sr == recv_string(hr.rest) IN
            IF sr.st # "ok" THEN sr
            ELSE Ok(<<hr.val[1], hr.val[2], sr.val>>, sr.rest)
=============================================================================
