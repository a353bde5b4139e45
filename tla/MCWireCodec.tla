---------------------------- MODULE MCWireCodec ----------------------------
(***************************************************************************)
(* Checks the wire codec against reference definitions over bounded        *)
(* inputs: every 4-byte word over bytes at the sign and carry boundaries,  *)
(* and every sequence of up to two command frames with payloads of length  *)
(* 0 to 2 and a valid or invalid type byte. The state is the input under   *)
(* test; the properties are checked for each.                              *)
(***************************************************************************)
EXTENDS WireCodec, SequencesExt

Samples == {0, 1, 127, 128, 255}
Words == [1 .. 4 -> Samples]
Payloads == {<<>>, <<65>>, <<65, 66>>}
Cmds == {<<t, p>> : t \in {0, 1, 7}, p \in Payloads}
CmdSeqs == {<<>>} \cup {<<c>> : c \in Cmds} \cup {<<c, d>> : c, d \in Cmds}
TestInts ==
  {IntMin, IntMin + 1, -65536, -257, -256, -255, -129, -128, -1, 0, 1,
   127, 128, 255, 256, 65535, 65536, IntMax - 1, IntMax}

VARIABLES word, cmds

Init == word \in Words /\ cmds \in CmdSeqs

Next ==
  \/ \E w \in Words : word' = w /\ UNCHANGED cmds
  \/ \E c \in CmdSeqs : cmds' = c /\ UNCHANGED word

Spec == Init /\ [][Next]_<<word, cmds>>

\* Two's complement by its definition: the top byte weighs -2^31 when its
\* high bit is set.
SignedRef(b) ==
  (b[1] - (IF b[1] >= 128 THEN 256 ELSE 0)) * 16777216
    + b[2] * 65536 + b[3] * 256 + b[4]

\* The bytes a client sends for a sequence of command frames.
Stream(cs) == FlattenSeq([i \in DOMAIN cs |-> EncodeCmd(cs[i][1], cs[i][2])])

-----------------------------------------------------------------------------

\* unpack_int reads every word as the signed big-endian integer it encodes.
UnpackMatchesReference == unpack_int(word) = SignedRef(word)

\* pack_int and unpack_int are inverse: on every word, and on the integers
\* at the sign, byte and range boundaries that struct.pack('>i') accepts.
IntRoundTrip ==
  /\ pack_int(unpack_int(word)) = word
  /\ \A n \in TestInts : unpack_int(pack_int(n)) = n

\* Section 4.1: a command frame whose length has the sign bit set fails
\* with an IOError, and no other complete length word does.
NegativeLengthRejected ==
  (do_read_cmd(<<1>> \o word).st = "error") <=> (word[1] >= 128)

\* Section 8, round trip: _do_read_cmd, called repeatedly on the bytes of
\* any command frames, returns exactly those frames; on any prefix of the
\* bytes it returns a prefix of them and then waits for more.
CmdFramesRoundTrip ==
  \A k \in 0 .. Len(Stream(cmds)) :
    LET r == ReadCmds(SubSeq(Stream(cmds), 1, k)) IN
    /\ r.last = "short"
    /\ IsPrefix(r.frames, cmds)
    /\ k = Len(Stream(cmds)) => r.frames = cmds

=============================================================================
