\* Codec round trips and the negative-length check over bounded inputs.
SPECIFICATION Spec
INVARIANT UnpackMatchesReference
INVARIANT IntRoundTrip
INVARIANT NegativeLengthRejected
INVARIANT CmdFramesRoundTrip
