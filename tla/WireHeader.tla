----------------------------- MODULE WireHeader -----------------------------
(***************************************************************************)
(* The 16 bytes pc-sender writes first on every connection and pi-receiver *)
(* reads before anything else (src/proto/src/lib.rs): magic, version,      *)
(* format code, channels and sample rate in little-endian order, reserved. *)
(***************************************************************************)
EXTENDS Integers, Sequences

Format == {"S16LE", "S32LE", "F32LE"}
Code   == [S16LE |-> 0, S32LE |-> 1, F32LE |-> 2]

BytesPerSample == [S16LE |-> 2, S32LE |-> 4, F32LE |-> 4]
FrameBytes(h)  == BytesPerSample[h.format] * h.channels

Magic     == <<67, 68, 83, 80>>     \* "CDSP"
Version   == 1
HeaderLen == 16

Encode(h) ==
    <<Magic[1], Magic[2], Magic[3], Magic[4], Version, Code[h.format],
      h.channels % 256, h.channels \div 256,
      h.rate % 256, (h.rate \div 256) % 256, (h.rate \div 65536) % 256, h.rate \div 16777216,
      0, 0, 0, 0>>

Channels(b) == b[7] + 256 * b[8]
Rate(b)     == b[9] + 256 * b[10] + 65536 * b[11] + 16777216 * b[12]

\* What read_from accepts, and what it then returns.
Valid(b) ==
    /\ \A k \in 1..4 : b[k] = Magic[k]
    /\ b[5] = Version
    /\ \E f \in Format : Code[f] = b[6]
    /\ Channels(b) # 0 /\ Rate(b) # 0

Decode(b) ==
    [format |-> CHOOSE f \in Format : Code[f] = b[6], channels |-> Channels(b), rate |-> Rate(b)]
=============================================================================
