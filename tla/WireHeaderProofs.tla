-------------------------- MODULE WireHeaderProofs --------------------------
(***************************************************************************)
(* The wire header for every format, every u16 channel count and every u32 *)
(* sample rate; TLC's integers are too narrow for the last.                *)
(***************************************************************************)
EXTENDS WireHeader, TLAPS

\* No two formats share a code.
LEMMA CodesDiffer == \A f, g \in Format : Code[f] = Code[g] => f = g
  BY DEF Format, Code

\* The little-endian bytes of a number give the number back.
LEMMA TwoBytes ==
  ASSUME NEW n \in Nat
  PROVE  (n % 256) + 256 * (n \div 256) = n
  BY SMT

LEMMA FourBytes ==
  ASSUME NEW n \in Nat
  PROVE  (n % 256) + 256 * ((n \div 256) % 256) + 65536 * ((n \div 65536) % 256)
           + 16777216 * (n \div 16777216) = n
  BY SMT

\* The numbers are read back as they were written, zero included.
LEMMA NumbersArrive ==
  ASSUME NEW f \in Format, NEW c \in Nat, NEW r \in Nat
  PROVE  LET b == Encode([format |-> f, channels |-> c, rate |-> r])
         IN  Channels(b) = c /\ Rate(b) = r
<1>. DEFINE b == Encode([format |-> f, channels |-> c, rate |-> r])
<1>1. /\ b[7] = c % 256 /\ b[8] = c \div 256
      /\ b[9] = r % 256 /\ b[10] = (r \div 256) % 256
      /\ b[11] = (r \div 65536) % 256 /\ b[12] = r \div 16777216
  BY DEF Encode
<1>. HIDE DEF b
<1>2. Channels(b) = c
  BY <1>1, TwoBytes DEF Channels
<1>3. Rate(b) = r
  BY <1>1, FourBytes DEF Rate
<1>. QED BY <1>2, <1>3 DEF b

\* A header that can be played arrives as it was written: write_to and
\* read_from are inverse to each other.
THEOREM RoundTrip ==
  ASSUME NEW f \in Format, NEW c \in Nat \ {0}, NEW r \in Nat \ {0}
  PROVE  LET h == [format |-> f, channels |-> c, rate |-> r]
         IN  Valid(Encode(h)) /\ Decode(Encode(h)) = h
<1>. DEFINE h == [format |-> f, channels |-> c, rate |-> r]
            b == Encode(h)
<1>1. /\ b[1] = Magic[1] /\ b[2] = Magic[2] /\ b[3] = Magic[3] /\ b[4] = Magic[4]
      /\ b[5] = Version /\ b[6] = Code[f]
  BY DEF Encode
<1>2. Channels(b) = c /\ Rate(b) = r
  BY NumbersArrive
<1>. HIDE DEF b
<1>3. Valid(b)
  <2>1. \A k \in 1..4 : b[k] = Magic[k]
    BY <1>1
  <2>2. \E g \in Format : Code[g] = b[6]
    BY <1>1
  <2>. QED BY <1>1, <1>2, <2>1, <2>2 DEF Valid
<1>4. (CHOOSE g \in Format : Code[g] = b[6]) = f
  BY <1>1, CodesDiffer
<1>5. Decode(b) = h
  BY <1>2, <1>4 DEF Decode
<1>. QED BY <1>3, <1>5 DEF b

\* The receiver accepts nothing but what the sender meant: a header that is
\* valid when it arrives is decoded to the one that was encoded.
THEOREM AcceptsAsMeant ==
  ASSUME NEW h \in [format : Format, channels : Nat, rate : Nat], Valid(Encode(h))
  PROVE  Decode(Encode(h)) = h /\ h.channels # 0 /\ h.rate # 0
<1>1. h = [format |-> h.format, channels |-> h.channels, rate |-> h.rate]
  OBVIOUS
<1>2. Channels(Encode(h)) = h.channels /\ Rate(Encode(h)) = h.rate
  BY <1>1, NumbersArrive
<1>3. h.channels # 0 /\ h.rate # 0
  BY <1>2 DEF Valid
<1>. QED BY <1>1, <1>3, RoundTrip

\* The receiver accepts nothing but encodings: whatever 16 bytes arrive, a
\* header that is accepted is the one whose encoding they are, up to the four
\* reserved bytes, which read_from does not look at.
THEOREM AcceptsEncodings ==
  ASSUME NEW b \in [1..HeaderLen -> 0..255], Valid(b)
  PROVE  \A k \in 1..12 : Encode(Decode(b))[k] = b[k]
<1>. DEFINE f == CHOOSE f \in Format : Code[f] = b[6]
            h == Decode(b)
<1>1. /\ b[7] \in 0..255 /\ b[8] \in 0..255 /\ b[9] \in 0..255
      /\ b[10] \in 0..255 /\ b[11] \in 0..255 /\ b[12] \in 0..255
  BY DEF HeaderLen
<1>2. Code[f] = b[6]
  BY DEF Valid
<1>3. h.format = f /\ h.channels = Channels(b) /\ h.rate = Rate(b)
  BY DEF Decode
<1>. HIDE DEF f, h
<1>4. h.channels % 256 = b[7] /\ h.channels \div 256 = b[8]
  <2>. DEFINE n == h.channels
              x == b[7]
              y == b[8]
  <2>1. n = x + 256 * y /\ x \in 0..255 /\ y \in 0..255
    BY <1>1, <1>3 DEF Channels
  <2>. HIDE DEF n, x, y
  <2>2. n % 256 = x /\ n \div 256 = y
    BY <2>1, SMT
  <2>. QED BY <2>2 DEF n, x, y
<1>5. /\ h.rate % 256 = b[9] /\ (h.rate \div 256) % 256 = b[10]
      /\ (h.rate \div 65536) % 256 = b[11] /\ h.rate \div 16777216 = b[12]
  <2>. DEFINE n == h.rate
              x == b[9]
              y == b[10]
              z == b[11]
              u == b[12]
  <2>1. /\ n = x + 256 * y + 65536 * z + 16777216 * u
        /\ x \in 0..255 /\ y \in 0..255 /\ z \in 0..255 /\ u \in 0..255
    BY <1>1, <1>3 DEF Rate
  <2>. HIDE DEF n, x, y, z, u
  <2>2. n % 256 = x /\ n \div 256 = y + 256 * (z + 256 * u)
    BY <2>1, SMT
  <2>3. n \div 65536 = z + 256 * u
    BY <2>1, SMT
  <2>4. n \div 16777216 = u
    BY <2>1, SMT
  <2>5. (n \div 256) % 256 = y /\ (n \div 65536) % 256 = z
    BY <2>1, <2>2, <2>3, SMT
  <2>. QED BY <2>2, <2>4, <2>5 DEF n, x, y, z, u
<1>6. \A k \in 1..12 : Encode(h)[k] = b[k]
  BY <1>2, <1>3, <1>4, <1>5 DEF Encode, Valid
<1>. QED BY <1>6 DEF h

\* For a u16 channel count and a u32 rate what is written are 16 bytes.
THEOREM WritesBytes ==
  ASSUME NEW f \in Format, NEW c \in Nat, NEW r \in Nat, c < 65536, r < 65536 * 65536
  PROVE  \A k \in 1..HeaderLen :
            LET v == Encode([format |-> f, channels |-> c, rate |-> r])[k]
            IN  v \in Nat /\ v < 256
<1>1. c \div 256 \in Nat /\ c \div 256 < 256 /\ r \div 16777216 \in Nat /\ r \div 16777216 < 256
  BY SMT
<1>2. \A n \in Nat : n % 256 \in Nat /\ n % 256 < 256
  BY SMT
<1>3. r \div 256 \in Nat /\ r \div 65536 \in Nat
  BY SMT
<1>4. Code[f] \in {0, 1, 2}
  BY DEF Format, Code
<1>. QED BY <1>1, <1>2, <1>3, <1>4 DEF Encode, Magic, Version, HeaderLen

\* Whatever bytes arrive, a header that is accepted has frames of at least one
\* byte: the writer divides by their size.
THEOREM FramesNotEmpty ==
  ASSUME NEW b \in [1..16 -> Nat], Valid(b)
  PROVE  FrameBytes(Decode(b)) \in Nat \ {0}
<1>1. b[7] \in Nat /\ b[8] \in Nat
  OBVIOUS
<1>2. Channels(b) \in Nat \ {0}
  BY <1>1 DEF Channels, Valid
<1>. DEFINE f == CHOOSE f \in Format : Code[f] = b[6]
<1>3. f \in Format
  BY DEF Valid
<1>. HIDE DEF f
<1>4. BytesPerSample[f] \in {2, 4}
  BY <1>3 DEF Format, BytesPerSample
<1>5. Decode(b).format = f /\ Decode(b).channels = Channels(b)
  BY DEF Decode, f
<1>. QED BY <1>2, <1>4, <1>5 DEF FrameBytes
=============================================================================
