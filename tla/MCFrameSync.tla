---------------------------- MODULE MCFrameSync ----------------------------
(***************************************************************************)
(* FrameSync on small streams.  The streams are built from the pieces the  *)
(* resync rule has to tell apart, in several orders; the caller cuts each  *)
(* stream into chunks of every size up to MaxChunk.                        *)
(***************************************************************************)
EXTENDS FrameSync, SequencesExt

\* A 16-bit checksum that depends on every byte and on their order.  The
\* model never looks inside Crc: module Crc16 treats the real one.
MCCrc(s) == FoldLeft(LAMBDA acc, b : (acc * 31 + b + 7) % 65536, 0, s)

Block(id, body) ==
  LET len == 8 + Len(body)
      tail == <<id, 0, len, 0>> \o body
      c == MCCrc(tail)
  IN <<Dollar, At, c % 256, c \div 256>> \o tail

\* The same block with its CRC field damaged.
BadCrc(b) == [b EXCEPT ![3] = (@ + 1) % 256]

\* A sync pattern with length field len and no body.
Header(len) == <<Dollar, At, 1, 2, 3, 0, len, 0>>

B8   == Block(5, <<>>)
B12  == Block(6, <<9, Dollar, At, 7>>)    \* a sync pattern inside a body
Nest == BadCrc(Block(7, B8))              \* damaged block around a good one

\* Lengths 4 (too short), 10 (not a multiple of 4), 20 (too long for
\* kMaxSbfLength = 16), 16 (accepted, so the scan waits for the body).
Pieces == {B8, B12, Nest, BadCrc(B8), Header(4), Header(10), Header(20),
           Header(16), <<Dollar>>, <<Dollar, Dollar>>, <<Dollar, 1>>, <<1, 2>>}

\* The pieces that make junk linger behind a block.
MCFewStreams == {a \o b \o c : a \in {B8, Nest}, b, c \in {BadCrc(B8), <<Dollar>>, B8}}

\* Noise longer than any block, with a false '$'.
Noise == [i \in 1..17 |-> IF i = 1 THEN Dollar ELSE 1]

\* Streams long enough to fill buf_ beyond a block and two chunks.
MCLongStreams == {Noise \o Noise \o Noise}

MCStreams == {a \o b : a, b \in Pieces} \cup MCFewStreams \cup MCLongStreams
=============================================================================
