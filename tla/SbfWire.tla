------------------------------ MODULE SbfWire ------------------------------
(***************************************************************************)
(* The layout of an SBF block on the wire, as SbfFrameSync::feed reads it: *)
(*                                                                         *)
(*   offset 0 '$'  1 '@'  2..3 CRC  4..5 ID  6..7 Length  8.. body         *)
(*                                                                         *)
(* 16-bit fields are little endian, Length counts the whole block and the  *)
(* CRC covers the bytes from the ID field to the end.  Offsets are 0-based *)
(* as in the code; byte number `off' of s is s[off + 1].                   *)
(*                                                                         *)
(* Crc stands for crc_ccitt_xmodem.  Nothing here depends on which         *)
(* function it is; module Crc16 is about the function itself.              *)
(***************************************************************************)
EXTENDS Integers, Sequences

CONSTANTS kMaxSbfLength,   \* longest block accepted (8188 in the code)
          Crc(_),          \* checksum of a sequence of bytes
          Streams          \* the byte streams a receiver may send

Byte == 0..255

ASSUME MaxLengthAssumption == kMaxSbfLength \in Nat /\ kMaxSbfLength >= 8

ASSUME StreamsAssumption == Streams \subseteq Seq(Byte)

Dollar == 36    \* 0x24, '$'
At     == 64    \* 0x40, '@'
HeaderSize == 8

\* buf_u16le: the little-endian 16-bit value at offset off.
U16(s, off) == s[off + 1] + 256 * s[off + 2]

\* The acceptance test on the Length field.
LengthOk(len) == len % 4 = 0 /\ len >= HeaderSize /\ len <= kMaxSbfLength

\* The Length field and the CRC verdict of the candidate block at offset p.
LengthAt(s, p) == U16(s, p + 6)
CrcOk(s, p) == Crc(SubSeq(s, p + 5, p + LengthAt(s, p))) = U16(s, p + 2)

\* The Frame object built from the bytes at offset p.
FrameFields(s, p) ==
  [crc    |-> U16(s, p + 2),
   raw_id |-> U16(s, p + 4),
   length |-> LengthAt(s, p),
   body   |-> SubSeq(s, p + HeaderSize + 1, p + LengthAt(s, p))]

\* A whole valid block lies at offset p of the first n bytes.
BlockAt(s, p, n) ==
  /\ p + HeaderSize <= n
  /\ s[p + 1] = Dollar /\ s[p + 2] = At
  /\ LengthOk(LengthAt(s, p))
  /\ p + LengthAt(s, p) <= n
  /\ CrcOk(s, p)

\* The first n bytes already show that no valid block starts at offset p,
\* whatever arrives later.
RuledOut(s, p, n) ==
  \/ p < n /\ s[p + 1] # Dollar
  \/ p + 1 < n /\ s[p + 2] # At
  \/ p + HeaderSize <= n /\ ~LengthOk(LengthAt(s, p))
  \/ /\ p + HeaderSize <= n
     /\ LengthOk(LengthAt(s, p))
     /\ p + LengthAt(s, p) <= n
     /\ ~CrcOk(s, p)
=============================================================================
