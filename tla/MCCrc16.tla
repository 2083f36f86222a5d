------------------------------ MODULE MCCrc16 ------------------------------
(***************************************************************************)
(* Messages for Crc16, and the check value of the repository's CRC test.   *)
(***************************************************************************)
EXTENDS Crc16

\* The number n in w bits.
Bits(n, w) == [i \in 0..(w - 1) |-> (n \div 2^i) % 2]

\* Nothing, single bits at both ends, the polynomial's bytes, the first sync
\* byte, all ones.
MCAlphabet == {Bits(n, 8) : n \in {0, 16, 33, 36, 129, 255}}

\* "123456789" gives 0x31C3.
ASSUME CheckValue == BitSerial([i \in 1..9 |-> Bits(48 + i, 8)]) = Bits(12739, 16)
=============================================================================
