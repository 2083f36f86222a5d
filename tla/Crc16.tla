------------------------------- MODULE Crc16 -------------------------------
(***************************************************************************)
(* crc_ccitt_xmodem: the driver's table-driven form                        *)
(* (src/sbf/crc16_xmodem.hpp) and the bit-serial one with which            *)
(* scripts/parser.py reads the recordings back.  A message and a damaged   *)
(* twin of it are summed byte by byte.  Integers of a given width are      *)
(* functions from bit positions, 0 being the lowest, to bits: what a shift *)
(* moves beyond the width is gone.  The other modules leave the checksum   *)
(* open (constant Crc of SbfWire).                                         *)
(***************************************************************************)
EXTENDS Integers, Sequences

Bit == {0, 1}
Byte == [0..7 -> Bit]     \* std::uint8_t
Word == [0..15 -> Bit]    \* std::uint16_t

CONSTANTS Alphabet,   \* byte values that messages are made of
          MaxLen      \* bound: length of a message

ASSUME CrcAssumption == Alphabet \subseteq Byte /\ MaxLen \in Nat

VARIABLES data, crc,    \* the message and the driver's register
          twin, twin_crc \* the same for the twin

vars == <<data, crc, twin, twin_crc>>

\* a ^ b, c << n, c >> 8, and byte << 8.
Xor(a, b) == [i \in DOMAIN a |-> IF a[i] = b[i] THEN 0 ELSE 1]

Left(c, n) == [i \in 0..15 |-> IF i < n THEN 0 ELSE c[i - n]]

High(c) == [i \in 0..7 |-> c[i + 8]]

Widen(b) == [i \in 0..15 |-> IF i < 8 THEN 0 ELSE b[i - 8]]

Zero == [i \in 0..15 |-> 0]

\* 0x1021
Polynomial == [i \in 0..15 |-> IF i \in {0, 5, 12} THEN 1 ELSE 0]

\* One shift of the 16-bit register.
Shift(c) == IF c[15] = 1 THEN Xor(Left(c, 1), Polynomial) ELSE Left(c, 1)

Shift8(c) == Shift(Shift(Shift(Shift(Shift(Shift(Shift(Shift(c))))))))

kCrcTable == [i \in Byte |-> Shift8(Widen(i))]

MutLowByteLost(c, b) == kCrcTable[Xor(High(c), b)]

\* One step of crc_ccitt_xmodem's loop.
Update(c, b) == Xor(Left(c, 8), kCrcTable[Xor(High(c), b)])

\* parser.py's loop: no table.
BitSerial(bytes) ==
  LET r[i \in 0..Len(bytes)] ==
        IF i = 0 THEN Zero ELSE Shift8(Xor(r[i - 1], Widen(bytes[i])))
  IN  r[Len(bytes)]

Init == data = <<>> /\ crc = Zero /\ twin = <<>> /\ twin_crc = Zero

\* The next byte; damage is confined to two neighbouring bytes.
Consume(b, t) ==
  /\ Len(data) < MaxLen
  /\ b # t => \A i \in 1..(Len(data) - 1) : data[i] = twin[i]
  /\ data' = Append(data, b) /\ crc' = Update(crc, b)
  /\ twin' = Append(twin, t) /\ twin_crc' = Update(twin_crc, t)

Next == \E b, t \in Alphabet : Consume(b, t)

Spec == Init /\ [][Next]_vars

\* Driver and parser compute the same 16-bit checksum, so that the parser
\* accepts every block the driver recorded.
ImplementationsAgree == crc = BitSerial(data) /\ crc \in Word

\* A block damaged within two neighbouring bytes has another checksum, however
\* much follows: SbfFrameSync cannot take it for the block that was sent.
DamageDetected == data # twin => crc # twin_crc
=============================================================================
