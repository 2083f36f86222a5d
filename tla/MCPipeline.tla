----------------------------- MODULE MCPipeline -----------------------------
(***************************************************************************)
(* Pipeline on small streams: blocks of three sizes, one of them around    *)
(* another, damaged blocks, false headers and junk, in several orders.     *)
(***************************************************************************)
EXTENDS Pipeline

\* A 16-bit checksum that depends on every byte and on their order.
MCCrc(s) == FoldLeft(LAMBDA acc, b : (acc * 31 + b + 7) % 65536, 0, s)

Block(id, body) ==
  LET tail == <<id % 256, id \div 256, 8 + Len(body), 0>> \o body
      c == MCCrc(tail)
  IN <<Dollar, At, c % 256, c \div 256>> \o tail

BadCrc(b) == [b EXCEPT ![3] = (@ + 1) % 256]

B8    == Block(8197, <<>>)                   \* revision 1 of block 5
B12   == Block(6, <<9, Dollar, At, 7>>)      \* a sync pattern inside a body
Outer == Block(7, Block(5, <<>>) \o <<1, 2, 3, 4>>)    \* a block around a block
\* A block that the parser finds at offset 2 of this one, when it is cut short:
\* the CRC reads '$@', the ID is the CRC of the block inside.
Sly   == Block(37032, <<8, 0, 0, 0, 1, 0, 22, 11>>)
Noise == <<Dollar, At, 1, 2, 3, 0, 10, 0>>   \* a header with a bad Length

MCStreams == {B12 \o Noise \o Outer, BadCrc(B12) \o B8 \o B12 \o B8,
              Outer \o <<Dollar>> \o B12, B8 \o BadCrc(Outer) \o B8,
              B8 \o B8 \o B8 \o BadCrc(B8), Noise \o Noise \o Outer, Sly}
=============================================================================
