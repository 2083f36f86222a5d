---------------------------- MODULE Crc16Proofs ----------------------------
(***************************************************************************)
(* Proofs about crc_ccitt_xmodem, for messages of every length over every  *)
(* alphabet: the driver's table-driven form and parser.py's bit-serial one *)
(* compute the same, and no damage within two neighbouring bytes keeps the *)
(* checksum.                                                               *)
(***************************************************************************)
EXTENDS Crc16, SequenceLemmas

-----------------------------------------------------------------------------
(* Operations on registers.                                                *)

\* What each operation returns, and what it does to each bit.
LEMMA XorWord ==
  ASSUME NEW a \in Word, NEW b \in Word
  PROVE  /\ Xor(a, b) \in Word
         /\ \A i \in 0..15 : Xor(a, b)[i] = IF a[i] = b[i] THEN 0 ELSE 1
BY DEF Xor, Word, Bit

LEMMA XorByte ==
  ASSUME NEW a \in Byte, NEW b \in Byte
  PROVE  /\ Xor(a, b) \in Byte
         /\ \A i \in 0..7 : Xor(a, b)[i] = IF a[i] = b[i] THEN 0 ELSE 1
BY DEF Xor, Byte, Bit

LEMMA LeftWord ==
  ASSUME NEW c \in Word, NEW n \in Nat
  PROVE  /\ Left(c, n) \in Word
         /\ \A i \in 0..15 : Left(c, n)[i] = IF i < n THEN 0 ELSE c[i - n]
BY DEF Left, Word, Bit

LEMMA HighByte ==
  ASSUME NEW c \in Word
  PROVE  High(c) \in Byte /\ \A i \in 0..7 : High(c)[i] = c[i + 8]
BY DEF High, Word, Byte, Bit

LEMMA WidenWord ==
  ASSUME NEW b \in Byte
  PROVE  /\ Widen(b) \in Word
         /\ \A i \in 0..15 : Widen(b)[i] = IF i < 8 THEN 0 ELSE b[i - 8]
BY DEF Widen, Word, Byte, Bit

LEMMA ConstantWords ==
  /\ Zero \in Word /\ Polynomial \in Word
  /\ \A i \in 0..15 : Polynomial[i] = IF i \in {0, 5, 12} THEN 1 ELSE 0
BY DEF Zero, Polynomial, Word, Bit

\* Registers with the same bits are the same.
LEMMA WordEqual ==
  ASSUME NEW a \in Word, NEW b \in Word, \A i \in 0..15 : a[i] = b[i]
  PROVE  a = b
BY DEF Word

\* The bits are bits.
LEMMA WordBits ==
  ASSUME NEW a \in Word, NEW i \in 0..15
  PROVE  a[i] \in Bit
BY DEF Word

\* A shift moves each bit up, and adds the polynomial where the highest one is set.
LEMMA ShiftWord ==
  ASSUME NEW c \in Word
  PROVE  /\ Shift(c) \in Word
         /\ Shift(c)[0] = c[15]
         /\ \A i \in 1..15 : Shift(c)[i] = IF c[15] = 1 /\ i \in {5, 12} THEN 1 - c[i - 1]
                                                                      ELSE c[i - 1]
<1>1. PICK l \in Word : /\ l = Left(c, 1) /\ l[0] = 0 /\ \A i \in 1..15 : l[i] = c[i - 1]
  <2>1. PICK l \in Word : /\ l = Left(c, 1)
                          /\ \A i \in 0..15 : l[i] = IF i < 1 THEN 0 ELSE c[i - 1]
    BY LeftWord
  <2>2. l[0] = 0 /\ \A i \in 1..15 : l[i] = c[i - 1]
    BY <2>1
  <2> QED BY <2>1, <2>2
<1>2. c[15] \in Bit
  BY WordBits
<1>3. CASE c[15] = 1
  <2>1. PICK s \in Word : /\ s = Shift(c)
                          /\ \A i \in 0..15 : s[i] = IF l[i] = Polynomial[i] THEN 0 ELSE 1
    BY <1>1, <1>3, XorWord, ConstantWords DEF Shift
  <2>2. s[0] = 1
    BY <1>1, <2>1, ConstantWords
  <2>3. ASSUME NEW i \in 1..15 PROVE s[i] = IF i \in {5, 12} THEN 1 - c[i - 1] ELSE c[i - 1]
    <3>1. s[i] = IF c[i - 1] = Polynomial[i] THEN 0 ELSE 1
      BY <1>1, <2>1
    <3>2. Polynomial[i] = IF i \in {5, 12} THEN 1 ELSE 0
      BY ConstantWords
    <3>3. c[i - 1] \in {0, 1}
      BY WordBits DEF Bit
    <3> QED BY <3>1, <3>2, <3>3
  <2> QED BY <1>3, <2>1, <2>2, <2>3
<1>4. CASE c[15] = 0
  BY <1>1, <1>4 DEF Shift
<1> QED BY <1>2, <1>3, <1>4 DEF Bit

\* The shift of a sum is the sum of the shifts.
LEMMA ShiftXor ==
  ASSUME NEW a \in Word, NEW b \in Word
  PROVE  Shift(Xor(a, b)) = Xor(Shift(a), Shift(b))
<1>1. PICK x \in Word : x = Xor(a, b) /\ \A i \in 0..15 : x[i] = IF a[i] = b[i] THEN 0 ELSE 1
  BY XorWord
<1>2. PICK s \in Word, t \in Word : s = Shift(a) /\ t = Shift(b)
  BY ShiftWord
<1>3. PICK y \in Word : y = Xor(s, t) /\ \A i \in 0..15 : y[i] = IF s[i] = t[i] THEN 0 ELSE 1
  BY XorWord
<1>4. PICK z \in Word : z = Shift(x)
  BY ShiftWord
<1>5. ASSUME NEW i \in 0..15 PROVE z[i] = y[i]
  <2>1. a[15] \in {0, 1} /\ b[15] \in {0, 1} /\ x[15] = IF a[15] = b[15] THEN 0 ELSE 1
    BY <1>1, WordBits DEF Bit
  <2>2. CASE i = 0
    <3>1. z[0] = x[15] /\ s[0] = a[15] /\ t[0] = b[15]
      BY <1>2, <1>4, ShiftWord
    <3>2. y[0] = IF s[0] = t[0] THEN 0 ELSE 1
      BY <1>3
    <3> QED BY <2>1, <2>2, <3>1, <3>2
  <2>3. CASE i \in 1..15
    <3>1. /\ z[i] = IF x[15] = 1 /\ i \in {5, 12} THEN 1 - x[i - 1] ELSE x[i - 1]
          /\ s[i] = IF a[15] = 1 /\ i \in {5, 12} THEN 1 - a[i - 1] ELSE a[i - 1]
          /\ t[i] = IF b[15] = 1 /\ i \in {5, 12} THEN 1 - b[i - 1] ELSE b[i - 1]
      BY <1>2, <1>4, <2>3, ShiftWord
    <3>2. y[i] = IF s[i] = t[i] THEN 0 ELSE 1
      BY <1>3
    <3>3. i - 1 \in 0..15
      BY <2>3
    <3>4. PICK p \in {0, 1}, q \in {0, 1} : p = a[i - 1] /\ q = b[i - 1]
      BY <3>3, WordBits DEF Bit
    <3>5. x[i - 1] = IF p = q THEN 0 ELSE 1
      BY <1>1, <3>3, <3>4
    <3> QED BY <2>1, <3>1, <3>2, <3>4, <3>5
  <2> QED BY <2>2, <2>3
<1>6. z = y
  BY <1>5, WordEqual
<1> QED BY <1>1, <1>2, <1>3, <1>4, <1>6

\* Different registers stay different.
LEMMA ShiftInjective ==
  ASSUME NEW a \in Word, NEW b \in Word, Shift(a) = Shift(b)
  PROVE  a = b
<1>1. a[15] = b[15]
  BY ShiftWord
<1>2. ASSUME NEW i \in 0..14 PROVE a[i] = b[i]
  <2>1. PICK j \in 1..15 : j - 1 = i
    <3>1. i + 1 \in 1..15 /\ (i + 1) - 1 = i
      OBVIOUS
    <3> QED BY <3>1
  <2>2. /\ Shift(a)[j] = IF a[15] = 1 /\ j \in {5, 12} THEN 1 - a[j - 1] ELSE a[j - 1]
        /\ Shift(b)[j] = IF b[15] = 1 /\ j \in {5, 12} THEN 1 - b[j - 1] ELSE b[j - 1]
    BY ShiftWord
  <2>3. a[i] \in {0, 1} /\ b[i] \in {0, 1}
    BY WordBits DEF Bit
  <2> QED BY <1>1, <2>1, <2>2, <2>3
<1>3. \A i \in 0..15 : a[i] = b[i]
  BY <1>1, <1>2
<1> QED BY <1>3, WordEqual

-----------------------------------------------------------------------------
(* Eight shifts.                                                           *)

\* They are a register again.
LEMMA Shift8Word ==
  ASSUME NEW c \in Word
  PROVE  Shift8(c) \in Word
BY ShiftWord DEF Shift8

\* Eight shifts of a sum are the sum of what eight shifts make of its parts.
LEMMA Shift8Xor ==
  ASSUME NEW a \in Word, NEW b \in Word
  PROVE  Shift8(Xor(a, b)) = Xor(Shift8(a), Shift8(b))
<1>1. PICK a1 \in Word, b1 \in Word :
       a1 = Shift(a) /\ b1 = Shift(b) /\ Shift(Xor(a, b)) = Xor(a1, b1)
  BY ShiftWord, ShiftXor
<1>2. PICK a2 \in Word, b2 \in Word :
       a2 = Shift(a1) /\ b2 = Shift(b1) /\ Shift(Xor(a1, b1)) = Xor(a2, b2)
  BY ShiftWord, ShiftXor
<1>3. PICK a3 \in Word, b3 \in Word :
       a3 = Shift(a2) /\ b3 = Shift(b2) /\ Shift(Xor(a2, b2)) = Xor(a3, b3)
  BY ShiftWord, ShiftXor
<1>4. PICK a4 \in Word, b4 \in Word :
       a4 = Shift(a3) /\ b4 = Shift(b3) /\ Shift(Xor(a3, b3)) = Xor(a4, b4)
  BY ShiftWord, ShiftXor
<1>5. PICK a5 \in Word, b5 \in Word :
       a5 = Shift(a4) /\ b5 = Shift(b4) /\ Shift(Xor(a4, b4)) = Xor(a5, b5)
  BY ShiftWord, ShiftXor
<1>6. PICK a6 \in Word, b6 \in Word :
       a6 = Shift(a5) /\ b6 = Shift(b5) /\ Shift(Xor(a5, b5)) = Xor(a6, b6)
  BY ShiftWord, ShiftXor
<1>7. PICK a7 \in Word, b7 \in Word :
       a7 = Shift(a6) /\ b7 = Shift(b6) /\ Shift(Xor(a6, b6)) = Xor(a7, b7)
  BY ShiftWord, ShiftXor
<1>8. PICK a8 \in Word, b8 \in Word :
       a8 = Shift(a7) /\ b8 = Shift(b7) /\ Shift(Xor(a7, b7)) = Xor(a8, b8)
  BY ShiftWord, ShiftXor
<1> QED BY <1>1, <1>2, <1>3, <1>4, <1>5, <1>6, <1>7, <1>8 DEF Shift8

\* Different registers stay different.
LEMMA Shift8Injective ==
  ASSUME NEW a \in Word, NEW b \in Word, Shift8(a) = Shift8(b)
  PROVE  a = b
<1>1. PICK a1 \in Word, b1 \in Word :
       a1 = Shift(a) /\ b1 = Shift(b) /\ (a1 = b1 => a = b)
  BY ShiftWord, ShiftInjective
<1>2. PICK a2 \in Word, b2 \in Word :
       a2 = Shift(a1) /\ b2 = Shift(b1) /\ (a2 = b2 => a1 = b1)
  BY ShiftWord, ShiftInjective
<1>3. PICK a3 \in Word, b3 \in Word :
       a3 = Shift(a2) /\ b3 = Shift(b2) /\ (a3 = b3 => a2 = b2)
  BY ShiftWord, ShiftInjective
<1>4. PICK a4 \in Word, b4 \in Word :
       a4 = Shift(a3) /\ b4 = Shift(b3) /\ (a4 = b4 => a3 = b3)
  BY ShiftWord, ShiftInjective
<1>5. PICK a5 \in Word, b5 \in Word :
       a5 = Shift(a4) /\ b5 = Shift(b4) /\ (a5 = b5 => a4 = b4)
  BY ShiftWord, ShiftInjective
<1>6. PICK a6 \in Word, b6 \in Word :
       a6 = Shift(a5) /\ b6 = Shift(b5) /\ (a6 = b6 => a5 = b5)
  BY ShiftWord, ShiftInjective
<1>7. PICK a7 \in Word, b7 \in Word :
       a7 = Shift(a6) /\ b7 = Shift(b6) /\ (a7 = b7 => a6 = b6)
  BY ShiftWord, ShiftInjective
<1>8. PICK a8 \in Word, b8 \in Word :
       a8 = Shift(a7) /\ b8 = Shift(b7) /\ (a8 = b8 => a7 = b7)
  BY ShiftWord, ShiftInjective
<1>9. a8 = b8
  BY <1>1, <1>2, <1>3, <1>4, <1>5, <1>6, <1>7, <1>8 DEF Shift8
<1> QED BY <1>1, <1>2, <1>3, <1>4, <1>5, <1>6, <1>7, <1>8, <1>9

\* While the bits that leave the register are not set, it is only moved.
LEMMA ShiftClear ==
  ASSUME NEW c \in Word, NEW k \in 0..7, c[15 - k] = 0
  PROVE  Shift(Left(c, k)) = Left(c, k + 1)
<1>0. k \in Nat /\ k + 1 \in Nat
  OBVIOUS
<1>1. PICK d \in Word : d = Left(c, k) /\ \A i \in 0..15 : d[i] = IF i < k THEN 0 ELSE c[i - k]
  BY <1>0, LeftWord
<1>2. PICK e \in Word : /\ e = Left(c, k + 1)
                        /\ \A i \in 0..15 : e[i] = IF i < k + 1 THEN 0 ELSE c[i - (k + 1)]
  BY <1>0, LeftWord
<1>3. d[15] = 0
  BY <1>1
<1>4. PICK s \in Word : s = Shift(d)
  BY ShiftWord
<1>5. s[0] = 0 /\ \A i \in 1..15 : s[i] = d[i - 1]
  BY <1>3, <1>4, ShiftWord
<1>6. ASSUME NEW i \in 0..15 PROVE s[i] = e[i]
  <2>1. CASE i = 0
    BY <1>2, <1>5, <2>1
  <2>2. CASE i \in 1..15
    <3>1. d[i - 1] = IF i - 1 < k THEN 0 ELSE c[(i - 1) - k]
      BY <1>1, <2>2
    <3>2. (i - 1) - k = i - (k + 1) /\ (i - 1 < k <=> i < k + 1)
      BY <2>2
    <3> QED BY <1>2, <1>5, <2>2, <3>1, <3>2
  <2> QED BY <2>1, <2>2
<1> QED BY <1>1, <1>2, <1>4, <1>6, WordEqual

\* A register whose high byte is clear is moved by a byte.
LEMMA Shift8Clear ==
  ASSUME NEW c \in Word, \A i \in 8..15 : c[i] = 0
  PROVE  Shift8(c) = Left(c, 8)
<1>0. Left(c, 0) = c
  <2>1. PICK d \in Word : d = Left(c, 0) /\ \A i \in 0..15 : d[i] = IF i < 0 THEN 0 ELSE c[i - 0]
    BY LeftWord
  <2>2. \A i \in 0..15 : d[i] = c[i]
    BY <2>1
  <2> QED BY <2>1, <2>2, WordEqual
<1>1. Shift(Left(c, 0)) = Left(c, 1)
  <2>1. 0 \in 0..7 /\ c[15 - 0] = 0 /\ 0 + 1 = 1
    OBVIOUS
  <2> QED BY <2>1, ShiftClear
<1>2. Shift(Left(c, 1)) = Left(c, 2)
  <2>1. 1 \in 0..7 /\ c[15 - 1] = 0 /\ 1 + 1 = 2
    OBVIOUS
  <2> QED BY <2>1, ShiftClear
<1>3. Shift(Left(c, 2)) = Left(c, 3)
  <2>1. 2 \in 0..7 /\ c[15 - 2] = 0 /\ 2 + 1 = 3
    OBVIOUS
  <2> QED BY <2>1, ShiftClear
<1>4. Shift(Left(c, 3)) = Left(c, 4)
  <2>1. 3 \in 0..7 /\ c[15 - 3] = 0 /\ 3 + 1 = 4
    OBVIOUS
  <2> QED BY <2>1, ShiftClear
<1>5. Shift(Left(c, 4)) = Left(c, 5)
  <2>1. 4 \in 0..7 /\ c[15 - 4] = 0 /\ 4 + 1 = 5
    OBVIOUS
  <2> QED BY <2>1, ShiftClear
<1>6. Shift(Left(c, 5)) = Left(c, 6)
  <2>1. 5 \in 0..7 /\ c[15 - 5] = 0 /\ 5 + 1 = 6
    OBVIOUS
  <2> QED BY <2>1, ShiftClear
<1>7. Shift(Left(c, 6)) = Left(c, 7)
  <2>1. 6 \in 0..7 /\ c[15 - 6] = 0 /\ 6 + 1 = 7
    OBVIOUS
  <2> QED BY <2>1, ShiftClear
<1>8. Shift(Left(c, 7)) = Left(c, 8)
  <2>1. 7 \in 0..7 /\ c[15 - 7] = 0 /\ 7 + 1 = 8
    OBVIOUS
  <2> QED BY <2>1, ShiftClear
<1> QED BY <1>0, <1>1, <1>2, <1>3, <1>4, <1>5, <1>6, <1>7, <1>8, Zenon DEF Shift8

\* The table does for the byte that leaves the register what eight shifts do:
\* one step of crc_ccitt_xmodem's loop is one step of parser.py's.
LEMMA UpdateIsSerial ==
  ASSUME NEW c \in Word, NEW b \in Byte
  PROVE  /\ Update(c, b) = Shift8(Xor(c, Widen(b)))
         /\ Update(c, b) \in Word
<1>1. PICK h \in Byte : h = High(c) /\ \A i \in 0..7 : h[i] = c[i + 8]
  BY HighByte
<1>2. PICK x \in Byte : x = Xor(h, b) /\ \A i \in 0..7 : x[i] = IF h[i] = b[i] THEN 0 ELSE 1
  BY XorByte
<1>3. PICK w \in Word : w = Widen(x) /\ \A i \in 0..15 : w[i] = IF i < 8 THEN 0 ELSE x[i - 8]
  BY WidenWord
<1>4. PICK v \in Word : v = Widen(b) /\ \A i \in 0..15 : v[i] = IF i < 8 THEN 0 ELSE b[i - 8]
  BY WidenWord
<1> DEFINE l == [i \in 0..15 |-> IF i < 8 THEN c[i] ELSE 0]
<1>5. l \in Word /\ \A i \in 0..15 : l[i] = IF i < 8 THEN c[i] ELSE 0
  BY DEF Word, Bit
<1> HIDE DEF l
\* The register and the byte, as the byte that stays and the one that leaves.
<1>6. Xor(c, v) = Xor(l, w)
  <2>1. PICK p \in Word : p = Xor(c, v) /\ \A i \in 0..15 : p[i] = IF c[i] = v[i] THEN 0 ELSE 1
    BY XorWord
  <2>2. PICK q \in Word : q = Xor(l, w) /\ \A i \in 0..15 : q[i] = IF l[i] = w[i] THEN 0 ELSE 1
    BY <1>5, XorWord
  <2>3. ASSUME NEW i \in 0..15 PROVE p[i] = q[i]
    <3>1. CASE i < 8
      <4>1. v[i] = 0 /\ w[i] = 0 /\ l[i] = c[i]
        BY <1>3, <1>4, <1>5, <3>1
      <4> QED BY <2>1, <2>2, <4>1
    <3>2. CASE ~(i < 8)
      <4>1. PICK j \in 0..7 : j = i - 8 /\ j + 8 = i
        BY <3>2
      <4>2. v[i] = b[j] /\ w[i] = x[j] /\ l[i] = 0 /\ h[j] = c[i]
        BY <1>1, <1>3, <1>4, <1>5, <3>2, <4>1
      <4>3. x[j] = IF h[j] = b[j] THEN 0 ELSE 1
        BY <1>2
      <4> QED BY <2>1, <2>2, <4>2, <4>3
    <3> QED BY <3>1, <3>2
  <2> QED BY <2>1, <2>2, <2>3, WordEqual
<1>7. Shift8(Xor(l, w)) = Xor(Shift8(l), Shift8(w))
  BY <1>5, Shift8Xor
<1>8. Shift8(l) = Left(c, 8)
  <2>1. \A i \in 8..15 : l[i] = 0
    BY <1>5
  <2>2. Shift8(l) = Left(l, 8)
    BY <1>5, <2>1, Shift8Clear
  <2>3. Left(l, 8) = Left(c, 8)
    <3>1. \A i \in 0..15 : ~(i < 8) => i - 8 \in 0..15 /\ i - 8 < 8
      OBVIOUS
    <3>2. \A i \in 0..15 : ~(i < 8) => l[i - 8] = c[i - 8]
      BY <1>5, <3>1
    <3> QED BY <3>2 DEF Left
  <2> QED BY <2>2, <2>3
<1>9. Shift8(w) = kCrcTable[x]
  BY <1>3 DEF kCrcTable
<1>10. Update(c, b) = Xor(Left(c, 8), kCrcTable[x])
  BY <1>1, <1>2 DEF Update
<1>11. Update(c, b) = Shift8(Xor(c, v))
  BY <1>6, <1>7, <1>8, <1>9, <1>10
<1>12. Xor(c, v) \in Word
  BY XorWord
<1> QED BY <1>4, <1>11, <1>12, Shift8Word

-----------------------------------------------------------------------------
(* parser.py's loop over a message.                                        *)

\* r is the register after each byte of a message.
Sums(r, bytes, n) ==
  r = [i \in 0..n |-> IF i = 0 THEN Zero ELSE Shift8(Xor(r[i - 1], Widen(bytes[i])))]

\* The recursion has a solution for every length.
LEMMA SumsExists ==
  ASSUME NEW bytes, NEW N \in Nat
  PROVE  \E r : Sums(r, bytes, N)
<1> DEFINE T == {n \in Nat : \E r : Sums(r, bytes, n)}
<1>1. 0 \in T
  <2> DEFINE e == [i \in 0..0 |-> Zero]
  <2>1. e = [i \in 0..0 |-> IF i = 0 THEN Zero ELSE Shift8(Xor(e[i - 1], Widen(bytes[i])))]
    OBVIOUS
  <2>2. Sums(e, bytes, 0)
    BY <2>1 DEF Sums
  <2> QED BY <2>2
<1>2. ASSUME NEW n \in Nat, n \in T PROVE n + 1 \in T
  <2>1. PICK r : Sums(r, bytes, n)
    BY <1>2
  <2> DEFINE last == Shift8(Xor(r[n], Widen(bytes[n + 1])))
             h == [i \in 0..(n + 1) |-> IF i = n + 1 THEN last ELSE r[i]]
  <2>2. \A i \in 0..(n + 1) : h[i] = IF i = 0 THEN Zero ELSE Shift8(Xor(h[i - 1], Widen(bytes[i])))
    <3> SUFFICES ASSUME NEW i \in 0..(n + 1)
                 PROVE  h[i] = IF i = 0 THEN Zero ELSE Shift8(Xor(h[i - 1], Widen(bytes[i])))
      OBVIOUS
    <3>1. CASE i = n + 1
      <4>1. i # 0 /\ i - 1 = n /\ h[n] = r[n] /\ h[i] = last
        BY <3>1
      <4> QED BY <3>1, <4>1
    <3>2. CASE i \in 0..n
      <4>1. r[i] = IF i = 0 THEN Zero ELSE Shift8(Xor(r[i - 1], Widen(bytes[i])))
        BY <2>1, <3>2 DEF Sums
      <4>2. h[i] = r[i] /\ (i # 0 => h[i - 1] = r[i - 1])
        BY <3>2
      <4> QED BY <4>1, <4>2
    <3> QED BY <3>1, <3>2
  <2>3. Sums(h, bytes, n + 1)
    BY <2>2 DEF Sums
  <2> HIDE DEF h
  <2> QED BY <2>3
<1> HIDE DEF T
<1>3. T = Nat
  <2>1. T \subseteq Nat
    BY DEF T
  <2> QED BY <1>1, <1>2, <2>1, SetInduction
<1> QED BY <1>3 DEF T

\* BitSerial is the last value of a solution.
LEMMA BitSerialUnfold ==
  ASSUME NEW bytes, Len(bytes) \in Nat
  PROVE  \E r : Sums(r, bytes, Len(bytes)) /\ BitSerial(bytes) = r[Len(bytes)]
<1> DEFINE r == CHOOSE g : g = [i \in 0..Len(bytes) |->
                   IF i = 0 THEN Zero ELSE Shift8(Xor(g[i - 1], Widen(bytes[i])))]
<1>1. \E g : g = [i \in 0..Len(bytes) |->
                   IF i = 0 THEN Zero ELSE Shift8(Xor(g[i - 1], Widen(bytes[i])))]
  BY SumsExists DEF Sums
<1>2. r = [i \in 0..Len(bytes) |->
                   IF i = 0 THEN Zero ELSE Shift8(Xor(r[i - 1], Widen(bytes[i])))]
  BY <1>1
<1>3. BitSerial(bytes) = r[Len(bytes)]
  BY DEF BitSerial
<1> HIDE DEF r
<1>4. Sums(r, bytes, Len(bytes))
  BY <1>2 DEF Sums
<1> QED BY <1>3, <1>4

\* The first k bytes are the same.
BeginsWith(y, x, k) == \A i \in 1..k : y[i] = x[i]

\* The solution for a message is that for the message without its last byte, and
\* one more.
LEMMA SumsAgree ==
  ASSUME NEW x, NEW y, NEW f, NEW g, NEW k \in Nat,
         Sums(f, x, k), Sums(g, y, k + 1), BeginsWith(y, x, k)
  PROVE  f[k] = g[k]
<1> DEFINE T == {i \in Nat : i <= k => f[i] = g[i]}
<1>1. 0 \in T
  BY DEF Sums
<1>2. ASSUME NEW i \in Nat, i \in T PROVE i + 1 \in T
  <2> SUFFICES ASSUME i + 1 <= k PROVE f[i + 1] = g[i + 1]
    OBVIOUS
  <2>1. /\ i + 1 \in 0..k /\ i + 1 \in 0..(k + 1) /\ i + 1 # 0 /\ (i + 1) - 1 = i /\ i <= k
        /\ i + 1 \in 1..k
    OBVIOUS
  <2>2. f[i + 1] = Shift8(Xor(f[i], Widen(x[i + 1])))
    BY <2>1 DEF Sums
  <2>3. g[i + 1] = Shift8(Xor(g[i], Widen(y[i + 1])))
    BY <2>1 DEF Sums
  <2>4. f[i] = g[i] /\ x[i + 1] = y[i + 1]
    BY <1>2, <2>1 DEF BeginsWith
  <2> QED BY <2>2, <2>3, <2>4
<1> HIDE DEF T
<1>3. T = Nat
  <2>1. T \subseteq Nat
    BY DEF T
  <2> QED BY <1>1, <1>2, <2>1, SetInduction
<1> QED BY <1>3 DEF T

\* The empty message, and one byte more.
LEMMA BitSerialEmpty == BitSerial(<<>>) = Zero
<1>1. Len(<<>>) = 0
  OBVIOUS
<1>2. PICK r : Sums(r, <<>>, 0) /\ BitSerial(<<>>) = r[0]
  BY <1>1, BitSerialUnfold
<1> QED BY <1>2 DEF Sums

LEMMA BitSerialAppend ==
  ASSUME NEW S, NEW bytes \in Seq(S), NEW b \in S
  PROVE  BitSerial(Append(bytes, b)) = Shift8(Xor(BitSerial(bytes), Widen(b)))
<1>1. PICK n \in Nat : n = Len(bytes)
  BY LenProperties
<1>2. PICK m : m = Append(bytes, b)
  OBVIOUS
<1>a. Len(m) = n + 1 /\ m[n + 1] = b /\ \A i \in 1..n : m[i] = bytes[i]
  BY <1>1, <1>2, AppendProperties
<1>3. PICK f : Sums(f, bytes, n) /\ BitSerial(bytes) = f[n]
  BY <1>1, BitSerialUnfold
<1>4. PICK g : Sums(g, m, n + 1) /\ BitSerial(m) = g[n + 1]
  <2>1. n + 1 \in Nat /\ Len(m) = n + 1
    BY <1>a
  <2> QED BY <2>1, BitSerialUnfold
<1>5. f[n] = g[n]
  <2>1. BeginsWith(m, bytes, n)
    BY <1>a DEF BeginsWith
  <2> QED BY <1>3, <1>4, <2>1, SumsAgree
<1>6. g[n + 1] = Shift8(Xor(g[n], Widen(m[n + 1])))
  <2>1. n + 1 \in 0..(n + 1) /\ n + 1 # 0 /\ (n + 1) - 1 = n
    OBVIOUS
  <2> QED BY <1>4, <2>1 DEF Sums
<1> QED BY <1>2, <1>a, <1>3, <1>4, <1>5, <1>6

-----------------------------------------------------------------------------
(* Damage.                                                                 *)

\* The registers differ in the byte that the next update keeps.
DifferLow(c, d) == \E i \in 0..7 : c[i] # d[i]

\* The registers agree in the bits that k shifts of eight have filled, and in
\* those that left the register meanwhile.
AgreeAfter(k, c, d) == \A i \in 0..15 : i < k \/ i >= 8 + k => c[i] = d[i]

\* Bits can be followed back through a shift, since the bit that leaves the
\* register is seen in the lowest one.
LEMMA AgreeBefore ==
  ASSUME NEW c \in Word, NEW d \in Word, NEW k \in 0..7, AgreeAfter(k + 1, Shift(c), Shift(d))
  PROVE  AgreeAfter(k, c, d)
<1>1. c[15] = d[15]
  <2>1. Shift(c)[0] = Shift(d)[0]
    BY DEF AgreeAfter
  <2> QED BY <2>1, ShiftWord
<1>2. ASSUME NEW i \in 0..14, i < k \/ i >= 8 + k PROVE c[i] = d[i]
  <2>1. PICK j \in 1..15 : j - 1 = i /\ (j < k + 1 \/ j >= 8 + (k + 1))
    <3>1. i + 1 \in 1..15 /\ (i + 1) - 1 = i /\ (i + 1 < k + 1 \/ i + 1 >= 8 + (k + 1))
      BY <1>2
    <3> QED BY <3>1
  <2>2. Shift(c)[j] = Shift(d)[j]
    BY <2>1 DEF AgreeAfter
  <2>3. /\ Shift(c)[j] = IF c[15] = 1 /\ j \in {5, 12} THEN 1 - c[j - 1] ELSE c[j - 1]
        /\ Shift(d)[j] = IF d[15] = 1 /\ j \in {5, 12} THEN 1 - d[j - 1] ELSE d[j - 1]
    BY ShiftWord
  <2>4. i \in 0..15
    OBVIOUS
  <2>5. PICK x \in {0, 1}, y \in {0, 1} : x = c[i] /\ y = d[i]
    BY <2>4, WordBits DEF Bit
  <2>6. /\ Shift(c)[j] = IF c[15] = 1 /\ j \in {5, 12} THEN 1 - x ELSE x
        /\ Shift(d)[j] = IF c[15] = 1 /\ j \in {5, 12} THEN 1 - y ELSE y
    BY <1>1, <2>1, <2>3, <2>5
  <2>7. x = y
    <3>1. CASE c[15] = 1 /\ j \in {5, 12}
      <4>1. Shift(c)[j] = 1 - x /\ Shift(d)[j] = 1 - y
        BY <2>6, <3>1
      <4>2. 1 - x = 1 - y
        BY <2>2, <4>1, Zenon
      <4> QED BY <4>2
    <3>2. CASE ~(c[15] = 1 /\ j \in {5, 12})
      <4>1. Shift(c)[j] = x /\ Shift(d)[j] = y
        BY <2>6, <3>2
      <4> QED BY <2>2, <4>1, Zenon
    <3> QED BY <3>1, <3>2
  <2> QED BY <2>5, <2>7
<1> QED BY <1>1, <1>2 DEF AgreeAfter

\* A difference in the high byte is one in the low byte eight shifts later.
LEMMA Shift8Low ==
  ASSUME NEW a \in Word, NEW b \in Word, ~DifferLow(Shift8(a), Shift8(b))
  PROVE  \A i \in 8..15 : a[i] = b[i]
<1>1. PICK a1 \in Word, b1 \in Word : a1 = Shift(a) /\ b1 = Shift(b)
  BY ShiftWord
<1>2. PICK a2 \in Word, b2 \in Word : a2 = Shift(a1) /\ b2 = Shift(b1)
  BY ShiftWord
<1>3. PICK a3 \in Word, b3 \in Word : a3 = Shift(a2) /\ b3 = Shift(b2)
  BY ShiftWord
<1>4. PICK a4 \in Word, b4 \in Word : a4 = Shift(a3) /\ b4 = Shift(b3)
  BY ShiftWord
<1>5. PICK a5 \in Word, b5 \in Word : a5 = Shift(a4) /\ b5 = Shift(b4)
  BY ShiftWord
<1>6. PICK a6 \in Word, b6 \in Word : a6 = Shift(a5) /\ b6 = Shift(b5)
  BY ShiftWord
<1>7. PICK a7 \in Word, b7 \in Word : a7 = Shift(a6) /\ b7 = Shift(b6)
  BY ShiftWord
<1>8. PICK a8 \in Word, b8 \in Word : a8 = Shift(a7) /\ b8 = Shift(b7)
  BY ShiftWord
<1>9. AgreeAfter(8, a8, b8)
  <2>1. a8 = Shift8(a) /\ b8 = Shift8(b)
    BY <1>1, <1>2, <1>3, <1>4, <1>5, <1>6, <1>7, <1>8 DEF Shift8
  <2> QED BY <2>1 DEF DifferLow, AgreeAfter
<1>10. AgreeAfter(7, a7, b7)
  <2>1. 7 \in 0..7 /\ 7 + 1 = 8
    OBVIOUS
  <2> QED BY <1>8, <1>9, <2>1, AgreeBefore
<1>11. AgreeAfter(6, a6, b6)
  <2>1. 6 \in 0..7 /\ 6 + 1 = 7
    OBVIOUS
  <2> QED BY <1>7, <1>10, <2>1, AgreeBefore
<1>12. AgreeAfter(5, a5, b5)
  <2>1. 5 \in 0..7 /\ 5 + 1 = 6
    OBVIOUS
  <2> QED BY <1>6, <1>11, <2>1, AgreeBefore
<1>13. AgreeAfter(4, a4, b4)
  <2>1. 4 \in 0..7 /\ 4 + 1 = 5
    OBVIOUS
  <2> QED BY <1>5, <1>12, <2>1, AgreeBefore
<1>14. AgreeAfter(3, a3, b3)
  <2>1. 3 \in 0..7 /\ 3 + 1 = 4
    OBVIOUS
  <2> QED BY <1>4, <1>13, <2>1, AgreeBefore
<1>15. AgreeAfter(2, a2, b2)
  <2>1. 2 \in 0..7 /\ 2 + 1 = 3
    OBVIOUS
  <2> QED BY <1>3, <1>14, <2>1, AgreeBefore
<1>16. AgreeAfter(1, a1, b1)
  <2>1. 1 \in 0..7 /\ 1 + 1 = 2
    OBVIOUS
  <2> QED BY <1>2, <1>15, <2>1, AgreeBefore
<1>17. AgreeAfter(0, a, b)
  <2>1. 0 \in 0..7 /\ 0 + 1 = 1
    OBVIOUS
  <2> QED BY <1>1, <1>16, <2>1, AgreeBefore
<1> QED BY <1>17 DEF AgreeAfter

\* Registers that differ do so after the same byte, and if they differ in the
\* low byte, then after every pair of bytes.
LEMMA DifferenceKept ==
  ASSUME NEW c \in Word, NEW d \in Word, NEW b \in Byte, NEW t \in Byte, c # d,
         b = t \/ DifferLow(c, d)
  PROVE  Update(c, b) # Update(d, t)
<1>1. PICK v \in Word : v = Widen(b) /\ \A i \in 0..15 : v[i] = IF i < 8 THEN 0 ELSE b[i - 8]
  BY WidenWord
<1>2. PICK w \in Word : w = Widen(t) /\ \A i \in 0..15 : w[i] = IF i < 8 THEN 0 ELSE t[i - 8]
  BY WidenWord
<1>3. PICK p \in Word : p = Xor(c, v) /\ \A i \in 0..15 : p[i] = IF c[i] = v[i] THEN 0 ELSE 1
  BY XorWord
<1>4. PICK q \in Word : q = Xor(d, w) /\ \A i \in 0..15 : q[i] = IF d[i] = w[i] THEN 0 ELSE 1
  BY XorWord
<1>5. PICK i \in 0..15 : c[i] # d[i] /\ v[i] = w[i]
  <2>1. CASE b = t
    <3>1. PICK i \in 0..15 : c[i] # d[i]
      BY WordEqual
    <3> QED BY <1>1, <1>2, <2>1, <3>1
  <2>2. CASE DifferLow(c, d)
    <3>1. PICK i \in 0..7 : c[i] # d[i]
      BY <2>2 DEF DifferLow
    <3>2. i \in 0..15 /\ i < 8
      OBVIOUS
    <3> QED BY <1>1, <1>2, <3>1, <3>2
  <2> QED BY <2>1, <2>2
<1>6. p[i] # q[i]
  <2>1. c[i] \in {0, 1} /\ d[i] \in {0, 1} /\ v[i] \in {0, 1}
    BY WordBits DEF Bit
  <2>2. p[i] = IF c[i] = v[i] THEN 0 ELSE 1
    BY <1>3
  <2>3. q[i] = IF d[i] = v[i] THEN 0 ELSE 1
    BY <1>4, <1>5
  <2> QED BY <1>5, <2>1, <2>2, <2>3
<1>7. Shift8(p) # Shift8(q)
  BY <1>6, Shift8Injective
<1> QED BY <1>1, <1>2, <1>3, <1>4, <1>7, UpdateIsSerial

\* Two bytes that differ make the registers differ in their low bytes.
LEMMA DifferenceMade ==
  ASSUME NEW c \in Word, NEW b \in Byte, NEW t \in Byte, b # t
  PROVE  DifferLow(Update(c, b), Update(c, t))
<1> SUFFICES ASSUME ~DifferLow(Update(c, b), Update(c, t)) PROVE b = t
  OBVIOUS
<1>1. PICK v \in Word : v = Widen(b) /\ \A i \in 0..15 : v[i] = IF i < 8 THEN 0 ELSE b[i - 8]
  BY WidenWord
<1>2. PICK w \in Word : w = Widen(t) /\ \A i \in 0..15 : w[i] = IF i < 8 THEN 0 ELSE t[i - 8]
  BY WidenWord
<1>3. PICK p \in Word : p = Xor(c, v) /\ \A i \in 0..15 : p[i] = IF c[i] = v[i] THEN 0 ELSE 1
  BY XorWord
<1>4. PICK q \in Word : q = Xor(c, w) /\ \A i \in 0..15 : q[i] = IF c[i] = w[i] THEN 0 ELSE 1
  BY XorWord
<1>5. \A i \in 8..15 : p[i] = q[i]
  <2>1. Update(c, b) = Shift8(p) /\ Update(c, t) = Shift8(q)
    BY <1>1, <1>2, <1>3, <1>4, UpdateIsSerial
  <2> QED BY <2>1, Shift8Low
<1>6. ASSUME NEW j \in 0..7 PROVE b[j] = t[j]
  <2>1. PICK i \in 8..15 : j = i - 8 /\ i \in 0..15 /\ ~(i < 8)
    <3>1. j + 8 \in 8..15 /\ (j + 8) - 8 = j /\ j + 8 \in 0..15 /\ ~(j + 8 < 8)
      OBVIOUS
    <3> QED BY <3>1
  <2>2. v[i] = b[j] /\ w[i] = t[j]
    BY <1>1, <1>2, <2>1
  <2>3. c[i] \in {0, 1} /\ v[i] \in {0, 1} /\ w[i] \in {0, 1}
    BY <2>1, WordBits DEF Bit
  <2>4. p[i] = IF c[i] = v[i] THEN 0 ELSE 1
    BY <1>3, <2>1
  <2>5. q[i] = IF c[i] = w[i] THEN 0 ELSE 1
    BY <1>4, <2>1
  <2> QED BY <1>5, <2>2, <2>3, <2>4, <2>5
<1> QED BY <1>6 DEF Byte

-----------------------------------------------------------------------------
(* The inductive invariant.                                                *)

\* Both messages are bytes, and have the same length.
Messages ==
  /\ data \in Seq(Alphabet) /\ twin \in Seq(Alphabet) /\ Len(data) = Len(twin)
  /\ crc \in Word /\ twin_crc \in Word

\* A difference in the last byte only is one in the low bytes of the registers,
\* where no second damaged byte can undo it.
FreshDamage ==
  data # twin /\ (\A i \in 1..(Len(data) - 1) : data[i] = twin[i]) => DifferLow(crc, twin_crc)

IInv ==
  /\ Messages /\ crc = BitSerial(data)
  /\ (data = twin <=> crc = twin_crc)
  /\ FreshDamage

\* It holds of the empty message.
LEMMA InitIInv == Init => IInv
<1> SUFFICES ASSUME Init PROVE IInv
  OBVIOUS
<1>1. Messages /\ data = twin /\ crc = twin_crc
  BY ConstantWords DEF Init, Messages
<1>2. crc = BitSerial(data)
  BY BitSerialEmpty DEF Init
<1> QED BY <1>1, <1>2 DEF IInv, FreshDamage

\* p is x and one byte more.
Grown(p, x, b) == p = Append(x, b)

\* Messages with a byte more: what was equal stays so, and so does what was not.
LEMMA AppendFacts ==
  ASSUME NEW x \in Seq(Alphabet), NEW y \in Seq(Alphabet), Len(x) = Len(y),
         NEW b \in Alphabet, NEW t \in Alphabet, NEW p, NEW q,
         Grown(p, x, b), Grown(q, y, t)
  PROVE  /\ p \in Seq(Alphabet) /\ q \in Seq(Alphabet) /\ Len(p) = Len(q) /\ Len(p) - 1 = Len(x)
         /\ (p = q <=> x = y /\ b = t)
         /\ (BeginsWith(p, q, Len(x)) <=> x = y)
<1>1. PICK n \in Nat : n = Len(x) /\ n = Len(y)
  BY LenProperties
<1>2. p \in Seq(Alphabet) /\ q \in Seq(Alphabet)
  BY AppendProperties DEF Grown
<1>3. Len(p) = n + 1 /\ p[n + 1] = b /\ \A i \in 1..n : p[i] = x[i]
  BY <1>1, AppendProperties DEF Grown
<1>4. Len(q) = n + 1 /\ q[n + 1] = t /\ \A i \in 1..n : q[i] = y[i]
  BY <1>1, AppendProperties DEF Grown
<1>5. (\A i \in 1..n : p[i] = q[i]) => x = y
  <2> SUFFICES ASSUME \A i \in 1..n : p[i] = q[i] PROVE x = y
    OBVIOUS
  <2>1. \A i \in 1..n : x[i] = y[i]
    BY <1>3, <1>4
  <2> QED BY <1>1, <2>1, SeqEqual
<1>6. x = y => \A i \in 1..n : p[i] = q[i]
  BY <1>3, <1>4
<1>7. p = q => x = y /\ b = t
  BY <1>3, <1>4, <1>5
<1>8. x = y /\ b = t => p = q
  BY DEF Grown
<1>9. (n + 1) - 1 = n
  OBVIOUS
<1> QED BY <1>1, <1>2, <1>3, <1>4, <1>5, <1>6, <1>7, <1>8, <1>9 DEF BeginsWith

\* One byte more.
LEMMA ConsumeIInv ==
  ASSUME IInv, NEW b \in Alphabet, NEW t \in Alphabet, Consume(b, t)
  PROVE  IInv'
<1>1. /\ data \in Seq(Alphabet) /\ twin \in Seq(Alphabet) /\ Len(data) = Len(twin)
      /\ crc \in Word /\ twin_crc \in Word /\ b \in Byte /\ t \in Byte
  BY CrcAssumption DEF IInv, Messages
<1>2. /\ data' = Append(data, b) /\ twin' = Append(twin, t)
      /\ crc' = Update(crc, b) /\ twin_crc' = Update(twin_crc, t)
  BY DEF Consume
<1>3. /\ data' \in Seq(Alphabet) /\ twin' \in Seq(Alphabet) /\ Len(data') = Len(twin')
      /\ Len(data') - 1 = Len(data)
      /\ (data' = twin' <=> data = twin /\ b = t)
      /\ (BeginsWith(data', twin', Len(data)) <=> data = twin)
  <2>1. /\ data \in Seq(Alphabet) /\ twin \in Seq(Alphabet) /\ Len(data) = Len(twin)
        /\ Grown(data', data, b) /\ Grown(twin', twin, t)
    BY <1>1, <1>2 DEF Grown
  <2> QED BY <2>1, AppendFacts
<1>4. crc' \in Word /\ twin_crc' \in Word /\ crc' = Shift8(Xor(crc, Widen(b)))
  BY <1>1, <1>2, UpdateIsSerial
<1>5. crc' = BitSerial(data')
  <2>1. BitSerial(Append(data, b)) = Shift8(Xor(BitSerial(data), Widen(b)))
    BY <1>1, BitSerialAppend
  <2> QED BY <1>2, <1>4, <2>1 DEF IInv
<1>6. (data' = twin' <=> crc' = twin_crc') /\ FreshDamage'
  <2>1. CASE data = twin /\ b = t
    <3>1. data' = twin' /\ crc' = twin_crc'
      BY <1>2, <2>1 DEF IInv
    <3> QED BY <3>1 DEF FreshDamage
  <2>2. CASE data = twin /\ b # t
    <3>1. data' # twin'
      BY <1>3, <2>2
    <3>2. DifferLow(crc', twin_crc')
      BY <1>1, <1>2, <2>2, DifferenceMade DEF IInv
    <3>3. crc' # twin_crc'
      BY <3>2 DEF DifferLow
    <3> QED BY <3>1, <3>2, <3>3 DEF FreshDamage
  <2>3. CASE data # twin
    <3>1. data' # twin' /\ ~(\A i \in 1..(Len(data') - 1) : data'[i] = twin'[i])
      BY <1>3, <2>3 DEF BeginsWith
    <3>2. crc # twin_crc
      BY <2>3 DEF IInv
    <3>3. b = t \/ DifferLow(crc, twin_crc)
      BY <2>3 DEF Consume, IInv, FreshDamage
    <3>4. crc' # twin_crc'
      BY <1>1, <1>2, <3>2, <3>3, DifferenceKept
    <3> QED BY <3>1, <3>4 DEF FreshDamage
  <2> QED BY <2>1, <2>2, <2>3
<1> QED BY <1>3, <1>4, <1>5, <1>6 DEF IInv, Messages

\* Every step.
LEMMA NextIInv == IInv /\ [Next]_vars => IInv'
<1> SUFFICES ASSUME IInv, [Next]_vars PROVE IInv'
  OBVIOUS
<1>1. CASE Next
  BY <1>1, ConsumeIInv DEF Next
<1>2. CASE UNCHANGED vars
  BY <1>2 DEF vars, IInv, Messages, FreshDamage, DifferLow
<1> QED BY <1>1, <1>2

\* The driver's crc_ccitt_xmodem() and parser.py's compute the same 16-bit
\* checksum of every message.
THEOREM Agreement == Spec => []ImplementationsAgree
<1>1. IInv => ImplementationsAgree
  BY DEF IInv, Messages, ImplementationsAgree
<1> QED BY <1>1, InitIInv, NextIInv, PTL DEF Spec

\* Damage within two neighbouring bytes changes the checksum of a message of
\* any length, however much follows.
THEOREM Detection == Spec => []DamageDetected
<1>1. IInv => DamageDetected
  BY DEF IInv, DamageDetected
<1> QED BY <1>1, InitIInv, NextIInv, PTL DEF Spec
=============================================================================
