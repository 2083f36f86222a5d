--------------------------- MODULE SequenceLemmas ---------------------------
(***************************************************************************)
(* Induction over the natural numbers as a statement about sets, and what  *)
(* FlattenSeq of the community modules computes, which the proofs about    *)
(* recorded files need.  FlattenSeq is a recursive function, so that its   *)
(* defining equation has to be derived before it can be used.              *)
(***************************************************************************)
EXTENDS Integers, Sequences, SequencesExt, SequenceTheorems, WellFoundedInduction, TLAPS

-----------------------------------------------------------------------------
(* Induction.                                                              *)

\* A set of numbers that contains 0 and the successor of each of its elements
\* contains them all.
LEMMA SetInduction ==
  ASSUME NEW T, T \subseteq Nat, 0 \in T, \A n \in Nat : n \in T => n + 1 \in T
  PROVE  T = Nat
<1> SUFFICES ASSUME Nat \ T # {} PROVE FALSE
  OBVIOUS
<1>1. PICK x \in Nat \ T : \A y \in Nat \ T : ~(<<y, x>> \in OpToRel(<, Nat))
  BY WFMin, NatLessThanWellFounded
<1>2. x \in Nat /\ x \notin T /\ x # 0
  OBVIOUS
<1>3. x - 1 \in Nat
  BY <1>2
<1>4. x - 1 \in T
  <2>1. <<x - 1, x>> \in OpToRel(<, Nat)
    BY <1>2, <1>3 DEF OpToRel
  <2> QED BY <1>1, <1>3, <2>1
<1>5. (x - 1) + 1 \in T
  BY <1>3, <1>4
<1> QED BY <1>2, <1>5

\* A set of numbers that is not empty has a least element.
LEMMA LeastElement ==
  ASSUME NEW T, T \subseteq Nat, T # {}
  PROVE  \E x \in T : \A y \in T : x <= y
<1>1. PICK x \in T : \A y \in T : ~(<<y, x>> \in OpToRel(<, Nat))
  BY WFMin, NatLessThanWellFounded
<1>2. ASSUME NEW y \in T PROVE x <= y
  <2>1. x \in Nat /\ y \in Nat
    OBVIOUS
  <2>2. ~(y < x)
    BY <1>1, <2>1 DEF OpToRel
  <2> QED BY <2>1, <2>2
<1> QED BY <1>2

\* A sequence of two elements.
LEMMA PairConcat ==
  ASSUME NEW S, NEW a \in S, NEW b \in S
  PROVE  <<b>> \in Seq(S) /\ <<a>> \o <<b>> = <<a, b>>
<1>1. /\ <<a>> \in Seq(S) /\ <<b>> \in Seq(S) /\ <<a, b>> \in Seq(S)
      /\ Len(<<a>>) = 1 /\ Len(<<b>>) = 1 /\ Len(<<a, b>>) = 2
      /\ <<a>>[1] = a /\ <<b>>[1] = b /\ <<a, b>>[1] = a /\ <<a, b>>[2] = b
  OBVIOUS
<1> DEFINE s == <<a>>
           t == <<b>>
           u == <<a, b>>
<1> HIDE DEF s, t, u
<1>2. /\ s \o t \in Seq(S) /\ Len(s \o t) = 2 /\ (s \o t)[1] = a /\ (s \o t)[2] = b
  BY <1>1, ConcatProperties DEF s, t
<1>3. \A i \in 1..2 : (s \o t)[i] = u[i]
  BY <1>1, <1>2 DEF u
<1>4. s \o t = u
  BY <1>1, <1>2, <1>3, SeqEqual DEF u
<1> QED BY <1>1, <1>4 DEF s, t, u

-----------------------------------------------------------------------------
(* FlattenSeq.                                                             *)

\* f concatenates the first i sequences of ss, for each i up to n.
Flattens(f, ss, n) ==
  f = [i \in 1..n |-> IF i = 1 THEN ss[i] ELSE f[i - 1] \o ss[i]]

\* The recursion has a solution for every length.
LEMMA FlattensExists ==
  ASSUME NEW ss, NEW N \in Nat
  PROVE  \E f : Flattens(f, ss, N)
<1> DEFINE T == {n \in Nat : \E f : Flattens(f, ss, n)}
<1>1. 0 \in T
  <2> DEFINE e == [i \in 1..0 |-> ss[i]]
  <2>1. e = [i \in 1..0 |-> IF i = 1 THEN ss[i] ELSE e[i - 1] \o ss[i]]
    OBVIOUS
  <2>2. Flattens(e, ss, 0)
    BY <2>1 DEF Flattens
  <2> QED BY <2>2
<1>2. ASSUME NEW n \in Nat, n \in T PROVE n + 1 \in T
  <2>1. PICK f : Flattens(f, ss, n)
    BY <1>2
  <2> DEFINE last == IF n = 0 THEN ss[1] ELSE f[n] \o ss[n + 1]
             h == [i \in 1..(n + 1) |-> IF i = n + 1 THEN last ELSE f[i]]
  <2>2. \A i \in 1..(n + 1) : h[i] = IF i = 1 THEN ss[i] ELSE h[i - 1] \o ss[i]
    <3> SUFFICES ASSUME NEW i \in 1..(n + 1)
                 PROVE  h[i] = IF i = 1 THEN ss[i] ELSE h[i - 1] \o ss[i]
      OBVIOUS
    <3>1. CASE i = n + 1
      BY <3>1
    <3>2. CASE i \in 1..n
      <4>1. f[i] = IF i = 1 THEN ss[i] ELSE f[i - 1] \o ss[i]
        BY <2>1, <3>2 DEF Flattens
      <4> QED BY <3>2, <4>1
    <3> QED BY <3>1, <3>2
  <2>3. Flattens(h, ss, n + 1)
    BY <2>2 DEF Flattens
  <2> HIDE DEF h
  <2> QED BY <2>3
<1> HIDE DEF T
<1>3. T = Nat
  <2>1. T \subseteq Nat
    BY DEF T
  <2> QED BY <1>1, <1>2, <2>1, SetInduction
<1> QED BY <1>3 DEF T

\* FlattenSeq is the last value of a solution.
LEMMA FlattenSeqUnfold ==
  ASSUME NEW ss, Len(ss) \in Nat \ {0}
  PROVE  \E f : Flattens(f, ss, Len(ss)) /\ FlattenSeq(ss) = f[Len(ss)]
<1> DEFINE f == CHOOSE g : g = [i \in 1..Len(ss) |-> IF i = 1 THEN ss[i] ELSE g[i - 1] \o ss[i]]
<1>1. \E g : g = [i \in 1..Len(ss) |-> IF i = 1 THEN ss[i] ELSE g[i - 1] \o ss[i]]
  BY FlattensExists DEF Flattens
<1>2. f = [i \in 1..Len(ss) |-> IF i = 1 THEN ss[i] ELSE f[i - 1] \o ss[i]]
  BY <1>1
<1>3. FlattenSeq(ss) = f[Len(ss)]
  BY DEF FlattenSeq
<1> HIDE DEF f
<1>4. Flattens(f, ss, Len(ss))
  BY <1>2 DEF Flattens
<1> QED BY <1>3, <1>4

\* The empty directory holds nothing.
LEMMA FlattenSeqEmpty == FlattenSeq(<<>>) = <<>>
BY EmptySeq DEF FlattenSeq

\* Two solutions agree as long as the sequences they concatenate do.
LEMMA FlattensAgree ==
  ASSUME NEW ss, NEW tt, NEW f, NEW g, NEW k \in Nat, NEW n \in Nat,
         k <= n, Flattens(f, ss, k), Flattens(g, tt, n),
         \A i \in 1..k : ss[i] = tt[i]
  PROVE  \A i \in 1..k : f[i] = g[i]
<1> DEFINE T == {i \in Nat : i \in 1..k => f[i] = g[i]}
<1>1. 0 \in T
  OBVIOUS
<1>2. ASSUME NEW i \in Nat, i \in T PROVE i + 1 \in T
  <2> SUFFICES ASSUME i + 1 \in 1..k PROVE f[i + 1] = g[i + 1]
    OBVIOUS
  <2>1. /\ f[i + 1] = IF i + 1 = 1 THEN ss[i + 1] ELSE f[(i + 1) - 1] \o ss[i + 1]
        /\ g[i + 1] = IF i + 1 = 1 THEN tt[i + 1] ELSE g[(i + 1) - 1] \o tt[i + 1]
    <3>1. i + 1 \in 1..k /\ i + 1 \in 1..n
      OBVIOUS
    <3> QED BY <3>1 DEF Flattens
  <2>2. (i + 1) - 1 = i /\ (i + 1 # 1 => f[i] = g[i])
    BY <1>2
  <2>3. ss[i + 1] = tt[i + 1]
    OBVIOUS
  <2> QED BY <2>1, <2>2, <2>3
<1> HIDE DEF T
<1>3. T = Nat
  <2>1. T \subseteq Nat
    BY DEF T
  <2> QED BY <1>1, <1>2, <2>1, SetInduction
<1> QED BY <1>3 DEF T

\* A solution over sequences of S has sequences of S as its values.
LEMMA FlattensType ==
  ASSUME NEW S, NEW ss \in Seq(Seq(S)), NEW f, Flattens(f, ss, Len(ss))
  PROVE  \A i \in 1..Len(ss) : f[i] \in Seq(S)
<1> DEFINE T == {i \in Nat : i \in 1..Len(ss) => f[i] \in Seq(S)}
<1>0. Len(ss) \in Nat /\ \A i \in 1..Len(ss) : ss[i] \in Seq(S)
  BY LenProperties, ElementOfSeq
<1>1. 0 \in T
  OBVIOUS
<1>2. ASSUME NEW i \in Nat, i \in T PROVE i + 1 \in T
  <2> SUFFICES ASSUME i + 1 \in 1..Len(ss) PROVE f[i + 1] \in Seq(S)
    OBVIOUS
  <2>1. f[i + 1] = IF i + 1 = 1 THEN ss[i + 1] ELSE f[(i + 1) - 1] \o ss[i + 1]
    BY DEF Flattens
  <2>2. (i + 1) - 1 = i /\ (i + 1 # 1 => f[i] \in Seq(S))
    BY <1>0, <1>2
  <2>3. ss[i + 1] \in Seq(S)
    BY <1>0
  <2> QED BY <2>1, <2>2, <2>3, ConcatProperties
<1> HIDE DEF T
<1>3. T = Nat
  <2>1. T \subseteq Nat
    BY DEF T
  <2> QED BY <1>1, <1>2, <2>1, SetInduction
<1>4. \A i \in 1..Len(ss) : i \in Nat
  BY <1>0
<1> QED BY <1>3, <1>4 DEF T

\* Flattening sequences of S gives a sequence of S.
LEMMA FlattenSeqType ==
  ASSUME NEW S, NEW ss \in Seq(Seq(S))
  PROVE  FlattenSeq(ss) \in Seq(S)
<1>1. Len(ss) \in Nat
  BY LenProperties
<1>2. CASE Len(ss) = 0
  BY <1>2, EmptySeq, FlattenSeqEmpty
<1>3. CASE Len(ss) # 0
  <2>1. PICK f : Flattens(f, ss, Len(ss)) /\ FlattenSeq(ss) = f[Len(ss)]
    BY <1>1, <1>3, FlattenSeqUnfold
  <2>2. Len(ss) \in 1..Len(ss)
    BY <1>1, <1>3
  <2> QED BY <2>1, <2>2, FlattensType
<1> QED BY <1>2, <1>3

\* One sequence more is appended to the result.
LEMMA FlattenSeqAppend ==
  ASSUME NEW S, NEW ss \in Seq(Seq(S)), NEW s \in Seq(S)
  PROVE  FlattenSeq(Append(ss, s)) = FlattenSeq(ss) \o s
<1> DEFINE tt == Append(ss, s)
           n == Len(ss)
<1>1. /\ n \in Nat /\ Len(tt) = n + 1 /\ tt[n + 1] = s
      /\ \A i \in 1..n : tt[i] = ss[i]
  BY LenProperties, AppendProperties
<1> HIDE DEF tt, n
<1>2. PICK g : Flattens(g, tt, n + 1) /\ FlattenSeq(tt) = g[n + 1]
  BY <1>1, FlattenSeqUnfold, SMTT(20)
<1>3. g[n + 1] = IF n + 1 = 1 THEN tt[n + 1] ELSE g[(n + 1) - 1] \o tt[n + 1]
  <2>1. n + 1 \in 1..(n + 1)
    BY <1>1
  <2> QED BY <1>2, <2>1 DEF Flattens
<1>4. CASE n = 0
  <2>1. FlattenSeq(ss) = <<>>
    BY <1>4, EmptySeq, FlattenSeqEmpty DEF n
  <2>2. <<>> \o s = s
    BY ConcatEmptySeq
  <2> QED BY <1>1, <1>2, <1>3, <1>4, <2>1, <2>2 DEF tt
<1>5. CASE n # 0
  <2>1. PICK f : Flattens(f, ss, n) /\ FlattenSeq(ss) = f[n]
    BY <1>1, <1>5, FlattenSeqUnfold DEF n
  <2>2. /\ n + 1 \in Nat /\ n \in Nat /\ n <= n + 1 /\ n <= n /\ n \in 1..n
        /\ (n + 1) - 1 = n /\ n + 1 # 1
    BY <1>1, <1>5
  <2>3. \A i \in 1..n : f[i] = g[i]
    <3>1. \A i \in 1..n : ss[i] = tt[i]
      BY <1>1
    <3> QED BY <1>2, <2>1, <2>2, <3>1, FlattensAgree
  <2> QED BY <1>1, <1>2, <1>3, <2>1, <2>2, <2>3 DEF tt
<1> QED BY <1>4, <1>5

\* The last sequence of ss and the ones before it.
LEMMA LastOfSeq ==
  ASSUME NEW S, NEW ss \in Seq(S), Len(ss) > 0
  PROVE  \E front \in Seq(S), last \in S :
           ss = Append(front, last) /\ Len(front) = Len(ss) - 1 /\ last = ss[Len(ss)]
<1>1. ss # <<>>
  BY EmptySeq
<1>2. PICK front \in Seq(S), last \in S : ss = Append(front, last)
  BY <1>1, SequenceEmptyOrAppend
<1>3. Len(ss) = Len(front) + 1 /\ ss[Len(front) + 1] = last /\ Len(front) \in Nat
  BY <1>2, LenProperties, AppendProperties
<1> QED BY <1>2, <1>3

\* What is appended to the last sequence is appended to the result.
LEMMA FlattenSeqExtend ==
  ASSUME NEW S, NEW ss \in Seq(Seq(S)), NEW t \in Seq(S), NEW tt \in Seq(Seq(S))
  PROVE  /\ Len(ss) > 0 /\ Len(tt) = Len(ss) /\ tt[Len(ss)] = ss[Len(ss)] \o t
         /\ \A i \in 1..(Len(ss) - 1) : tt[i] = ss[i]
         => FlattenSeq(tt) = FlattenSeq(ss) \o t
<1>0. ASSUME Len(ss) > 0, Len(tt) = Len(ss), tt[Len(ss)] = ss[Len(ss)] \o t,
             \A i \in 1..(Len(ss) - 1) : tt[i] = ss[i]
      PROVE  FlattenSeq(tt) = FlattenSeq(ss) \o t
  <2>1. PICK front \in Seq(Seq(S)), last \in Seq(S) :
          ss = Append(front, last) /\ Len(front) = Len(ss) - 1 /\ last = ss[Len(ss)]
    BY <1>0, LastOfSeq
  <2>2. PICK u \in Seq(S) : u = last \o t
    BY ConcatProperties
  <2>3. tt = Append(front, u)
    <3>0. tt[Len(ss)] = u
      BY <1>0, <2>1, <2>2
    <3>1. /\ Len(Append(front, u)) = Len(tt) /\ Len(tt) \in Nat
          /\ Append(front, u) \in Seq(Seq(S)) /\ Len(front) + 1 = Len(tt)
      BY <1>0, <2>1, LenProperties, AppendProperties
    <3>2. ASSUME NEW i \in 1..Len(tt) PROVE tt[i] = Append(front, u)[i]
      <4>1. CASE i = Len(tt)
        <5>1. Append(front, u)[Len(front) + 1] = u
          BY AppendProperties
        <5> QED BY <1>0, <3>0, <3>1, <4>1, <5>1
      <4>2. CASE i \in 1..(Len(tt) - 1)
        <5>1. tt[i] = ss[i] /\ i \in 1..Len(front)
          BY <1>0, <2>1, <4>2
        <5>2. ss[i] = front[i] /\ Append(front, u)[i] = front[i]
          BY <2>1, <5>1, AppendProperties
        <5> QED BY <5>1, <5>2
      <4> QED BY <3>1, <4>1, <4>2, SMTT(20)
    <3> QED BY <3>1, <3>2, SeqEqual
  <2>4. PICK a \in Seq(S) : a = FlattenSeq(front)
    BY FlattenSeqType
  <2>5. FlattenSeq(tt) = a \o u
    BY <2>3, <2>4, FlattenSeqAppend
  <2>6. FlattenSeq(ss) = a \o last
    BY <2>1, <2>4, FlattenSeqAppend
  <2>7. (a \o last) \o t = a \o (last \o t)
    BY ConcatAssociative, SMTT(20)
  <2> QED BY <2>2, <2>5, <2>6, <2>7
<1> QED BY <1>0

\* Empty sequences add nothing.
LEMMA FlattenSeqAllEmpty ==
  ASSUME NEW ss, Len(ss) \in Nat, \A i \in 1..Len(ss) : ss[i] = <<>>, Len(ss) = 0 => ss = <<>>
  PROVE  FlattenSeq(ss) = <<>>
<1>1. CASE Len(ss) = 0
  BY <1>1, FlattenSeqEmpty
<1>2. CASE Len(ss) # 0
  <2>1. PICK f : Flattens(f, ss, Len(ss)) /\ FlattenSeq(ss) = f[Len(ss)]
    BY <1>2, FlattenSeqUnfold
  <2> DEFINE T == {i \in Nat : i \in 1..Len(ss) => f[i] = <<>>}
  <2>2. 0 \in T
    OBVIOUS
  <2>3. ASSUME NEW i \in Nat, i \in T PROVE i + 1 \in T
    <3> SUFFICES ASSUME i + 1 \in 1..Len(ss) PROVE f[i + 1] = <<>>
      OBVIOUS
    <3>1. f[i + 1] = IF i + 1 = 1 THEN ss[i + 1] ELSE f[(i + 1) - 1] \o ss[i + 1]
      BY <2>1 DEF Flattens
    <3>2. (i + 1) - 1 = i /\ (i + 1 # 1 => f[i] = <<>>) /\ ss[i + 1] = <<>>
      BY <2>3
    <3>3. <<>> \o <<>> = <<>>
      BY EmptySeq, ConcatEmptySeq
    <3> QED BY <3>1, <3>2, <3>3
  <2> HIDE DEF T
  <2>4. T = Nat
    <3>1. T \subseteq Nat
      BY DEF T
    <3> QED BY <2>2, <2>3, <3>1, SetInduction
  <2>5. Len(ss) \in 1..Len(ss)
    BY <1>2
  <2> QED BY <2>1, <2>4, <2>5 DEF T
<1> QED BY <1>1, <1>2

\* What is flattened in two parts.
LEMMA FlattenSeqConcat ==
  ASSUME NEW S, NEW ss \in Seq(Seq(S)), NEW tt \in Seq(Seq(S))
  PROVE  FlattenSeq(ss \o tt) = FlattenSeq(ss) \o FlattenSeq(tt)
<1> DEFINE T == {n \in Nat : \A uu \in Seq(Seq(S)) : Len(uu) = n =>
                   FlattenSeq(ss \o uu) = FlattenSeq(ss) \o FlattenSeq(uu)}
<1>0. FlattenSeq(ss) \in Seq(S)
  BY FlattenSeqType
<1>1. 0 \in T
  <2> SUFFICES ASSUME NEW uu \in Seq(Seq(S)), Len(uu) = 0
               PROVE  FlattenSeq(ss \o uu) = FlattenSeq(ss) \o FlattenSeq(uu)
    OBVIOUS
  <2>1. uu = <<>>
    BY EmptySeq
  <2>2. ss \o <<>> = ss /\ FlattenSeq(ss) \o <<>> = FlattenSeq(ss)
    BY <1>0, ConcatEmptySeq
  <2> QED BY <2>1, <2>2, FlattenSeqEmpty
<1> HIDE DEF T
<1>2. ASSUME NEW n \in Nat, n \in T PROVE n + 1 \in T
  <2> SUFFICES ASSUME NEW uu \in Seq(Seq(S)), Len(uu) = n + 1
               PROVE  FlattenSeq(ss \o uu) = FlattenSeq(ss) \o FlattenSeq(uu)
    BY DEF T
  <2>1. PICK front \in Seq(Seq(S)), last \in Seq(S) :
          uu = Append(front, last) /\ Len(front) = Len(uu) - 1
    <3>1. Len(uu) > 0
      OBVIOUS
    <3> QED BY <3>1, LastOfSeq
  <2>2. FlattenSeq(ss \o front) = FlattenSeq(ss) \o FlattenSeq(front)
    <3>1. Len(front) = n
      BY <2>1
    <3> QED BY <1>2, <3>1 DEF T
  <2>3. ss \o uu = Append(ss \o front, last) /\ ss \o front \in Seq(Seq(S))
    <3>1. /\ uu = front \o <<last>> /\ <<last>> \in Seq(Seq(S))
          /\ ss \o front \in Seq(Seq(S))
          /\ Append(ss \o front, last) = (ss \o front) \o <<last>>
      BY <2>1, AppendIsConcat, ConcatProperties
    <3>2. PICK l \in Seq(Seq(S)) : l = <<last>>
      BY <3>1
    <3>3. (ss \o front) \o l = ss \o (front \o l)
      BY ConcatAssociative, SMTT(20)
    <3> QED BY <3>1, <3>2, <3>3
  <2>4. FlattenSeq(ss \o uu) = FlattenSeq(ss \o front) \o last
    BY <2>3, FlattenSeqAppend
  <2>5. FlattenSeq(uu) = FlattenSeq(front) \o last /\ FlattenSeq(front) \in Seq(S)
    BY <2>1, FlattenSeqAppend, FlattenSeqType
  <2>6. (FlattenSeq(ss) \o FlattenSeq(front)) \o last
          = FlattenSeq(ss) \o (FlattenSeq(front) \o last)
    <3>1. PICK a \in Seq(S), b \in Seq(S) : a = FlattenSeq(ss) /\ b = FlattenSeq(front)
      BY <1>0, <2>5
    <3>2. (a \o b) \o last = a \o (b \o last)
      BY ConcatAssociative, SMTT(20)
    <3> QED BY <3>1, <3>2
  <2> QED BY <2>2, <2>4, <2>5, <2>6
<1>3. T = Nat
  <2>1. T \subseteq Nat
    BY DEF T
  <2> QED BY <1>1, <1>2, <2>1, SetInduction
<1>4. Len(tt) \in T
  BY <1>3, LenProperties
<1> QED BY <1>4 DEF T

\* A sequence cut in two.
LEMMA CutInTwo ==
  ASSUME NEW S, NEW s \in Seq(S), NEW k \in 0..Len(s)
  PROVE  /\ SubSeq(s, 1, k) \in Seq(S) /\ SubSeq(s, k + 1, Len(s)) \in Seq(S)
         /\ SubSeq(s, 1, k) \o SubSeq(s, k + 1, Len(s)) = s
<1>1. Len(s) \in Nat /\ k \in Nat /\ \A i \in 1..Len(s) : s[i] \in S
  BY LenProperties, ElementOfSeq
<1>2. SubSeq(s, 1, k) \in Seq(S)
  <2>1. \A i \in 1..k : s[i] \in S
    BY <1>1
  <2> QED BY <1>1, <2>1, SubSeqProperties
<1>3. SubSeq(s, k + 1, Len(s)) \in Seq(S)
  <2>1. \A i \in (k + 1)..Len(s) : s[i] \in S
    BY <1>1
  <2> QED BY <1>1, <2>1, SubSeqProperties
<1>4. SubSeq(s, 1, k) \o SubSeq(s, k + 1, Len(s)) = SubSeq(s, 1, Len(s))
  <2>1. 1 \in 1..(Len(s) + 1) /\ k \in (1 - 1)..Len(s) /\ Len(s) \in k..Len(s)
    BY <1>1
  <2> QED BY <2>1, ConcatAdjacentSubSeq
<1>5. SubSeq(s, 1, Len(s)) = s
  BY SubSeqFull
<1> QED BY <1>2, <1>3, <1>4, <1>5
=============================================================================
