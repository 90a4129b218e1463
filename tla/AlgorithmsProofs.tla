------------------------- MODULE AlgorithmsProofs -------------------------
(***************************************************************************)
(* Proofs about the sequential algorithms.                                 *)
(*                                                                         *)
(* bit::BitBuffer and writeBin.hpp: a buffer of bytes of any width reads   *)
(* as the bits put into it, however they were put there, and a file as the *)
(* bits written to it.                                                     *)
(*                                                                         *)
(* autoCorrectFilter: what it answers, for any dictionary, keyboard and    *)
(* word, can be typed with the edits it charges for, and no other word it  *)
(* may choose costs less.                                                  *)
(***************************************************************************)
EXTENDS AutoCorrect, BitBuffer, LoopTheorems, SequenceTheorems

(* bit::BitBuffer *)

LEMMA Larger == \A n, a, b \in Nat : a <= b => n * a <= n * b
<1> SUFFICES ASSUME NEW n \in Nat, NEW a \in Nat, NEW b \in Nat, a <= b PROVE n * a <= n * b
  OBVIOUS
<1>1. b - a \in Nat /\ b = a + (b - a)
  OBVIOUS
<1>2. n * b = n * a + n * (b - a)
  BY <1>1
<1>3. n * (b - a) \in Nat
  BY <1>1
<1>4. n * a \in Nat /\ n * b \in Nat
  OBVIOUS
<1> QED  BY <1>2, <1>3, <1>4

\* Bit r of byte q, both from 0, is bit N * q + r of all.
LEMMA PlaceOf ==
  ASSUME NEW n \in Nat \ {0}, NEW i \in Nat
  PROVE  i \div n \in Nat /\ i % n \in 0..(n - 1) /\ i = n * (i \div n) + (i % n)
OBVIOUS

LEMMA PlaceIs ==
  ASSUME NEW n \in Nat \ {0}, NEW q \in Nat, NEW r \in 0..(n - 1)
  PROVE  (n * q + r) \div n = q /\ (n * q + r) % n = r
<1> DEFINE i == n * q + r
           p == i \div n
<1>1. i \in Nat /\ p \in Nat /\ i % n \in 0..(n - 1) /\ i = n * p + (i % n)
  BY PlaceOf
<1>2. ~ (p > q)
  <2> SUFFICES ASSUME q + 1 <= p PROVE FALSE
    BY <1>1
  <2>1. n * (q + 1) <= n * p
    BY <1>1, Larger
  <2>2. n * (q + 1) = n * q + n
    OBVIOUS
  <2> HIDE DEF p
  <2> QED  BY <1>1, <2>1, <2>2
<1>3. ~ (p < q)
  <2> SUFFICES ASSUME p + 1 <= q PROVE FALSE
    BY <1>1
  <2>1. n * (p + 1) <= n * q
    BY <1>1, Larger
  <2>2. n * (p + 1) = n * p + n
    BY <1>1
  <2> HIDE DEF p
  <2> QED  BY <1>1, <2>1, <2>2
<1> QED  BY <1>1, <1>2, <1>3

LEMMA Below ==
  ASSUME NEW n \in Nat \ {0}, NEW q \in Nat, NEW r \in 0..(n - 1), NEW l \in Nat
  PROVE  q < l <=> n * q + r < l * n
<1>1. ASSUME q < l PROVE n * q + r < l * n
  <2>1. n * (q + 1) <= n * l
    BY <1>1, Larger
  <2> QED  BY <2>1
<1>2. ASSUME q >= l PROVE ~ (n * q + r < l * n)
  <2>1. n * l <= n * q
    BY <1>2, Larger
  <2> QED  BY <2>1
<1> QED  BY <1>1, <1>2
-----------------------------------------------------------------------------
LEMMA Evens == \A a, m \in Int : (a + 2 * m) % 2 = a % 2 /\ (a + 2 * m) \div 2 = (a \div 2) + m
OBVIOUS

\* What the mask makes of a number whose bit o becomes another.
Flip(v, o, bit) == v + (bit - BitOf(v, o)) * mask(o)

\* Adding or taking away a mask changes its bit and no other.
LEMMA FlipBit ==
  ASSUME NEW v \in Int, NEW o \in Nat, NEW bit \in {0, 1}
  PROVE  /\ Flip(v, o, bit) \in Int
         /\ BitOf(Flip(v, o, bit), o) = bit
         /\ \A j \in Nat : j # o => BitOf(Flip(v, o, bit), j) = BitOf(v, j)
<1> DEFINE u == Flip(v, o, bit)
           d == bit - BitOf(v, o)
<1>1. BitOf(v, o) \in {0, 1} /\ (d = -1 \/ d = 0 \/ d = 1) /\ d \in Int /\ mask(o) \in Nat
  <2>1. BitOf(v, o) \in {0, 1} /\ mask(o) \in Nat
    BY BitFacts, MaskFacts
  <2> QED  BY <2>1
<1>2. u \in Int
  BY <1>1 DEF Flip
<1> DEFINE x(j) == shiftRight(v, j)
           y(j) == shiftRight(u, j)
<1>3. \A j \in Nat : x(j) \in Int /\ y(j) \in Int /\ x(j + 1) = x(j) \div 2 /\ y(j + 1) = y(j) \div 2
  BY <1>2, ShiftFacts
<1> DEFINE S == {j \in 0..o : y(j) = x(j) + d * mask(o - j)}
<1>4. 0 \in S
  BY <1>1, <1>2, ShiftFacts DEF Flip
<1>5. \A j \in 0..(o - 1) : j \in S => j + 1 \in S
  <2> SUFFICES ASSUME NEW j \in 0..(o - 1), y(j) = x(j) + d * mask(o - j)
               PROVE  y(j + 1) = x(j + 1) + d * mask(o - (j + 1))
    OBVIOUS
  <2> DEFINE m == mask(o - (j + 1))
             a == x(j)
  <2>1. m \in Nat /\ mask(o - j) = 2 * m
    <3>1. o - (j + 1) \in Nat /\ (o - (j + 1)) + 1 = o - j
      OBVIOUS
    <3> QED  BY <3>1, MaskFacts
  <2>2. a \in Int /\ y(j) = a + d * (2 * m) /\ x(j + 1) = a \div 2 /\ y(j + 1) = y(j) \div 2
    BY <1>3, <2>1
  <2> HIDE DEF m, a, x, y, d
  <2>3. y(j) \div 2 = (a \div 2) + d * m
    <3>1. CASE d = -1
      BY <2>1, <2>2, <3>1
    <3>2. CASE d = 0
      BY <2>1, <2>2, <3>2
    <3>3. CASE d = 1
      BY <2>1, <2>2, <3>3
    <3> QED  BY <1>1, <3>1, <3>2, <3>3
  <2> QED  BY <2>2, <2>3 DEF m
<1>6. \A j \in 0..o : y(j) = x(j) + d * mask(o - j)
  <2>1. \A j \in 0..o : j \in S
    <3> HIDE DEF S
    <3> QED  BY <1>4, <1>5, InductionTo
  <2> QED  BY <2>1
<1>7. y(o) = x(o) + d /\ x(o) % 2 = BitOf(v, o)
  BY <1>1, <1>6, MaskFacts DEF BitOf
<1>8. y(o) % 2 = bit /\ y(o) \div 2 = x(o) \div 2
  <2> DEFINE a == x(o)
             b == BitOf(v, o)
             c == y(o)
  <2>1. a \in Int /\ a % 2 = b /\ d = bit - b /\ b \in {0, 1} /\ c = a + d
    BY <1>1, <1>3, <1>7
  <2> HIDE DEF a, b, c, d
  <2>2. c % 2 = bit /\ c \div 2 = a \div 2
    <3>1. CASE b = 0
      BY <2>1, <3>1
    <3>2. CASE b = 1
      BY <2>1, <3>2
    <3> QED  BY <2>1, <3>1, <3>2
  <2> QED  BY <2>2 DEF a, c
<1>9. ASSUME NEW j \in 0..(o - 1) PROVE y(j) % 2 = x(j) % 2
  <2> DEFINE m == mask((o - 1) - j)
             a == x(j)
  <2>1. m \in Nat /\ mask(o - j) = 2 * m
    <3>1. (o - 1) - j \in Nat /\ ((o - 1) - j) + 1 = o - j
      OBVIOUS
    <3> QED  BY <3>1, MaskFacts
  <2>2. a \in Int /\ y(j) = a + d * (2 * m)
    BY <1>3, <1>6, <2>1
  <2> HIDE DEF m, a, d, y, x
  <2>3. d * m \in Int /\ y(j) = a + 2 * (d * m)
    BY <1>1, <2>1, <2>2
  <2>4. y(j) % 2 = a % 2
    BY <2>2, <2>3, Evens
  <2> QED  BY <2>4 DEF a
<1> DEFINE U == {j \in Nat : j > o => y(j) = x(j)}
<1>10. \A j \in Nat : j \in U => j + 1 \in U
  <2> SUFFICES ASSUME NEW j \in Nat, j > o => y(j) = x(j), j + 1 > o PROVE y(j + 1) = x(j + 1)
    OBVIOUS
  <2>1. CASE j = o
    BY <1>3, <1>8, <2>1
  <2>2. CASE j # o
    <3>1. y(j) = x(j)
      BY <2>2
    <3> QED  BY <1>3, <3>1
  <2> QED  BY <2>1, <2>2
<1>11. \A j \in Nat : j \in U
  <2>1. 0 \in U
    OBVIOUS
  <2> HIDE DEF U
  <2> QED  BY <1>10, <2>1, Induction
<1> HIDE DEF u
<1>12. ASSUME NEW j \in Nat, j # o PROVE y(j) % 2 = x(j) % 2
  <2>1. CASE j > o
    BY <1>11, <2>1
  <2>2. CASE j < o
    BY <1>9, <2>2
  <2> QED  BY <1>12, <2>1, <2>2
<1>13. BitOf(u, o) = bit
  BY <1>8 DEF BitOf
<1>14. \A j \in Nat : j # o => BitOf(u, j) = BitOf(v, j)
  BY <1>12 DEF BitOf
<1> QED  BY <1>2, <1>13, <1>14 DEF u
-----------------------------------------------------------------------------
Bit == {0, 1}

\* Bit r of byte q, both from 0, the first bit at the top.
Slot(bytes, q, r) == BitOf(bytes[q + 1], ByteBits - 1 - r)

\* The buffer has room for the bits and reads as them, and as 0 after them.
ReadsAs(bytes, bits) ==
  \A q \in 0..(Len(bytes) - 1), r \in 0..(ByteBits - 1) :
    Slot(bytes, q, r) = IF ByteBits * q + r < Len(bits) THEN bits[ByteBits * q + r + 1] ELSE 0

Holds(b, bits) ==
  /\ b \in [bytes : Seq(Int), count : Nat]
  /\ bits \in Seq(Bit)
  /\ b.count = Len(bits)
  /\ Len(b.bytes) = BytesFor(Len(bits))
  /\ ReadsAs(b.bytes, bits)

LEMMA BytesForIs ==
  ASSUME NEW q \in Nat, NEW r \in 0..(ByteBits - 1)
  PROVE  /\ BytesFor(ByteBits * q + r) = IF r = 0 THEN q ELSE q + 1
         /\ BytesFor(ByteBits * q + r + 1) = q + 1
<1> DEFINE n == ByteBits
<1>1. n \in Nat \ {0}
  BY BitsAssumption
<1>2. (n * q + r + n - 1) \div n = IF r = 0 THEN q ELSE q + 1
  <2>1. CASE r = 0
    <3>1. n - 1 \in 0..(n - 1) /\ n * q + r + n - 1 = n * q + (n - 1)
      BY <1>1, <2>1
    <3> HIDE DEF n
    <3> QED  BY <1>1, <2>1, <3>1, PlaceIs
  <2>2. CASE r # 0
    <3>1. r - 1 \in 0..(n - 1) /\ n * q + r + n - 1 = n * (q + 1) + (r - 1) /\ q + 1 \in Nat
      BY <1>1, <2>2
    <3>2. (n * (q + 1) + (r - 1)) \div n = q + 1
      <4> HIDE DEF n
      <4> QED  BY <1>1, <3>1, PlaceIs
    <3> QED  BY <2>2, <3>1, <3>2
  <2> QED  BY <2>1, <2>2
<1>3. (n * q + r + 1 + n - 1) \div n = q + 1
  <2>1. n * q + r + 1 + n - 1 = n * (q + 1) + r /\ q + 1 \in Nat /\ r \in 0..(n - 1)
    BY <1>1
  <2>2. (n * (q + 1) + r) \div n = q + 1
    <3> HIDE DEF n
    <3> QED  BY <1>1, <2>1, PlaceIs
  <2> QED  BY <2>1, <2>2
<1> QED  BY <1>2, <1>3 DEF BytesFor

\* Bit i of a buffer's bytes is bit r of byte q.
IsAt(b, i, q, r) ==
  /\ b \in [bytes : Seq(Int), count : Nat]
  /\ q \in 0..(Len(b.bytes) - 1) /\ r \in 0..(ByteBits - 1)
  /\ i = ByteBits * q + r

\* The buffers b and c differ in that bit alone.
OnlyBit(b, c, q, r, bit) ==
  /\ c \in [bytes : Seq(Int), count : Nat]
  /\ c.count = b.count /\ Len(c.bytes) = Len(b.bytes)
  /\ Slot(c.bytes, q, r) = bit
  /\ \A p \in 0..(Len(b.bytes) - 1), s \in 0..(ByteBits - 1) :
       p # q \/ s # r => Slot(c.bytes, p, s) = Slot(b.bytes, p, s)

\* operator[] and the BitRef reach the bit and no other.
LEMMA SetBitSets ==
  ASSUME NEW b, NEW i, NEW q, NEW r, IsAt(b, i, q, r), NEW bit \in Bit
  PROVE  OnlyBit(b, SetBit(b, i, bit), q, r, bit)
<1> DEFINE c == SetBit(b, i, bit)
           o == ByteBits - 1 - r
           v == b.bytes[q + 1]
           u == Flip(v, o, bit)
<1>0. b \in [bytes : Seq(Int), count : Nat] /\ q \in 0..(Len(b.bytes) - 1)
      /\ r \in 0..(ByteBits - 1) /\ i = ByteBits * q + r
  BY DEF IsAt
<1>1. ByteBits \in Nat \ {0} /\ q \in Nat /\ o \in Nat /\ b.bytes \in Seq(Int)
      /\ q + 1 \in 1..Len(b.bytes) /\ v \in Int
  BY <1>0, BitsAssumption
<1>2. i \div ByteBits = q /\ i % ByteBits = r
  BY <1>0, <1>1, PlaceIs
<1>3. c = [b EXCEPT !.bytes[q + 1] = u]
  BY <1>2 DEF SetBit, BitAt, bitOffset, Flip
<1>4. u \in Int /\ BitOf(u, o) = bit /\ \A j \in Nat : j # o => BitOf(u, j) = BitOf(v, j)
  <2>2. o \in Nat /\ v \in Int /\ bit \in {0, 1}
    BY <1>1 DEF Bit
  <2> HIDE DEF o, v
  <2>3. u \in Int
    BY <2>2, FlipBit
  <2>4. BitOf(u, o) = bit
    BY <2>2, FlipBit
  <2>5. \A j \in Nat : j # o => BitOf(u, j) = BitOf(v, j)
    BY <2>2, FlipBit
  <2> QED  BY <2>3, <2>4, <2>5
<1> HIDE DEF u, o, c
<1>5. c.bytes = [b.bytes EXCEPT ![q + 1] = u] /\ c.count = b.count
      /\ c = [bytes |-> c.bytes, count |-> c.count]
  BY <1>0, <1>3
<1>6. c.bytes \in Seq(Int) /\ Len(c.bytes) = Len(b.bytes) /\ c.bytes[q + 1] = u
      /\ \A p \in 0..(Len(b.bytes) - 1) : p # q => c.bytes[p + 1] = b.bytes[p + 1]
  <2>1. c.bytes = [b.bytes EXCEPT ![q + 1] = u] /\ u \in Int /\ b.bytes \in Seq(Int)
        /\ q + 1 \in 1..Len(b.bytes) /\ q \in Nat
    BY <1>1, <1>4, <1>5
  <2> DEFINE w == b.bytes
  <2> HIDE DEF w
  <2>2. [w EXCEPT ![q + 1] = u] \in Seq(Int)
    BY <2>1 DEF w
  <2>3. Len([w EXCEPT ![q + 1] = u]) = Len(w)
    BY <2>1 DEF w
  <2>4. \A p \in 0..(Len(w) - 1) : p # q => [w EXCEPT ![q + 1] = u][p + 1] = w[p + 1]
    BY <2>1 DEF w
  <2>5. [w EXCEPT ![q + 1] = u][q + 1] = u
    BY <2>1 DEF w
  <2> QED  BY <2>1, <2>2, <2>3, <2>4, <2>5 DEF w
<1>7. Slot(c.bytes, q, r) = bit
  BY <1>4, <1>6 DEF Slot, o
<1>8. ASSUME NEW p \in 0..(Len(b.bytes) - 1), NEW s \in 0..(ByteBits - 1), p # q \/ s # r
      PROVE  Slot(c.bytes, p, s) = Slot(b.bytes, p, s)
  <2>1. CASE p # q
    BY <1>6, <2>1 DEF Slot
  <2>2. CASE p = q
    <3>1. ByteBits - 1 - s \in Nat /\ ByteBits - 1 - s # o
      BY <1>0, <1>1, <1>8, <2>2 DEF o
    <3> QED  BY <1>4, <1>6, <2>2, <3>1 DEF Slot
  <2> QED  BY <2>1, <2>2
<1>9. c \in [bytes : Seq(Int), count : Nat]
  BY <1>0, <1>5, <1>6
<1> QED  BY <1>5, <1>6, <1>7, <1>8, <1>9 DEF OnlyBit, c
-----------------------------------------------------------------------------
LEMMA ZeroBits == \A j \in Nat : BitOf(0, j) = 0
<1> DEFINE S == {j \in Nat : shiftRight(0, j) = 0}
<1>1. 0 \in S
  BY ShiftFacts
<1>2. \A j \in Nat : j \in S => j + 1 \in S
  BY ShiftFacts
<1>3. \A j \in Nat : j \in S
  <2> HIDE DEF S
  <2> QED  BY <1>1, <1>2, Induction
<1> QED  BY <1>3 DEF BitOf

\* The place of a bit is its own.
LEMMA PlaceOwn ==
  ASSUME NEW q \in Nat, NEW r \in 0..(ByteBits - 1), NEW p \in Nat, NEW s \in 0..(ByteBits - 1),
         ByteBits * p + s = ByteBits * q + r
  PROVE  p = q /\ s = r
<1>1. (ByteBits * q + r) \div ByteBits = q /\ (ByteBits * q + r) % ByteBits = r
  BY BitsAssumption, PlaceIs
<1>2. (ByteBits * p + s) \div ByteBits = p /\ (ByteBits * p + s) % ByteBits = s
  BY BitsAssumption, PlaceIs
<1> QED  BY <1>1, <1>2

LEMMA GrownReads ==
  ASSUME NEW bytes \in Seq(Int), NEW bits \in Seq(Bit), ReadsAs(bytes, bits),
         Len(bits) = ByteBits * Len(bytes)
  PROVE  ReadsAs(Append(bytes, 0), bits)
<1> DEFINE grown == Append(bytes, 0)
<1>1. ByteBits \in Nat \ {0} /\ Len(bytes) \in Nat /\ Len(grown) = Len(bytes) + 1
  BY BitsAssumption
<1> SUFFICES ASSUME NEW p \in 0..(Len(grown) - 1), NEW s \in 0..(ByteBits - 1)
             PROVE  Slot(grown, p, s)
                      = IF ByteBits * p + s < Len(bits) THEN bits[ByteBits * p + s + 1] ELSE 0
  BY DEF ReadsAs
<1>2. CASE p < Len(bytes)
  <2>1. p \in 0..(Len(bytes) - 1) /\ p + 1 \in 1..Len(bytes)
    BY <1>1, <1>2
  <2>2. grown[p + 1] = bytes[p + 1]
    BY <2>1
  <2> HIDE DEF grown
  <2> QED  BY <2>1, <2>2 DEF ReadsAs, Slot
<1>3. CASE p = Len(bytes)
  <2>1. grown[p + 1] = 0
    BY <1>3
  <2>2. ~ (ByteBits * p + s < Len(bits))
    BY <1>1, <1>3
  <2>3. ByteBits - 1 - s \in Nat
    BY <1>1
  <2> HIDE DEF grown
  <2> QED  BY <2>1, <2>2, <2>3, ZeroBits DEF Slot
<1> QED  BY <1>1, <1>2, <1>3

\* push of a bit.
LEMMA PushBitHolds ==
  ASSUME NEW b, NEW bits, Holds(b, bits), NEW bit \in Bit
  PROVE  Holds(PushBit(b, bit), Append(bits, bit))
<1> DEFINE n == ByteBits
           i == Len(bits)
           q == i \div n
           r == i % n
           new == Append(bits, bit)
           grown == IF b.count % ByteBits = 0 THEN Append(b.bytes, 0) ELSE b.bytes
           room == [bytes |-> grown, count |-> b.count + 1]
           c == PushBit(b, bit)
<1>1. /\ b \in [bytes : Seq(Int), count : Nat] /\ bits \in Seq(Bit) /\ b.count = i /\ i \in Nat
      /\ b.bytes \in Seq(Int) /\ Len(b.bytes) = BytesFor(i) /\ ReadsAs(b.bytes, bits)
  BY DEF Holds
<1>2. n \in Nat \ {0} /\ q \in Nat /\ r \in 0..(n - 1) /\ i = n * q + r
  <2> HIDE DEF i
  <2> QED  BY <1>1, BitsAssumption, PlaceOf
<1>3. new \in Seq(Bit) /\ Len(new) = i + 1 /\ new[i + 1] = bit
      /\ \A k \in 1..i : new[k] = bits[k]
  BY <1>1
<1> HIDE DEF q, r, new
<1>4. grown \in Seq(Int) /\ Len(grown) = q + 1 /\ ReadsAs(grown, bits)
  <2> DEFINE bytes == b.bytes
  <2>0. Len(bytes) = IF r = 0 THEN q ELSE q + 1
    <3>1. BytesFor(n * q + r) = IF r = 0 THEN q ELSE q + 1
      BY <1>2, BytesForIs
    <3> QED  BY <1>1, <1>2, <3>1
  <2>1. CASE r = 0
    <3>1. Len(bytes) = q /\ Len(bits) = ByteBits * Len(bytes) /\ bytes \in Seq(Int)
      BY <1>1, <1>2, <2>0, <2>1
    <3>2. grown = Append(bytes, 0)
      BY <1>1, <2>1 DEF r
    <3> HIDE DEF bytes
    <3>3. ReadsAs(Append(bytes, 0), bits)
      BY <1>1, <3>1, GrownReads DEF bytes
    <3>4. Append(bytes, 0) \in Seq(Int) /\ Len(Append(bytes, 0)) = q + 1
      BY <3>1
    <3> HIDE DEF grown
    <3> QED  BY <3>2, <3>3, <3>4
  <2>2. CASE r # 0
    <3>1. Len(bytes) = q + 1
      BY <2>0, <2>2
    <3>2. grown = bytes
      BY <1>1, <2>2 DEF r
    <3> HIDE DEF grown
    <3> QED  BY <1>1, <3>1, <3>2
  <2> QED  BY <2>1, <2>2
<1> HIDE DEF grown
<1>5. room \in [bytes : Seq(Int), count : Nat] /\ room.bytes = grown /\ room.count = i + 1
  BY <1>1, <1>4
<1>6. q \in 0..(Len(grown) - 1) /\ Slot(grown, q, r) = 0
  <2>1. q \in 0..(Len(grown) - 1)
    BY <1>2, <1>4
  <2>2. ~ (n * q + r < i)
    BY <1>1, <1>2
  <2> HIDE DEF i
  <2> QED  BY <1>2, <1>4, <2>1, <2>2 DEF ReadsAs, i
<1>7. c = IF bit = 1 THEN SetBit(room, i, 1) ELSE room
  BY <1>1, <1>2 DEF PushBit, grown
<1> HIDE DEF room, c
<1>8. /\ c \in [bytes : Seq(Int), count : Nat] /\ c.count = i + 1 /\ Len(c.bytes) = q + 1
      /\ Slot(c.bytes, q, r) = bit
      /\ \A p \in 0..q, s \in 0..(n - 1) :
           p # q \/ s # r => Slot(c.bytes, p, s) = Slot(grown, p, s)
  <2>1. CASE bit = 1
    <3>1. c = SetBit(room, i, 1) /\ IsAt(room, i, q, r) /\ 1 \in Bit
      BY <1>2, <1>5, <1>6, <1>7, <2>1 DEF Bit, IsAt
    <3>2. /\ c \in [bytes : Seq(Int), count : Nat]
          /\ c.count = room.count /\ Len(c.bytes) = Len(room.bytes)
          /\ Slot(c.bytes, q, r) = 1
          /\ \A p \in 0..(Len(room.bytes) - 1), s \in 0..(ByteBits - 1) :
               p # q \/ s # r => Slot(c.bytes, p, s) = Slot(room.bytes, p, s)
      <4> HIDE DEF i
      <4>1. OnlyBit(room, c, q, r, 1)
        BY <3>1, SetBitSets
      <4> QED  BY <4>1 DEF OnlyBit
    <3>3. Len(room.bytes) - 1 = q
      BY <1>2, <1>4, <1>5
    <3> QED  BY <1>4, <1>5, <2>1, <3>2, <3>3
  <2>2. CASE bit # 1
    <3>1. c = room /\ bit = 0
      BY <1>7, <2>2 DEF Bit
    <3> QED  BY <1>4, <1>5, <1>6, <3>1
  <2> QED  BY <2>1, <2>2
<1>9. BytesFor(i + 1) = q + 1
  BY <1>2, BytesForIs
<1>10. ASSUME NEW p \in 0..(Len(c.bytes) - 1), NEW s \in 0..(ByteBits - 1)
       PROVE  Slot(c.bytes, p, s)
                = IF ByteBits * p + s < Len(new) THEN new[ByteBits * p + s + 1] ELSE 0
  <2> DEFINE k == n * p + s
  <2>1. p \in 0..q /\ p \in Nat /\ s \in 0..(n - 1) /\ k \in Nat /\ p \in 0..(Len(grown) - 1)
    <3>1. Len(c.bytes) - 1 = q /\ Len(grown) - 1 = q
      BY <1>2, <1>4, <1>8
    <3>2. p \in 0..q /\ p \in 0..(Len(grown) - 1) /\ p \in Nat
      BY <1>2, <3>1
    <3> QED  BY <1>2, <3>2
  <2>2. CASE p = q /\ s = r
    <3>1. k = i
      BY <1>2, <2>2
    <3> HIDE DEF k, i
    <3> QED  BY <1>1, <1>3, <1>8, <2>2, <3>1 DEF k
  <2>3. CASE ~ (p = q /\ s = r)
    <3>1. k # i
      <4>1. k = n * p + s /\ i = n * q + r
        BY <1>2
      <4> HIDE DEF k, i
      <4> QED  BY <1>2, <2>1, <2>3, <4>1, PlaceOwn
    <3>2. Slot(c.bytes, p, s) = Slot(grown, p, s)
      BY <1>8, <2>1, <2>3
    <3>3. Slot(grown, p, s) = IF k < i THEN bits[k + 1] ELSE 0
      BY <1>4, <2>1 DEF ReadsAs
    <3>4. k < i => k + 1 \in 1..i
      BY <1>1, <2>1
    <3>5. k < Len(new) <=> k < i
      BY <1>1, <1>3, <2>1, <3>1
    <3> HIDE DEF k, i
    <3>6. Slot(c.bytes, p, s) = IF k < Len(new) THEN new[k + 1] ELSE 0
      BY <1>3, <3>2, <3>3, <3>4, <3>5
    <3> QED  BY <3>6 DEF k
  <2> QED  BY <2>2, <2>3
<1>11. ReadsAs(c.bytes, new)
  BY <1>10 DEF ReadsAs
<1> QED  BY <1>3, <1>8, <1>9, <1>11 DEF Holds, c, new
-----------------------------------------------------------------------------
LEMMA HoldsTypes ==
  ASSUME NEW b, NEW bits, Holds(b, bits)
  PROVE  /\ b \in [bytes : Seq(Int), count : Nat] /\ b.bytes \in Seq(Int) /\ b.count = Len(bits)
         /\ bits \in Seq(Bit) /\ Len(bits) \in Nat /\ Len(b.bytes) = BytesFor(Len(bits))
BY DEF Holds

\* A sequence and the first k elements of another.
Joined(s, t, k) == s \o SubSeq(t, 1, k)

LEMMA JoinedNext ==
  ASSUME NEW S, NEW s \in Seq(S), NEW t \in Seq(S), NEW k \in 0..(Len(t) - 1)
  PROVE  Append(Joined(s, t, k), t[k + 1]) = Joined(s, t, k + 1)
<1> DEFINE u == SubSeq(t, 1, k)
           x == t[k + 1]
<1>1. Len(t) \in Nat /\ k \in Nat /\ k + 1 \in 1..Len(t) /\ 1 \in 1..Len(t) /\ (k + 1) - 1 = k
  BY LenProperties
<1>2. x \in S /\ \A j \in 1..k : t[j] \in S
  BY <1>1, ElementOfSeq
<1>3. u \in Seq(S)
  BY <1>1, <1>2, SubSeqProperties
<1>4. SubSeq(t, 1, k + 1) = SubSeq(t, 1, (k + 1) - 1) \o <<t[k + 1]>>
  BY <1>1, SubSeqRecursiveSecond
<1>5. SubSeq(t, 1, k + 1) = u \o <<x>>
  BY <1>1, <1>4
<1> HIDE DEF u, x
<1>6. Append(s \o u, x) = (s \o u) \o <<x>>
  <2>1. s \o u \in Seq(S)
    BY <1>3, ConcatProperties
  <2> QED  BY <1>2, <2>1, AppendIsConcat
<1>7. (s \o u) \o <<x>> = s \o (u \o <<x>>)
  <2>1. <<x>> \in Seq(S)
    BY <1>2
  <2> QED  BY <1>3, <2>1, ConcatAssociative
<1> QED  BY <1>5, <1>6, <1>7 DEF Joined, u, x

LEMMA JoinedGrows ==
  ASSUME NEW S, NEW s \in Seq(S), NEW t \in Seq(S)
  PROVE  /\ Joined(s, t, 0) = s
         /\ Joined(s, t, Len(t)) = s \o t
         /\ \A k \in 0..(Len(t) - 1) : Append(Joined(s, t, k), t[k + 1]) = Joined(s, t, k + 1)
<1>1. SubSeq(t, 1, 0) = <<>> /\ SubSeq(t, 1, Len(t)) = t /\ s \o <<>> = s
  BY SubSeqEmpty, SubSeqFull, ConcatEmptySeq
<1> QED  BY <1>1, JoinedNext DEF Joined

\* push of several bits.
LEMMA PushBitsHold ==
  ASSUME NEW b, NEW bits, Holds(b, bits), NEW more \in Seq(Bit)
  PROVE  Holds(PushBits(b, more), bits \o more)
<1> DEFINE n == Len(more)
           T == {c \in [bytes : Seq(Int), count : Nat] : \E some : Holds(c, some)}
           F(f) == f = [k \in 0..n |-> IF k = 0 THEN b ELSE PushBit(f[k - 1], more[k])]
           step == [k \in 1..n |-> [c \in T |-> PushBit(c, more[k])]]
<1>1. n \in Nat /\ b \in T /\ \A k \in 1..n : more[k] \in Bit
  BY HoldsTypes
<1>2. ASSUME NEW c \in T, NEW bit \in Bit PROVE PushBit(c, bit) \in T
  <2>1. PICK some : Holds(c, some)
    OBVIOUS
  <2>2. Holds(PushBit(c, bit), Append(some, bit))
    BY <2>1, PushBitHolds
  <2> QED  BY <2>2, HoldsTypes
<1>3. \E f : F(f)
  <2>1. step \in [1..n -> [T -> T]]
    <3> HIDE DEF T, n
    <3> QED  BY <1>1, <1>2
  <2>2. PICK f \in [0..n -> T] : Runs(f, b, step, n)
    <3> HIDE DEF step, n, T
    <3> QED  BY <1>1, <2>1, LoopRuns
  <2>3. ASSUME NEW k \in 0..n PROVE f[k] = IF k = 0 THEN b ELSE PushBit(f[k - 1], more[k])
    <3> HIDE DEF T, n
    <3>1. k # 0 => k \in 1..n /\ f[k - 1] \in T
      BY <1>1
    <3> QED  BY <2>2, <3>1 DEF Runs
  <2>4. F(f)
    BY <2>3
  <2> QED  BY <2>4
<1> DEFINE pushed == CHOOSE f : F(f)
<1>4. F(pushed)
  <2> HIDE DEF F
  <2> QED  BY <1>3
<1>5. PushBits(b, more) = pushed[n]
  BY DEF PushBits
<1> HIDE DEF pushed
<1>6. pushed[0] = b /\ \A k \in 1..n : pushed[k] = PushBit(pushed[k - 1], more[k])
  <2> HIDE DEF n
  <2> QED  BY <1>1, <1>4
<1> DEFINE S == {k \in 0..n : Holds(pushed[k], Joined(bits, more, k))}
<1>7. bits \in Seq(Bit) /\ more \in Seq(Bit)
  BY HoldsTypes
<1>8. 0 \in S
  <2>1. Joined(bits, more, 0) = bits
    BY <1>7, JoinedGrows
  <2> QED  BY <1>1, <1>6, <2>1
<1>9. \A k \in 0..(n - 1) : k \in S => k + 1 \in S
  <2> SUFFICES ASSUME NEW k \in 0..(n - 1), k \in S PROVE k + 1 \in S
    OBVIOUS
  <2>1. k + 1 \in 1..n /\ k + 1 \in 0..n /\ (k + 1) - 1 = k /\ more[k + 1] \in Bit
    BY <1>1
  <2>2. pushed[k + 1] = PushBit(pushed[k], more[k + 1])
    BY <1>6, <2>1
  <2>3. Holds(pushed[k + 1], Append(Joined(bits, more, k), more[k + 1]))
    BY <2>1, <2>2, PushBitHolds
  <2>4. Append(Joined(bits, more, k), more[k + 1]) = Joined(bits, more, k + 1)
    BY <1>7, JoinedGrows
  <2> QED  BY <2>1, <2>3, <2>4
<1>10. \A k \in 0..n : k \in S
  <2> HIDE DEF S, n
  <2> QED  BY <1>1, <1>8, <1>9, InductionTo
<1>11. Holds(pushed[n], Joined(bits, more, n))
  BY <1>1, <1>10
<1> QED  BY <1>5, <1>7, <1>11, JoinedGrows
-----------------------------------------------------------------------------
LEMMA UnpackIs ==
  ASSUME NEW bytes \in Seq(Int)
  PROVE  /\ UnpackBytes(bytes) \in Seq(Bit) /\ Len(UnpackBytes(bytes)) = Len(bytes) * ByteBits
         /\ \A q \in 0..(Len(bytes) - 1), r \in 0..(ByteBits - 1) :
              /\ ByteBits * q + r + 1 \in 1..(Len(bytes) * ByteBits)
              /\ UnpackBytes(bytes)[ByteBits * q + r + 1] = Slot(bytes, q, r)
<1> DEFINE n == ByteBits
           l == Len(bytes)
           u == UnpackBytes(bytes)
<1>1. n \in Nat \ {0} /\ l \in Nat /\ l * n \in Nat
  BY BitsAssumption
<1>2. ASSUME NEW i \in 1..(l * n)
      PROVE  BitOf(bytes[(i - 1) \div n + 1], n - 1 - ((i - 1) % n)) \in Bit
  <2> DEFINE q == (i - 1) \div n
             r == (i - 1) % n
  <2>1. i - 1 \in Nat
    BY <1>1
  <2>2. q \in Nat /\ r \in 0..(n - 1) /\ i - 1 = n * q + r
    <3> HIDE DEF n
    <3> QED  BY <1>1, <2>1, PlaceOf
  <2>3. q < l
    <3>1. n * q + r < l * n
      BY <1>1, <2>2
    <3> HIDE DEF q, r, n, l
    <3> QED  BY <1>1, <2>2, <3>1, Below
  <2>4. bytes[q + 1] \in Int /\ n - 1 - r \in Nat
    BY <1>1, <2>2, <2>3
  <2> QED  BY <2>4, BitFacts DEF Bit
<1>3. u = [i \in 1..(l * n) |-> BitOf(bytes[(i - 1) \div n + 1], n - 1 - ((i - 1) % n))]
  BY DEF UnpackBytes
<1>4. u \in [1..(l * n) -> Bit]
  <2> HIDE DEF u, l, n
  <2> QED  BY <1>2, <1>3
<1>5. u \in Seq(Bit) /\ Len(u) = l * n
  <2> HIDE DEF u, l, n
  <2> QED  BY <1>1, <1>4
<1>6. ASSUME NEW q \in 0..(l - 1), NEW r \in 0..(n - 1)
      PROVE  n * q + r + 1 \in 1..(l * n) /\ u[n * q + r + 1] = Slot(bytes, q, r)
  <2> DEFINE i == n * q + r + 1
  <2>1. q \in Nat /\ q < l /\ i - 1 = n * q + r /\ i - 1 \in Nat
    BY <1>1
  <2>2. n * q + r < l * n
    <3> HIDE DEF n, l
    <3> QED  BY <1>1, <2>1, Below
  <2>3. i \in 1..(l * n)
    BY <1>1, <2>1, <2>2
  <2>4. (i - 1) \div n = q /\ (i - 1) % n = r
    <3>1. (n * q + r) \div n = q /\ (n * q + r) % n = r
      <4> HIDE DEF n
      <4> QED  BY <1>1, <2>1, PlaceIs
    <3> QED  BY <2>1, <3>1
  <2> HIDE DEF i
  <2>5. u[i] = BitOf(bytes[q + 1], n - 1 - r)
    <3>1. u[i] = BitOf(bytes[(i - 1) \div n + 1], n - 1 - ((i - 1) % n))
      BY <1>3, <2>3
    <3> QED  BY <2>4, <3>1
  <2> QED  BY <2>3, <2>5 DEF Slot, i
<1> QED  BY <1>5, <1>6

\* Bits that agree with the bytes at every place are the bytes' bits.
LEMMA UnpackMeets ==
  ASSUME NEW bytes \in Seq(Int), NEW bits \in Seq(Bit), Len(bits) = Len(bytes) * ByteBits,
         \A q \in 0..(Len(bytes) - 1), r \in 0..(ByteBits - 1) :
           bits[ByteBits * q + r + 1] = Slot(bytes, q, r)
  PROVE  UnpackBytes(bytes) = bits
<1> DEFINE n == ByteBits
           l == Len(bytes)
           u == UnpackBytes(bytes)
<1>1. n \in Nat \ {0} /\ l \in Nat /\ u \in Seq(Bit) /\ Len(u) = Len(bits) /\ Len(u) = l * n
  BY BitsAssumption, UnpackIs
<1>2. ASSUME NEW i \in 1..Len(u) PROVE u[i] = bits[i]
  <2> DEFINE q == (i - 1) \div n
             r == (i - 1) % n
  <2>1. i - 1 \in Nat /\ (i - 1) + 1 = i
    BY <1>1
  <2>2. q \in Nat /\ r \in 0..(n - 1) /\ i - 1 = n * q + r
    <3> HIDE DEF n
    <3> QED  BY <1>1, <2>1, PlaceOf
  <2>3. q < l
    <3>1. n * q + r < l * n
      BY <1>1, <2>2
    <3> HIDE DEF q, r, n, l, u
    <3> QED  BY <1>1, <2>2, <3>1, Below
  <2>4. q \in 0..(l - 1) /\ n * q + r + 1 = i
    BY <1>1, <2>1, <2>2, <2>3
  <2>5. u[n * q + r + 1] = Slot(bytes, q, r) /\ bits[n * q + r + 1] = Slot(bytes, q, r)
    <3> HIDE DEF q, r
    <3> QED  BY <2>2, <2>4, UnpackIs
  <2> QED  BY <2>4, <2>5
<1> HIDE DEF u
<1> QED  BY <1>1, <1>2 DEF u
-----------------------------------------------------------------------------
LEMMA LowBitsAre ==
  ASSUME NEW byte \in Int, NEW n \in 0..ByteBits
  PROVE  /\ LowBits(byte, n) \in Seq(Bit) /\ Len(LowBits(byte, n)) = n
         /\ \A k \in 1..n : LowBits(byte, n)[k] = BitOf(byte, n - k)
<1>1. n \in Nat
  BY BitsAssumption
<1>2. \A k \in 1..n : n - k \in Nat /\ BitOf(byte, n - k) \in Bit
  BY <1>1, BitFacts DEF Bit
<1>3. LowBits(byte, n) = [k \in 1..n |-> BitOf(byte, n - k)]
  BY DEF LowBits
<1>4. LowBits(byte, n) \in [1..n -> Bit]
  BY <1>2, <1>3
<1> QED  BY <1>1, <1>3, <1>4

LEMMA BytesForWhole == \A l \in Nat : BytesFor(ByteBits * l) = l /\ ByteBits * l \in Nat
<1> TAKE l \in Nat
<1>1. 0 \in 0..(ByteBits - 1) /\ ByteBits * l + 0 = ByteBits * l /\ ByteBits * l \in Nat
  BY BitsAssumption
<1>2. BytesFor(ByteBits * l + 0) = l
  BY <1>1, BytesForIs
<1> QED  BY <1>1, <1>2

\* push_u8, on the end of a byte and within one.
LEMMA PushByteHolds ==
  ASSUME NEW b, NEW bits, Holds(b, bits), NEW byte \in Int
  PROVE  Holds(PushByte(b, byte), bits \o LowBits(byte, ByteBits))
<1> DEFINE n == ByteBits
           low == LowBits(byte, n)
           new == bits \o low
           c == PushByte(b, byte)
<1>1. /\ n \in Nat \ {0} /\ n \in 0..ByteBits
      /\ b \in [bytes : Seq(Int), count : Nat] /\ b.bytes \in Seq(Int) /\ b.count = Len(bits)
      /\ bits \in Seq(Bit) /\ Len(bits) \in Nat /\ Len(b.bytes) = BytesFor(Len(bits))
      /\ ReadsAs(b.bytes, bits)
  BY BitsAssumption DEF Holds
<1>2. low \in Seq(Bit) /\ Len(low) = n /\ \A k \in 1..n : low[k] = BitOf(byte, n - k)
  BY <1>1, LowBitsAre
<1>3. CASE b.count % n # 0
  <2>1. c = PushBits(b, low)
    BY <1>3 DEF PushByte
  <2> HIDE DEF low, c
  <2> QED  BY <1>2, <2>1, PushBitsHold DEF c, low
<1>4. CASE b.count % n = 0
  <2> DEFINE q == Len(bits) \div n
             grown == Append(b.bytes, byte)
  <2>1. q \in Nat /\ Len(bits) = n * q
    <3>1. Len(bits) \div n \in Nat /\ Len(bits) = n * (Len(bits) \div n) + (Len(bits) % n)
      BY <1>1, PlaceOf
    <3> QED  BY <1>1, <1>4, <3>1
  <2> HIDE DEF q, low
  <2>2. Len(b.bytes) = q
    BY <1>1, <2>1, BytesForWhole
  <2>3. grown \in Seq(Int) /\ Len(grown) = q + 1 /\ grown[q + 1] = byte
        /\ \A k \in 1..q : grown[k] = b.bytes[k]
    BY <1>1, <2>1, <2>2
  <2>4. new \in Seq(Bit) /\ Len(new) = n * (q + 1) /\ Len(new) = Len(bits) + n
        /\ \A k \in 1..(Len(bits) + n) : new[k] = IF k <= Len(bits) THEN bits[k] ELSE low[k - Len(bits)]
    <3>1. new \in Seq(Bit) /\ Len(new) = Len(bits) + Len(low)
          /\ \A k \in 1..(Len(bits) + Len(low)) :
               new[k] = IF k <= Len(bits) THEN bits[k] ELSE low[k - Len(bits)]
      <4>1. bits \in Seq(Bit) /\ low \in Seq(Bit)
        BY <1>1, <1>2
      <4> QED  BY <4>1, ConcatProperties
    <3>2. Len(bits) + n = n * (q + 1)
      BY <1>1, <2>1
    <3> HIDE DEF new
    <3> QED  BY <1>2, <3>1, <3>2
  <2> HIDE DEF grown, new
  <2>5. ASSUME NEW p \in 0..(Len(grown) - 1), NEW s \in 0..(n - 1)
        PROVE  Slot(grown, p, s) = IF n * p + s < Len(new) THEN new[n * p + s + 1] ELSE 0
    <3> DEFINE k == n * p + s
    <3>0. Len(grown) - 1 = q /\ s \in Nat /\ q + 1 \in Nat
      BY <1>1, <2>1, <2>3
    <3>1. p \in Nat /\ p < q + 1 /\ k \in Nat
      BY <1>1, <2>1, <3>0
    <3>2. k < Len(new)
      <4>1. k < (q + 1) * n
        <5> HIDE DEF n
        <5> QED  BY <1>1, <3>0, <3>1, Below
      <4>2. (q + 1) * n = Len(new)
        BY <1>1, <2>1, <2>4
      <4> QED  BY <4>1, <4>2
    <3>3. k + 1 \in 1..(Len(bits) + n)
      <4> HIDE DEF k, n
      <4> QED  BY <1>1, <2>4, <3>1, <3>2
    <3>4. CASE p < q
      <4>1. p \in 0..(Len(b.bytes) - 1) /\ p + 1 \in 1..q
        BY <2>1, <2>2, <3>1, <3>4
      <4>2. k < q * n /\ q * n = Len(bits)
        <5>1. q * n = n * q
          BY <1>1, <2>1
        <5>2. n * p + s < q * n
          <6> HIDE DEF n
          <6> QED  BY <1>1, <2>1, <3>1, <3>4, Below
        <5> QED  BY <2>1, <5>1, <5>2
      <4>3. Slot(b.bytes, p, s) = bits[k + 1]
        BY <1>1, <4>1, <4>2 DEF ReadsAs
      <4>4. Slot(grown, p, s) = Slot(b.bytes, p, s)
        BY <2>3, <4>1 DEF Slot
      <4>5. new[k + 1] = bits[k + 1]
        <5> HIDE DEF k, n
        <5> QED  BY <1>1, <2>4, <3>1, <3>3, <4>2
      <4> QED  BY <3>2, <4>3, <4>4, <4>5
    <3>5. CASE p = q
      <4>1. k = Len(bits) + s
        BY <1>1, <2>1, <3>5
      <4> HIDE DEF k
      <4>2. new[k + 1] = low[s + 1]
        <5>1. ~ (k + 1 <= Len(bits)) /\ (k + 1) - Len(bits) = s + 1
          BY <1>1, <4>1
        <5> QED  BY <2>4, <3>3, <5>1
      <4>3. s + 1 \in 1..n /\ n - (s + 1) = n - 1 - s
        BY <1>1
      <4>4. low[s + 1] = BitOf(byte, n - 1 - s)
        BY <1>2, <4>3
      <4>5. Slot(grown, p, s) = BitOf(byte, n - 1 - s)
        BY <2>3, <3>5 DEF Slot
      <4> QED  BY <3>2, <4>2, <4>4, <4>5 DEF k
    <3> QED  BY <2>1, <3>1, <3>4, <3>5
  <2>6. ReadsAs(grown, new)
    BY <2>5 DEF ReadsAs
  <2>7. BytesFor(Len(new)) = q + 1
    BY <2>1, <2>4, BytesForWhole
  <2>8. c = [bytes |-> grown, count |-> b.count + n]
    BY <1>4 DEF PushByte, grown
  <2>9. c \in [bytes : Seq(Int), count : Nat] /\ c.bytes = grown /\ c.count = Len(new)
    <3>1. b.count + n = Len(new) /\ Len(new) \in Nat
      BY <1>1, <2>4
    <3>2. c.bytes = grown /\ c.count = b.count + n
      BY <2>8
    <3> HIDE DEF grown, new
    <3> QED  BY <2>3, <2>8, <3>1, <3>2
  <2> HIDE DEF c
  <2> QED  BY <2>3, <2>4, <2>6, <2>7, <2>9 DEF Holds, c, new, low
<1> QED  BY <1>3, <1>4

\* The bits of one more byte.
LEMMA UnpackAppend ==
  ASSUME NEW bytes \in Seq(Int), NEW byte \in Int
  PROVE  UnpackBytes(Append(bytes, byte)) = UnpackBytes(bytes) \o LowBits(byte, ByteBits)
<1> DEFINE n == ByteBits
           l == Len(bytes)
           low == LowBits(byte, n)
           u == UnpackBytes(bytes)
           grown == Append(bytes, byte)
           new == u \o low
<1>1. n \in Nat \ {0} /\ n \in 0..ByteBits /\ l \in Nat
  BY BitsAssumption
<1>2. low \in Seq(Bit) /\ Len(low) = n /\ \A k \in 1..n : low[k] = BitOf(byte, n - k)
  BY <1>1, LowBitsAre
<1>3. u \in Seq(Bit) /\ Len(u) = l * n
      /\ \A q \in 0..(l - 1), r \in 0..(n - 1) :
           n * q + r + 1 \in 1..(l * n) /\ u[n * q + r + 1] = Slot(bytes, q, r)
  BY UnpackIs
<1>4. grown \in Seq(Int) /\ Len(grown) = l + 1 /\ grown[l + 1] = byte
      /\ \A k \in 1..l : grown[k] = bytes[k]
  OBVIOUS
<1> HIDE DEF u, low, l, grown
<1>5. new \in Seq(Bit) /\ Len(new) = Len(u) + Len(low)
      /\ \A k \in 1..(Len(u) + Len(low)) : new[k] = IF k <= Len(u) THEN u[k] ELSE low[k - Len(u)]
  BY <1>2, <1>3, ConcatProperties
<1> HIDE DEF new
<1>6. Len(new) = Len(grown) * n /\ Len(u) \in Nat /\ l * n \in Nat
  BY <1>1, <1>2, <1>3, <1>4, <1>5
<1>7. ASSUME NEW q \in 0..(Len(grown) - 1), NEW r \in 0..(n - 1)
      PROVE  new[n * q + r + 1] = Slot(grown, q, r)
  <2> DEFINE k == n * q + r + 1
  <2>1. q \in Nat /\ q <= l
    BY <1>1, <1>4
  <2>2. CASE q < l
    <3>1. q \in 0..(l - 1) /\ q + 1 \in 1..l
      BY <1>1, <2>1, <2>2
    <3>2. k \in 1..(l * n) /\ u[k] = Slot(bytes, q, r)
      BY <1>3, <3>1
    <3>3. Slot(grown, q, r) = Slot(bytes, q, r)
      BY <1>4, <3>1 DEF Slot
    <3> HIDE DEF k, n
    <3>4. new[k] = u[k]
      BY <1>1, <1>2, <1>3, <1>5, <1>6, <3>2
    <3> QED  BY <3>2, <3>3, <3>4 DEF k, n
  <2>3. CASE q = l
    <3>1. k = Len(u) + r + 1
      BY <1>1, <1>3, <2>3
    <3> HIDE DEF k
    <3>2. k \in 1..(Len(u) + Len(low)) /\ ~ (k <= Len(u)) /\ k - Len(u) = r + 1
      BY <1>1, <1>2, <1>6, <3>1
    <3>3. new[k] = low[r + 1]
      BY <1>5, <3>2
    <3>4. r + 1 \in 1..n /\ n - (r + 1) = n - 1 - r
      BY <1>1
    <3>5. low[r + 1] = BitOf(byte, n - 1 - r)
      BY <1>2, <3>4
    <3> QED  BY <1>4, <2>3, <3>3, <3>5 DEF Slot, k
  <2> QED  BY <1>1, <2>1, <2>2, <2>3
<1>8. UnpackBytes(grown) = new
  BY <1>4, <1>5, <1>6, <1>7, UnpackMeets
<1> QED  BY <1>8 DEF new, u, low, grown
-----------------------------------------------------------------------------
LEMMA EmptyHolds == Holds(NoBits, <<>>) /\ UnpackBytes(<<>>) = <<>>
<1>1. BytesFor(0) = 0
  <2>1. ByteBits * 0 = 0
    BY BitsAssumption
  <2> QED  BY <2>1, BytesForWhole
<1>2. ReadsAs(<<>>, <<>>)
  BY DEF ReadsAs
<1>3. Len(UnpackBytes(<<>>)) = 0 /\ UnpackBytes(<<>>) \in Seq(Bit)
  <2> DEFINE e == <<>>
  <2>1. e \in Seq(Int) /\ Len(e) = 0
    OBVIOUS
  <2> HIDE DEF e
  <2>2. UnpackBytes(e) \in Seq(Bit) /\ Len(UnpackBytes(e)) = Len(e) * ByteBits
    BY <2>1, UnpackIs
  <2>3. Len(e) * ByteBits = 0
    BY <2>1, BitsAssumption
  <2> QED  BY <2>2, <2>3 DEF e
<1>4. UnpackBytes(<<>>) = <<>>
  BY <1>3, EmptySeq
<1> QED  BY <1>1, <1>2, <1>4 DEF Holds, NoBits

\* from: the bits of the bytes, one byte after the other.
LEMMA FromHolds ==
  ASSUME NEW bytes \in Seq(Int)
  PROVE  Holds(from(bytes), UnpackBytes(bytes))
<1> DEFINE n == Len(bytes)
           T == {c \in [bytes : Seq(Int), count : Nat] : \E some : Holds(c, some)}
           F(f) == f = [k \in 0..n |-> IF k = 0 THEN NoBits ELSE PushByte(f[k - 1], bytes[k])]
           step == [k \in 1..n |-> [c \in T |-> PushByte(c, bytes[k])]]
<1>1. n \in Nat /\ NoBits \in T /\ \A k \in 1..n : bytes[k] \in Int
  BY EmptyHolds, HoldsTypes
<1>2. ASSUME NEW c \in T, NEW byte \in Int PROVE PushByte(c, byte) \in T
  <2>1. PICK some : Holds(c, some)
    OBVIOUS
  <2>2. Holds(PushByte(c, byte), some \o LowBits(byte, ByteBits))
    BY <2>1, PushByteHolds
  <2> QED  BY <2>2, HoldsTypes
<1>3. \E f : F(f)
  <2>1. step \in [1..n -> [T -> T]]
    <3> HIDE DEF T, n
    <3> QED  BY <1>1, <1>2
  <2>2. PICK f \in [0..n -> T] : Runs(f, NoBits, step, n)
    <3> HIDE DEF step, n, T
    <3> QED  BY <1>1, <2>1, LoopRuns
  <2>3. ASSUME NEW k \in 0..n PROVE f[k] = IF k = 0 THEN NoBits ELSE PushByte(f[k - 1], bytes[k])
    <3> HIDE DEF T, n
    <3>1. k # 0 => k \in 1..n /\ f[k - 1] \in T
      BY <1>1
    <3> QED  BY <2>2, <3>1 DEF Runs
  <2>4. F(f)
    BY <2>3
  <2> QED  BY <2>4
<1> DEFINE pushed == CHOOSE f : F(f)
<1>4. F(pushed)
  <2> HIDE DEF F
  <2> QED  BY <1>3
<1>5. from(bytes) = pushed[n]
  BY DEF from
<1> HIDE DEF pushed
<1>6. pushed[0] = NoBits /\ \A k \in 1..n : pushed[k] = PushByte(pushed[k - 1], bytes[k])
  <2> HIDE DEF n
  <2> QED  BY <1>1, <1>4
<1> DEFINE S == {k \in 0..n : Holds(pushed[k], UnpackBytes(Joined(<<>>, bytes, k)))}
<1>7. <<>> \in Seq(Int) /\ bytes \in Seq(Int)
  OBVIOUS
<1>8. 0 \in S
  <2>1. Joined(<<>>, bytes, 0) = <<>>
    BY <1>7, JoinedGrows
  <2> QED  BY <1>1, <1>6, <2>1, EmptyHolds
<1>9. \A k \in 0..(n - 1) : k \in S => k + 1 \in S
  <2> SUFFICES ASSUME NEW k \in 0..(n - 1), k \in S PROVE k + 1 \in S
    OBVIOUS
  <2> DEFINE some == Joined(<<>>, bytes, k)
  <2>1. k + 1 \in 1..n /\ k + 1 \in 0..n /\ (k + 1) - 1 = k /\ bytes[k + 1] \in Int
    BY <1>1
  <2>2. pushed[k + 1] = PushByte(pushed[k], bytes[k + 1])
    BY <1>6, <2>1
  <2>3. Holds(pushed[k + 1], UnpackBytes(some) \o LowBits(bytes[k + 1], ByteBits))
    BY <2>1, <2>2, PushByteHolds
  <2>4. some \in Seq(Int)
    <3>1. \A j \in 1..k : bytes[j] \in Int
      BY <1>1
    <3>2. SubSeq(bytes, 1, k) \in Seq(Int)
      BY <3>1, SubSeqProperties
    <3> QED  BY <3>2, ConcatEmptySeq DEF Joined
  <2>5. Append(some, bytes[k + 1]) = Joined(<<>>, bytes, k + 1)
    BY <1>7, JoinedNext
  <2>6. UnpackBytes(some) \o LowBits(bytes[k + 1], ByteBits) = UnpackBytes(Joined(<<>>, bytes, k + 1))
    <3> HIDE DEF some
    <3> QED  BY <2>1, <2>4, <2>5, UnpackAppend
  <2> QED  BY <2>1, <2>3, <2>6
<1>10. \A k \in 0..n : k \in S
  <2> HIDE DEF S, n
  <2> QED  BY <1>1, <1>8, <1>9, InductionTo
<1>11. Holds(pushed[n], UnpackBytes(Joined(<<>>, bytes, n)))
  BY <1>1, <1>10
<1>12. Joined(<<>>, bytes, n) = <<>> \o bytes /\ <<>> \o bytes = bytes
  BY <1>7, JoinedGrows, ConcatEmptySeq
<1> QED  BY <1>5, <1>11, <1>12

LEMMA RawHolds ==
  ASSUME NEW bytes \in Seq(Int)
  PROVE  Holds(Raw(bytes), UnpackBytes(bytes))
<1> DEFINE n == ByteBits
           l == Len(bytes)
           u == UnpackBytes(bytes)
<1>1. n \in Nat \ {0} /\ l \in Nat /\ l * n = n * l /\ n * l \in Nat
  BY BitsAssumption
<1>2. u \in Seq(Bit) /\ Len(u) = l * n
      /\ \A q \in 0..(l - 1), r \in 0..(n - 1) :
           n * q + r + 1 \in 1..(l * n) /\ u[n * q + r + 1] = Slot(bytes, q, r)
  BY UnpackIs
<1>3. BytesFor(Len(u)) = l
  BY <1>1, <1>2, BytesForWhole
<1> HIDE DEF u
<1>4. ASSUME NEW q \in 0..(l - 1), NEW r \in 0..(n - 1)
      PROVE  Slot(bytes, q, r) = IF n * q + r < Len(u) THEN u[n * q + r + 1] ELSE 0
  <2>1. q \in Nat /\ q < l
    BY <1>1
  <2>2. n * q + r < l * n
    <3> HIDE DEF l, n
    <3> QED  BY <1>1, <2>1, Below
  <2> QED  BY <1>2, <2>2
<1>5. ReadsAs(bytes, u)
  BY <1>4 DEF ReadsAs
<1>6. Raw(bytes) = [bytes |-> bytes, count |-> Len(u)]
  BY <1>2 DEF Raw
<1> QED  BY <1>1, <1>2, <1>3, <1>5, <1>6 DEF Holds, u

\* BitBuffer(n): zeros.
LEMMA SizedHolds ==
  ASSUME NEW n \in Nat
  PROVE  Holds([bytes |-> [k \in 1..BytesFor(n) |-> 0], count |-> n], [k \in 1..n |-> 0])
<1> DEFINE bytes == [k \in 1..BytesFor(n) |-> 0]
           bits == [k \in 1..n |-> 0]
<1>1. BytesFor(n) \in Nat
  <2>1. n \div ByteBits \in Nat /\ n % ByteBits \in 0..(ByteBits - 1)
        /\ n = ByteBits * (n \div ByteBits) + (n % ByteBits)
    BY BitsAssumption, PlaceOf
  <2> DEFINE q == n \div ByteBits
             r == n % ByteBits
  <2> HIDE DEF q, r
  <2>2. q \in Nat /\ r \in 0..(ByteBits - 1) /\ n = ByteBits * q + r
    BY <2>1 DEF q, r
  <2>3. BytesFor(ByteBits * q + r) = IF r = 0 THEN q ELSE q + 1
    BY <2>2, BytesForIs
  <2> QED  BY <2>2, <2>3
<1>2. bytes \in Seq(Int) /\ Len(bytes) = BytesFor(n) /\ \A k \in 1..BytesFor(n) : bytes[k] = 0
  BY <1>1
<1>3. bits \in Seq(Bit) /\ Len(bits) = n /\ \A k \in 1..n : bits[k] = 0
  BY DEF Bit
<1> HIDE DEF bytes, bits
<1>4. ASSUME NEW q \in 0..(Len(bytes) - 1), NEW r \in 0..(ByteBits - 1)
      PROVE  Slot(bytes, q, r) = IF ByteBits * q + r < Len(bits) THEN bits[ByteBits * q + r + 1] ELSE 0
  <2>1. bytes[q + 1] = 0 /\ ByteBits - 1 - r \in Nat
    BY <1>1, <1>2, BitsAssumption
  <2>2. Slot(bytes, q, r) = 0
    BY <2>1, ZeroBits DEF Slot
  <2>3. ByteBits * q + r < Len(bits) => ByteBits * q + r + 1 \in 1..n
    BY <1>1, <1>2, <1>3, BitsAssumption
  <2> QED  BY <1>3, <2>2, <2>3
<1>5. ReadsAs(bytes, bits)
  BY <1>4 DEF ReadsAs
<1> QED  BY <1>2, <1>3, <1>5 DEF Holds, bytes, bits

\* Assignment to a bit.
LEMMA AssignHolds ==
  ASSUME NEW b, NEW bits, Holds(b, bits), NEW i \in 0..(Len(bits) - 1), NEW bit \in Bit
  PROVE  Holds(SetBit(b, i, bit), [bits EXCEPT ![i + 1] = bit])
<1> DEFINE n == ByteBits
           q == i \div n
           r == i % n
           c == SetBit(b, i, bit)
           new == [bits EXCEPT ![i + 1] = bit]
<1>1. /\ n \in Nat \ {0} /\ i \in Nat
      /\ b \in [bytes : Seq(Int), count : Nat] /\ b.bytes \in Seq(Int) /\ b.count = Len(bits)
      /\ bits \in Seq(Bit) /\ Len(bits) \in Nat /\ Len(b.bytes) = BytesFor(Len(bits))
      /\ ReadsAs(b.bytes, bits) /\ i < Len(bits) /\ i + 1 \in 1..Len(bits)
  BY BitsAssumption DEF Holds
<1>2. q \in Nat /\ r \in 0..(n - 1) /\ i = n * q + r
  <2> HIDE DEF n
  <2> QED  BY <1>1, PlaceOf
<1>3. new \in Seq(Bit) /\ Len(new) = Len(bits)
      /\ \A k \in 1..Len(bits) : new[k] = IF k = i + 1 THEN bit ELSE bits[k]
  <2> HIDE DEF q, r, n, c
  <2> QED  BY <1>1, ExceptSeq
<1> HIDE DEF q, r, new, c
<1>4. q \in 0..(Len(b.bytes) - 1)
  <2> DEFINE p == Len(bits) \div n
             s == Len(bits) % n
  <2>1. p \in Nat /\ s \in 0..(n - 1) /\ Len(bits) = n * p + s
    <3> HIDE DEF n
    <3> QED  BY <1>1, PlaceOf
  <2> HIDE DEF p, s
  <2>2. BytesFor(n * p + s) = IF s = 0 THEN p ELSE p + 1
    BY <2>1, BytesForIs
  <2>3. Len(b.bytes) = IF s = 0 THEN p ELSE p + 1
    BY <1>1, <2>1, <2>2
  <2>4. n * q + r < (p + 1) * n
    BY <1>1, <1>2, <2>1
  <2>5. q < p + 1
    <3>1. p + 1 \in Nat
      BY <2>1
    <3> HIDE DEF n
    <3> QED  BY <1>1, <1>2, <2>4, <3>1, Below
  <2>6. CASE s = 0
    <3>1. n * q + r < p * n
      BY <1>1, <1>2, <2>1, <2>6
    <3>2. q < p
      <4> HIDE DEF n
      <4> QED  BY <1>1, <1>2, <2>1, <3>1, Below
    <3> QED  BY <1>2, <2>1, <2>3, <2>6, <3>2
  <2>7. CASE s # 0
    BY <1>2, <2>1, <2>3, <2>5, <2>7
  <2> QED  BY <2>6, <2>7
<1>5. IsAt(b, i, q, r)
  BY <1>1, <1>2, <1>4 DEF IsAt
<1>6. OnlyBit(b, c, q, r, bit)
  BY <1>5, SetBitSets DEF c
<1>7. c \in [bytes : Seq(Int), count : Nat] /\ c.count = Len(bits) /\ Len(c.bytes) = Len(b.bytes)
  BY <1>1, <1>6 DEF OnlyBit
<1>8. ASSUME NEW p \in 0..(Len(c.bytes) - 1), NEW s \in 0..(n - 1)
      PROVE  Slot(c.bytes, p, s) = IF n * p + s < Len(new) THEN new[n * p + s + 1] ELSE 0
  <2> DEFINE k == n * p + s
  <2>0. p \in 0..(Len(b.bytes) - 1)
    BY <1>7
  <2>1. p \in Nat /\ k \in Nat
    <3>1. Len(b.bytes) \in Nat
      BY <1>1
    <3>2. p \in Nat /\ s \in Nat
      BY <1>1, <2>0, <3>1
    <3> QED  BY <1>1, <3>2
  <2>2. Slot(b.bytes, p, s) = IF k < Len(bits) THEN bits[k + 1] ELSE 0
    BY <1>1, <2>0 DEF ReadsAs
  <2>3. CASE p = q /\ s = r
    <3>1. k = i
      BY <1>2, <2>3
    <3> HIDE DEF k
    <3>2. Slot(c.bytes, p, s) = bit
      BY <1>6, <2>3 DEF OnlyBit
    <3>3. new[k + 1] = bit /\ k < Len(new)
      BY <1>1, <1>3, <3>1
    <3> QED  BY <3>2, <3>3 DEF k
  <2>4. CASE ~ (p = q /\ s = r)
    <3>1. k # i
      <4>1. k = n * p + s
        OBVIOUS
      <4> HIDE DEF k
      <4> QED  BY <1>2, <2>1, <2>4, <4>1, PlaceOwn
    <3> HIDE DEF k
    <3>2. Slot(c.bytes, p, s) = Slot(b.bytes, p, s)
      BY <1>6, <2>0, <2>4 DEF OnlyBit
    <3>3. k < Len(bits) => new[k + 1] = bits[k + 1]
      BY <1>1, <1>3, <2>1, <3>1
    <3> QED  BY <1>3, <2>2, <3>2, <3>3 DEF k
  <2> QED  BY <2>3, <2>4
<1>9. ReadsAs(c.bytes, new)
  BY <1>8 DEF ReadsAs
<1> QED  BY <1>1, <1>3, <1>7, <1>9 DEF Holds, c, new
-----------------------------------------------------------------------------
\* The bytes that bits take have room for them.
LEMMA BytesForHolds ==
  ASSUME NEW l \in Nat
  PROVE  BytesFor(l) \in Nat /\ BytesFor(l) * ByteBits \in Nat /\ l <= BytesFor(l) * ByteBits
<1> DEFINE n == ByteBits
           q == l \div n
           r == l % n
<1>1. n \in Nat \ {0}
  BY BitsAssumption
<1>2. q \in Nat /\ r \in 0..(n - 1) /\ l = n * q + r
  <2> HIDE DEF n
  <2> QED  BY <1>1, PlaceOf
<1> HIDE DEF q, r
<1>3. BytesFor(n * q + r) = IF r = 0 THEN q ELSE q + 1
  BY <1>2, BytesForIs
<1>4. q * n = n * q /\ (q + 1) * n = n * q + n /\ n * q \in Nat /\ q + 1 \in Nat
  BY <1>1, <1>2
<1> HIDE DEF n
<1>5. CASE r = 0
  BY <1>1, <1>2, <1>3, <1>4, <1>5 DEF n
<1>6. CASE r # 0
  BY <1>1, <1>2, <1>3, <1>4, <1>6 DEF n
<1> QED  BY <1>5, <1>6

\* The bytes of a buffer are its bits, padded.
LEMMA PaddedIs ==
  ASSUME NEW b, NEW bits, Holds(b, bits)
  PROVE  UnpackBytes(b.bytes) = Padded(bits)
<1> DEFINE n == ByteBits
           l == Len(bits)
           w == Len(b.bytes)
           zeros == [k \in 1..(w * n - l) |-> 0]
           new == bits \o zeros
<1>1. n \in Nat \ {0} /\ b.bytes \in Seq(Int) /\ bits \in Seq(Bit) /\ l \in Nat /\ w = BytesFor(l)
      /\ ReadsAs(b.bytes, bits)
  BY BitsAssumption DEF Holds
<1>2. w \in Nat /\ w * n \in Nat /\ l <= w * n
  BY <1>1, BytesForHolds
<1>3. w * n - l \in Nat
  BY <1>1, <1>2
<1>4. zeros \in Seq(Bit) /\ Len(zeros) = w * n - l /\ \A k \in 1..(w * n - l) : zeros[k] = 0
  BY <1>3 DEF Bit
<1> HIDE DEF zeros
<1>5. /\ new \in Seq(Bit) /\ Len(new) = w * n
      /\ \A k \in 1..l : new[k] = bits[k]
      /\ \A k \in (l + 1)..(w * n) : new[k] = zeros[k - l]
  <2>1. new \in Seq(Bit) /\ Len(new) = l + (w * n - l)
        /\ \A k \in 1..(l + (w * n - l)) : new[k] = IF k <= l THEN bits[k] ELSE zeros[k - l]
    <3> HIDE DEF n, w
    <3>1. bits \in Seq(Bit) /\ zeros \in Seq(Bit) /\ Len(zeros) = w * n - l
      BY <1>1, <1>4
    <3>2. /\ new \in Seq(Bit) /\ Len(new) = l + Len(zeros)
          /\ \A k \in 1..(l + Len(zeros)) : new[k] = IF k <= l THEN bits[k] ELSE zeros[k - l]
      <4>1. bits \in Seq(Bit) /\ zeros \in Seq(Bit)
        BY <3>1
      <4> QED  BY <4>1, ConcatProperties
    <3> QED  BY <3>1, <3>2
  <2>2. l + (w * n - l) = w * n
    BY <1>1, <1>2
  <2> HIDE DEF new
  <2> QED  BY <1>1, <1>2, <2>1, <2>2
<1> HIDE DEF new
<1>6. ASSUME NEW q \in 0..(w - 1), NEW r \in 0..(n - 1)
      PROVE  new[n * q + r + 1] = Slot(b.bytes, q, r)
  <2> DEFINE k == n * q + r
  <2>1. q \in Nat /\ q < w /\ k \in Nat
    <3>1. w \in Nat /\ n \in Nat
      BY <1>1, <1>2
    <3>2. q \in Nat /\ q < w /\ r \in Nat
      BY <3>1
    <3> QED  BY <3>1, <3>2
  <2>2. k < w * n
    <3> HIDE DEF n, w
    <3> QED  BY <1>1, <1>2, <2>1, Below
  <2>3. Slot(b.bytes, q, r) = IF k < l THEN bits[k + 1] ELSE 0
    BY <1>1 DEF ReadsAs
  <2> HIDE DEF k, n, w, l
  <2>4. new[k + 1] = IF k < l THEN bits[k + 1] ELSE 0
    <3>1. CASE k < l
      BY <1>1, <1>5, <2>1, <3>1
    <3>2. CASE ~ (k < l)
      <4>1. k + 1 \in (l + 1)..(w * n) /\ (k + 1) - l \in 1..(w * n - l)
        BY <1>1, <1>2, <2>1, <2>2, <3>2
      <4> QED  BY <1>4, <1>5, <3>2, <4>1
    <3> QED  BY <3>1, <3>2
  <2> QED  BY <2>3, <2>4 DEF k
<1>7. UnpackBytes(b.bytes) = new
  BY <1>1, <1>5, <1>6, UnpackMeets
<1> QED  BY <1>1, <1>7 DEF Padded, new, zeros

\* The bits of two runs of bytes, one after the other.
LEMMA UnpackCat ==
  ASSUME NEW x \in Seq(Int), NEW y \in Seq(Int)
  PROVE  UnpackBytes(x \o y) = UnpackBytes(x) \o UnpackBytes(y)
<1> DEFINE n == ByteBits
           l == Len(x)
           m == Len(y)
           u == UnpackBytes(x)
           v == UnpackBytes(y)
           both == x \o y
           new == u \o v
<1>1. n \in Nat \ {0} /\ l \in Nat /\ m \in Nat
  BY BitsAssumption
<1>2. u \in Seq(Bit) /\ Len(u) = l * n
      /\ \A q \in 0..(l - 1), r \in 0..(n - 1) :
           n * q + r + 1 \in 1..(l * n) /\ u[n * q + r + 1] = Slot(x, q, r)
  BY UnpackIs
<1>3. v \in Seq(Bit) /\ Len(v) = m * n
      /\ \A q \in 0..(m - 1), r \in 0..(n - 1) :
           n * q + r + 1 \in 1..(m * n) /\ v[n * q + r + 1] = Slot(y, q, r)
  BY UnpackIs
<1>4. both \in Seq(Int) /\ Len(both) = l + m
      /\ \A k \in 1..(l + m) : both[k] = IF k <= l THEN x[k] ELSE y[k - l]
  <2> HIDE DEF n
  <2> QED  BY ConcatProperties
<1> HIDE DEF u, v, both
<1>5. l * n \in Nat /\ m * n \in Nat /\ (l + m) * n = l * n + m * n /\ l * n = n * l
  BY <1>1
<1>6. new \in Seq(Bit) /\ Len(new) = (l + m) * n
      /\ \A k \in 1..(l * n + m * n) : new[k] = IF k <= l * n THEN u[k] ELSE v[k - l * n]
  <2> HIDE DEF n, l, m
  <2>1. new \in Seq(Bit) /\ Len(new) = l * n + m * n
        /\ \A k \in 1..(l * n + m * n) : new[k] = IF k <= l * n THEN u[k] ELSE v[k - l * n]
    <3>1. u \in Seq(Bit) /\ v \in Seq(Bit) /\ Len(u) = l * n /\ Len(v) = m * n
      BY <1>2, <1>3
    <3>2. /\ new \in Seq(Bit) /\ Len(new) = Len(u) + Len(v)
          /\ \A k \in 1..(Len(u) + Len(v)) : new[k] = IF k <= Len(u) THEN u[k] ELSE v[k - Len(u)]
      <4>1. u \in Seq(Bit) /\ v \in Seq(Bit)
        BY <3>1
      <4> QED  BY <4>1, ConcatProperties
    <3> QED  BY <3>1, <3>2
  <2> QED  BY <1>5, <2>1
<1> HIDE DEF new
<1>7. ASSUME NEW q \in 0..(Len(both) - 1), NEW r \in 0..(n - 1)
      PROVE  new[n * q + r + 1] = Slot(both, q, r)
  <2>1. q \in Nat /\ q < l + m /\ n * q \in Nat
    BY <1>1, <1>4
  <2>2. CASE q < l
    <3>1. q \in 0..(l - 1) /\ q + 1 \in 1..(l + m) /\ q + 1 <= l
      BY <1>1, <2>1, <2>2
    <3>2. n * q + r + 1 \in 1..(l * n) /\ u[n * q + r + 1] = Slot(x, q, r)
      BY <1>2, <3>1
    <3>3. new[n * q + r + 1] = u[n * q + r + 1]
      <4> DEFINE k == n * q + r + 1
      <4>1. k \in 1..(l * n)
        BY <3>2
      <4> HIDE DEF k, n, l, m
      <4> QED  BY <1>5, <1>6, <4>1 DEF k
    <3>4. both[q + 1] = x[q + 1]
      BY <1>4, <3>1
    <3> QED  BY <3>2, <3>3, <3>4 DEF Slot
  <2>3. CASE ~ (q < l)
    <3> DEFINE p == q - l
    <3>1. p \in 0..(m - 1) /\ p \in Nat /\ q + 1 \in 1..(l + m) /\ ~ (q + 1 <= l) /\ (q + 1) - l = p + 1
      BY <1>1, <2>1, <2>3
    <3>2. n * q = n * l + n * p /\ n * p \in Nat
      BY <1>1, <3>1
    <3> HIDE DEF p
    <3>3. n * p + r + 1 \in 1..(m * n) /\ v[n * p + r + 1] = Slot(y, p, r)
      BY <1>3, <3>1
    <3>4. new[n * q + r + 1] = v[n * p + r + 1]
      <4> DEFINE k == n * q + r + 1
                 j == n * p + r + 1
      <4>1. j \in 1..(m * n) /\ j \in Nat
        BY <1>5, <3>3
      <4>2. k = l * n + j
        <5> DEFINE f == n * l
                   g == n * p
        <5>1. n * q = f + g /\ f \in Nat /\ g \in Nat /\ l * n = f /\ r \in Nat
          BY <1>1, <1>5, <3>2
        <5>2. j = g + r + 1
          OBVIOUS
        <5> HIDE DEF f, g, j, n, l
        <5> QED  BY <5>1, <5>2
      <4> HIDE DEF k, j, n, l, m
      <4>3. k \in 1..(l * n + m * n) /\ ~ (k <= l * n) /\ k - l * n = j
        BY <1>5, <4>1, <4>2
      <4> QED  BY <1>6, <4>3 DEF k, j
    <3>5. both[q + 1] = y[p + 1]
      <4> DEFINE k == q + 1
      <4>1. k \in 1..(l + m) /\ ~ (k <= l) /\ k - l = p + 1
        BY <3>1
      <4> HIDE DEF k, l, m
      <4>2. both[k] = y[k - l]
        BY <1>4, <4>1
      <4> QED  BY <4>1, <4>2 DEF k
    <3> QED  BY <3>3, <3>4, <3>5 DEF Slot
  <2> QED  BY <2>2, <2>3
<1>8. UnpackBytes(both) = new
  BY <1>4, <1>6, <1>7, UnpackMeets
<1> QED  BY <1>8 DEF new, both, u, v

\* The bits of a run of bytes within others.
LEMMA UnpackSub ==
  ASSUME NEW x \in Seq(Int), NEW a \in Nat, NEW m \in Nat, a + m <= Len(x)
  PROVE  UnpackBytes(SubSeq(x, a + 1, a + m))
           = SubSeq(UnpackBytes(x), a * ByteBits + 1, (a + m) * ByteBits)
<1> DEFINE n == ByteBits
           l == Len(x)
           u == UnpackBytes(x)
           part == SubSeq(x, a + 1, a + m)
           new == SubSeq(u, a * n + 1, (a + m) * n)
<1>1. n \in Nat \ {0} /\ l \in Nat
  BY BitsAssumption
<1>2. u \in Seq(Bit) /\ Len(u) = l * n
      /\ \A q \in 0..(l - 1), r \in 0..(n - 1) :
           n * q + r + 1 \in 1..(l * n) /\ u[n * q + r + 1] = Slot(x, q, r)
  BY UnpackIs
<1>3. part \in Seq(Int) /\ Len(part) = m /\ \A k \in 1..m : part[k] = x[a + k]
  <2>1. \A k \in (a + 1)..(a + m) : x[k] \in Int
    BY <1>1
  <2> QED  BY <2>1
<1> HIDE DEF u, part
<1>4. a * n \in Nat /\ m * n \in Nat /\ (a + m) * n = a * n + m * n /\ a * n = n * a
      /\ (a + m) * n <= l * n
  <2>1. n * (a + m) <= n * l
    BY <1>1, Larger
  <2>2. (a + m) * n = n * (a + m) /\ l * n = n * l
    BY <1>1
  <2>3. a * n \in Nat /\ m * n \in Nat /\ (a + m) * n = a * n + m * n /\ a * n = n * a
    BY <1>1
  <2> QED  BY <2>1, <2>2, <2>3
<1>5. new \in Seq(Bit) /\ Len(new) = m * n /\ \A k \in 1..(m * n) : new[k] = u[a * n + k]
  <2> DEFINE f == a * n
             g == m * n
             h == l * n
  <2>1. f \in Nat /\ g \in Nat /\ new = SubSeq(u, f + 1, f + g) /\ f + g <= h /\ h = Len(u)
    BY <1>2, <1>4
  <2> HIDE DEF f, g, h, new
  <2>2. \A k \in (f + 1)..(f + g) : u[k] \in Bit
    BY <1>2, <2>1
  <2>3. new \in Seq(Bit) /\ Len(new) = g /\ \A k \in 1..g : new[k] = u[f + k]
    <3> DEFINE i == f + 1
               j == f + g
    <3>1. i \in Int /\ j \in Int /\ new = SubSeq(u, i, j) /\ \A k \in i..j : u[k] \in Bit
      BY <2>1, <2>2
    <3>2. /\ new \in Seq(Bit)
          /\ Len(new) = IF i <= j THEN j - i + 1 ELSE 0
          /\ \A k \in 1..(j - i + 1) : new[k] = u[i + k - 1]
      <4> HIDE DEF i, j
      <4> QED  BY <3>1, SubSeqProperties
    <3>3. j - i + 1 = g /\ (i <= j \/ g = 0) /\ \A k \in 1..g : i + k - 1 = f + k
      BY <2>1
    <3> HIDE DEF i, j
    <3> QED  BY <2>1, <3>1, <3>2, <3>3
  <2> QED  BY <2>3 DEF f, g
<1> HIDE DEF new
<1>6. ASSUME NEW q \in 0..(m - 1), NEW r \in 0..(n - 1)
      PROVE  new[n * q + r + 1] = Slot(part, q, r)
  <2>1. q \in Nat /\ q < m /\ n * q \in Nat /\ a + q \in 0..(l - 1) /\ q + 1 \in 1..m
    BY <1>1
  <2>2. n * q + r < m * n
    <3> HIDE DEF n
    <3> QED  BY <1>1, <2>1, Below
  <2>3. n * (a + q) = n * a + n * q
    BY <1>1
  <2>4. u[n * (a + q) + r + 1] = Slot(x, a + q, r)
    BY <1>2, <2>1
  <2>5. new[n * q + r + 1] = u[n * (a + q) + r + 1]
    <3> DEFINE k == n * q + r + 1
               j == n * (a + q) + r + 1
    <3>1. k \in 1..(m * n) /\ j = a * n + k
      BY <1>1, <1>4, <2>1, <2>2, <2>3
    <3> HIDE DEF k, j
    <3> QED  BY <1>5, <3>1 DEF k, j
  <2>6. part[q + 1] = x[a + (q + 1)] /\ a + (q + 1) = (a + q) + 1
    <3>1. part[q + 1] = x[a + (q + 1)]
      <4>1. q + 1 \in 1..m
        BY <2>1
      <4> QED  BY <1>3, <4>1
    <3> QED  BY <2>1, <3>1
  <2> QED  BY <2>4, <2>5, <2>6 DEF Slot
<1>7. UnpackBytes(part) = new
  BY <1>3, <1>5, <1>6, UnpackMeets
<1> QED  BY <1>7 DEF part, new, u
-----------------------------------------------------------------------------
\* What the steps keep: the buffer holds its bits, and the file's bytes are the bits sent.
BitsInv ==
  /\ Holds(buffer, given)
  /\ file \in Seq(Int) /\ next \in 0..Len(file)
  /\ UnpackBytes(file) = sent

LEMMA BitsStart == BitsInit => BitsInv
<1> SUFFICES ASSUME BitsInit PROVE BitsInv
  OBVIOUS
<1>1. file \in Seq(Int) /\ next \in 0..Len(file)
  BY DEF BitsInit
<1> QED  BY <1>1, EmptyHolds DEF BitsInit, BitsInv

LEMMA BecomesKeeps ==
  ASSUME BitsInv, NEW b, NEW bits, Holds(b, bits), Becomes(b, bits)
  PROVE  BitsInv'
<1>1. buffer' = b /\ given' = bits /\ file' = file /\ next' = next /\ sent' = sent
  BY DEF Becomes
<1>2. Holds(buffer', given')
  BY <1>1
<1> QED  BY <1>1, <1>2 DEF BitsInv, Holds, ReadsAs, Slot, BytesFor, UnpackBytes, bitOffset

LEMMA WriteKeeps ==
  ASSUME BitsInv, NEW b, NEW bits, Holds(b, bits), Write(b, bits)
  PROVE  BitsInv'
<1>1. /\ file' = file \o b.bytes /\ sent' = sent \o Padded(bits)
      /\ buffer' = buffer /\ given' = given /\ next' = next
  BY DEF Write
<1>2. b.bytes \in Seq(Int) /\ file \in Seq(Int) /\ next \in 0..Len(file) /\ UnpackBytes(file) = sent
  BY DEF BitsInv, Holds
<1>3. file' \in Seq(Int) /\ next' \in 0..Len(file')
  BY <1>1, <1>2
<1>4. UnpackBytes(file') = sent'
  <2>1. UnpackBytes(file \o b.bytes) = UnpackBytes(file) \o UnpackBytes(b.bytes)
    BY <1>2, UnpackCat
  <2> QED  BY <1>1, <1>2, <2>1, PaddedIs
<1>5. Holds(buffer', given')
  BY <1>1 DEF BitsInv
<1> QED  BY <1>3, <1>4, <1>5 DEF BitsInv

LEMMA ReverseIs == \A s \in Seq(Bit) : Reverse(s) \in Seq(Bit)
<1> SUFFICES ASSUME NEW s \in Seq(Bit) PROVE Reverse(s) \in Seq(Bit)
  OBVIOUS
<1>1. Len(s) \in Nat /\ \A i \in 1..Len(s) : s[(Len(s) - i) + 1] \in Bit
  OBVIOUS
<1> QED  BY <1>1 DEF Reverse

LEMMA BytesAre ==
  ASSUME NEW bytes \in BoundedSeq(Bytes, 2)
  PROVE  bytes \in Seq(Int)
<1>1. \A m \in 0..2 : \A s \in [1..m -> Bytes] : s \in Seq(Int)
  BY DEF Bytes, Unsigned
<1> QED  BY <1>1 DEF BoundedSeq, SeqOf

LEMMA BitStringsAre == \A n \in Nat : \A bits \in BitStrings(n) : bits \in Seq(Bit)
BY DEF BitStrings, Bit

LEMMA ReadKeeps ==
  ASSUME BitsInv, NEW amount \in 0..2, readBinary(amount)
  PROVE  BitsInv'
<1>1. CASE amount = 0
  BY <1>1, BecomesKeeps, EmptyHolds DEF readBinary
<1>2. CASE amount # 0 /\ ~ failed /\ next + amount <= Len(file)
  <2> DEFINE part == SubSeq(file, next + 1, next + amount)
  <2>1. /\ buffer' = Raw(part)
        /\ given' = SubSeq(sent, next * ByteBits + 1, (next + amount) * ByteBits)
        /\ next' = next + amount /\ file' = file /\ sent' = sent
    BY <1>2 DEF readBinary
  <2>2. file \in Seq(Int) /\ next \in Nat /\ amount \in Nat /\ UnpackBytes(file) = sent
    BY DEF BitsInv
  <2>3. next' \in 0..Len(file')
    BY <1>2, <2>1, <2>2
  <2>4. UnpackBytes(part) = given'
    BY <1>2, <2>1, <2>2, UnpackSub
  <2>5. part \in Seq(Int)
    <3>1. \A k \in (next + 1)..(next + amount) : file[k] \in Int
      BY <1>2, <2>2
    <3> QED  BY <2>2, <3>1
  <2>6. Holds(buffer', given')
    <3> HIDE DEF part
    <3>1. Holds(Raw(part), UnpackBytes(part))
      BY <2>5, RawHolds
    <3> QED  BY <2>1, <2>4, <3>1
  <2> QED  BY <2>1, <2>2, <2>3, <2>6 DEF BitsInv
<1>3. CASE amount # 0 /\ ~ (~ failed /\ next + amount <= Len(file))
  <2>1. next' = Len(file) /\ UNCHANGED <<buffer, file, given, sent>>
    BY <1>3 DEF readBinary
  <2> QED  BY <2>1 DEF BitsInv
<1> QED  BY <1>1, <1>2, <1>3

LEMMA BitsStep == BitsInv /\ [BitsNext]_bitVars => BitsInv'
<1> SUFFICES ASSUME BitsInv, [BitsNext]_bitVars PROVE BitsInv'
  OBVIOUS
<1>1. Holds(buffer, given) /\ given \in Seq(Bit) /\ buffer.count = Len(given) /\ ByteBits \in Nat \ {0}
      /\ MaxBits \in Nat
  BY BitsAssumption DEF BitsInv, Holds
<1>2. CASE clearBits
  BY <1>2, BecomesKeeps, EmptyHolds DEF clearBits
<1>3. CASE writeBuffer
  BY <1>1, <1>3, WriteKeeps DEF writeBuffer
<1>4. CASE Open
  <2>1. file' = <<>> /\ sent' = <<>> /\ next' = 0 /\ buffer' = buffer /\ given' = given
    BY <1>4 DEF Open
  <2>2. file' \in Seq(Int) /\ next' \in 0..Len(file')
    BY <2>1
  <2>3. UnpackBytes(file') = sent'
    BY <2>1, EmptyHolds
  <2> QED  BY <1>1, <2>1, <2>2, <2>3 DEF BitsInv
<1>5. ASSUME NEW n \in 0..MaxBits, Sized(n) PROVE BitsInv'
  <2>1. n \in Nat
    BY <1>1
  <2> QED  BY <1>5, <2>1, BecomesKeeps, SizedHolds DEF Sized
<1>6. ASSUME NEW bits \in Seq(Bit) PROVE Holds(PushBits(NoBits, bits), bits)
  <2>1. Holds(PushBits(NoBits, bits), <<>> \o bits)
    BY EmptyHolds, PushBitsHold
  <2>2. <<>> \o bits = bits
    OBVIOUS
  <2> QED  BY <2>1, <2>2
<1>7. ASSUME NEW n \in 0..MaxBits, FromBits([k \in 1..n |-> k % 2]) PROVE BitsInv'
  <2> DEFINE bits == [k \in 1..n |-> k % 2]
  <2>1. bits \in Seq(Bit)
    <3>1. n \in Nat /\ \A k \in 1..n : (k % 2) \in {0, 1}
      BY <1>1
    <3> QED  BY <3>1 DEF Bit
  <2> HIDE DEF bits
  <2>2. FromBits(bits)
    BY <1>7 DEF bits
  <2> QED  BY <1>6, <2>1, <2>2, BecomesKeeps DEF FromBits
<1>8. ASSUME NEW bytes \in BoundedSeq(Bytes, 2), FromRaw(bytes) PROVE BitsInv'
  <2>1. Holds(Raw(bytes), UnpackBytes(bytes))
    BY BytesAre, RawHolds
  <2> QED  BY <1>8, <2>1, BecomesKeeps DEF FromRaw
<1>9. ASSUME NEW bytes \in BoundedSeq(Bytes, 2), Encode(bytes) PROVE BitsInv'
  <2>1. Holds(from(bytes), UnpackBytes(bytes))
    BY BytesAre, FromHolds
  <2> QED  BY <1>9, <2>1, BecomesKeeps DEF Encode
<1>10. ASSUME NEW n \in 1..2, NEW bits \in BitStrings(n), push(bits) PROVE BitsInv'
  <2>1. bits \in Seq(Bit)
    <3>1. n \in Nat
      OBVIOUS
    <3> QED  BY <3>1, BitStringsAre
  <2> QED  BY <1>1, <1>10, <2>1, PushBitsHold, BecomesKeeps DEF push
<1>11. ASSUME NEW byte \in Bytes, NEW n \in 1..ByteBits, pushByte(byte, n) PROVE BitsInv'
  <2>1. byte \in Int /\ n \in 0..ByteBits
    BY <1>1 DEF Bytes, Unsigned
  <2>2. LowBits(byte, n) \in Seq(Bit)
    BY <2>1, LowBitsAre
  <2> QED  BY <1>1, <1>11, <2>2, PushBitsHold, BecomesKeeps DEF pushByte
<1>12. ASSUME NEW i \in 0..(MaxBits - 1), NEW bit \in {0, 1}, assign(i, bit) PROVE BitsInv'
  <2>1. i \in 0..(Len(given) - 1) /\ bit \in Bit
    BY <1>1, <1>12 DEF assign, Bit
  <2>2. Holds(SetBit(buffer, i, bit), [given EXCEPT ![i + 1] = bit])
    BY <1>1, <2>1, AssignHolds
  <2> QED  BY <1>12, <2>2, BecomesKeeps DEF assign
<1>13. ASSUME NEW bits \in BitStrings(ByteBits + 1) PROVE bits \in Seq(Bit)
  <2>1. ByteBits + 1 \in Nat
    BY <1>1
  <2> QED  BY <2>1, BitStringsAre
<1>14. ASSUME NEW bits \in BitStrings(ByteBits + 1), writeVector(bits) PROVE BitsInv'
  BY <1>6, <1>13, <1>14, WriteKeeps DEF writeVector
<1>15. ASSUME NEW bits \in BitStrings(ByteBits + 1), writeBitset(bits) PROVE BitsInv'
  <2>1. Reverse(bits) \in Seq(Bit)
    BY <1>13, ReverseIs
  <2> QED  BY <1>6, <1>15, <2>1, WriteKeeps DEF writeBitset
<1>16. ASSUME NEW amount \in 0..2, readBinary(amount) PROVE BitsInv'
  BY <1>16, ReadKeeps
<1>17. CASE UNCHANGED bitVars
  BY <1>17 DEF bitVars, BitsInv
<1> QED
  BY <1>2, <1>3, <1>4, <1>5, <1>7, <1>8, <1>9, <1>10, <1>11, <1>12, <1>14, <1>15, <1>16, <1>17
  DEF BitsNext

LEMMA HeldFromInv == BitsInv => BitsAreHeld
<1> SUFFICES ASSUME BitsInv PROVE BitsAreHeld
  OBVIOUS
<1> DEFINE n == ByteBits
           l == Len(given)
           w == Len(buffer.bytes)
<1>1. /\ n \in Nat \ {0} /\ buffer.count = l /\ w = BytesFor(l) /\ given \in Seq(Bit)
      /\ buffer.bytes \in Seq(Int) /\ l \in Nat /\ w \in Nat
      /\ ReadsAs(buffer.bytes, given) /\ UnpackBytes(file) = sent
      /\ l <= w * n
  <2>1. n \in Nat \ {0} /\ buffer.count = l /\ w = BytesFor(l) /\ given \in Seq(Bit)
        /\ buffer.bytes \in Seq(Int) /\ ReadsAs(buffer.bytes, given) /\ UnpackBytes(file) = sent
    BY BitsAssumption DEF BitsInv, Holds
  <2>2. l \in Nat /\ w \in Nat
    BY <2>1
  <2> QED  BY <2>1, <2>2, BytesForHolds
<1>2. UnpackBytes(buffer.bytes) = Padded(given)
  BY PaddedIs DEF BitsInv
<1>3. ASSUME NEW i \in 1..l PROVE BitAt(buffer, i - 1) = given[i]
  <2> DEFINE q == (i - 1) \div n
             r == (i - 1) % n
  <2>1. i - 1 \in Nat /\ i - 1 < l /\ (i - 1) + 1 = i
    BY <1>1
  <2>2. q \in Nat /\ r \in 0..(n - 1) /\ i - 1 = n * q + r
    <3> HIDE DEF n
    <3> QED  BY <1>1, <2>1, PlaceOf
  <2>3. BitAt(buffer, i - 1) = Slot(buffer.bytes, q, r)
    BY DEF BitAt, Slot, bitOffset
  <2> HIDE DEF q, r
  <2>4. n * q + r < w * n
    <3> DEFINE k == n * q + r
    <3>1. k < l /\ k \in Nat /\ w * n \in Nat
      BY <1>1, <2>1, <2>2
    <3> HIDE DEF k, l
    <3> QED  BY <1>1, <3>1 DEF k
  <2>5. q < w
    <3> HIDE DEF n, w
    <3> QED  BY <1>1, <2>2, <2>4, Below
  <2>6. q \in 0..(w - 1)
    BY <1>1, <2>2, <2>5
  <2>7. Slot(buffer.bytes, q, r) = IF n * q + r < l THEN given[n * q + r + 1] ELSE 0
    BY <1>1, <2>2, <2>6 DEF ReadsAs
  <2>8. n * q + r < l /\ n * q + r + 1 = i
    BY <2>1, <2>2
  <2> QED  BY <2>3, <2>7, <2>8
<1> QED  BY <1>1, <1>2, <1>3 DEF BitsAreHeld

\* Whatever fills it, the buffer holds its bits and the file the bits sent, for
\* bytes of any width and buffers and files of any size.
THEOREM BitsInvariant == BitsSpec => []BitsInv
<1> QED  BY BitsStart, BitsStep, PTL DEF BitsSpec

\* BitsAreHeld: the buffer reads as the bits put into it, in just the bytes they
\* take, the unused bits 0, and the file's bytes are the bits written (bitBuffer.hpp, writeBin.hpp).
THEOREM BitsAreAlwaysHeld == BitsSpec => []BitsAreHeld
<1> QED  BY BitsInvariant, HeldFromInv, PTL

-----------------------------------------------------------------------------
(* autoCorrectFilter *)

\* One letter, in either case.
OneLetter(x, y) == tolower[x] = tolower[y]

(* Letters are a number apart, and no distance only from themselves and the  *)
(* same letter in the other case.                                            *)
LEMMA Distance ==
  ASSUME NEW x, NEW y
  PROVE  findLetterDistance(x, y) \in Nat /\ (findLetterDistance(x, y) = 0 => OneLetter(x, y))
BY CorrectAssumption DEF findLetterDistance, kMaxDistance, OneLetter

\* Where fixHelper's loop can be.
Places(s, w) == [i : 0..Len(s), j : 0..Len(w), total : Nat]
Over(s, w, at) == at.i = Len(s) \/ at.j = Len(w)

\* A turn passes di letters of s and dj of w at a cost, and is one edit.
IsMove(s, w, at, di, dj, c) ==
  /\ Turn(s, w, at) = [i |-> at.i + di, j |-> at.j + dj, total |-> at.total + c]
  /\ at.i + di <= Len(s) /\ at.j + dj <= Len(w)
  /\ <<at.i + di, at.j + dj, at.total + c>> \in EditsFrom(s, w, <<at.i, at.j, at.total>>)
  /\ di + dj >= 1 /\ c >= 2 * (di - dj) /\ c >= 2 * (dj - di)
  /\ c = 0 => di = 1 /\ dj = 1 /\ OneLetter(s[at.i + 1], w[at.j + 1])

(* Every turn before the last is one edit that passes some letter. *)
LEMMA TurnMoves ==
  ASSUME NEW s \in Seq(Symbols), NEW w \in Seq(Symbols), NEW at \in Places(s, w), ~Over(s, w, at)
  PROVE  \E di \in 0..2, dj \in 0..2, c \in Nat : IsMove(s, w, at, di, dj, c)
<1> DEFINE i == at.i + 1
           j == at.j + 1
           left == Len(s) - at.i
           wordLeft == Len(w) - at.j
           d == findLetterDistance(s[i], w[j])
           Move(di, dj, cost) == [i |-> at.i + di, j |-> at.j + dj, total |-> at.total + cost]
           To(di, dj, c) == <<at.i + di, at.j + dj, at.total + c>>
           swaps == left > 1 /\ wordLeft > 1 /\ same(s[i], w[j + 1]) /\ same(s[i + 1], w[j])
           E == EditsFrom(s, w, <<at.i, at.j, at.total>>)
<1>1. /\ at.i \in Nat /\ at.j \in Nat /\ at.total \in Nat /\ Len(s) \in Nat /\ Len(w) \in Nat
      /\ at.i <= Len(s) /\ at.j <= Len(w) /\ left # 0 /\ wordLeft # 0
  BY DEF Places, Over
<1>2. left >= 1 /\ wordLeft >= 1 /\ i <= Len(s) /\ j <= Len(w)
  BY <1>1
<1>3. d \in Nat /\ (d = 0 => OneLetter(s[i], w[j]))
  BY Distance
<1>4. Turn(s, w, at) =
        IF same(s[i], w[j]) THEN Move(1, 1, 0)
        ELSE IF swaps THEN Move(2, 2, 1)
        ELSE IF wordLeft > left /\ same(s[i], w[j + 1]) THEN Move(0, 1, 2)
        ELSE IF left > wordLeft /\ same(s[i + 1], w[j]) THEN Move(1, 0, 2)
        ELSE Move(1, 1, d)
  BY <1>1 DEF Turn, kSwapCost, kGapCost
<1>5. To(1, 0, 2) \in E /\ To(0, 1, 2) \in E
  BY <1>1 DEF EditsFrom, kGapCost
<1>6. To(1, 1, d) \in E
  BY <1>1, <1>2 DEF EditsFrom
<1>7. swaps => To(2, 2, 1) \in E
  <2>1. SUFFICES ASSUME swaps PROVE To(2, 2, 1) \in E
    OBVIOUS
  <2>2. i < Len(s) /\ j < Len(w)
    BY <1>1, <2>1
  <2>3. To(2, 2, 1) = <<i + 1, j + 1, at.total + kSwapCost>>
    BY <1>1 DEF kSwapCost
  <2>4. <<i + 1, j + 1, at.total + kSwapCost>> \in E
    BY <2>1, <2>2 DEF EditsFrom
  <2> QED  BY <2>3, <2>4
<1>8. CASE same(s[i], w[j])
  <2>1. d = 0
    BY <1>8 DEF same
  <2>2. Turn(s, w, at) = Move(1, 1, d)
    BY <1>4, <1>8, <2>1
  <2>3. IsMove(s, w, at, 1, 1, d)
    BY <1>1, <1>2, <1>3, <1>6, <2>2 DEF IsMove
  <2> QED  BY <1>3, <2>3
<1>9. CASE ~same(s[i], w[j]) /\ swaps
  <2>1. Turn(s, w, at) = Move(2, 2, 1)
    BY <1>4, <1>9
  <2>2. To(2, 2, 1) \in E
    BY <1>7, <1>9
  <2>3. at.i + 2 <= Len(s) /\ at.j + 2 <= Len(w)
    <3>1. Len(s) - at.i > 1 /\ Len(w) - at.j > 1
      BY <1>9
    <3> QED  BY <1>1, <3>1
  <2>4. IsMove(s, w, at, 2, 2, 1)
    BY <2>1, <2>2, <2>3 DEF IsMove
  <2> QED  BY <2>4
<1>10. CASE ~same(s[i], w[j]) /\ ~swaps /\ wordLeft > left /\ same(s[i], w[j + 1])
  <2>1. IsMove(s, w, at, 0, 1, 2)
    BY <1>1, <1>2, <1>4, <1>5, <1>10 DEF IsMove
  <2> QED  BY <2>1
<1>11. CASE /\ ~same(s[i], w[j]) /\ ~swaps /\ ~ (wordLeft > left /\ same(s[i], w[j + 1]))
            /\ left > wordLeft /\ same(s[i + 1], w[j])
  <2>1. IsMove(s, w, at, 1, 0, 2)
    BY <1>1, <1>2, <1>4, <1>5, <1>11 DEF IsMove
  <2> QED  BY <2>1
<1>12. CASE /\ ~same(s[i], w[j]) /\ ~swaps /\ ~ (wordLeft > left /\ same(s[i], w[j + 1]))
            /\ ~ (left > wordLeft /\ same(s[i + 1], w[j]))
  <2>1. IsMove(s, w, at, 1, 1, d)
    BY <1>1, <1>2, <1>3, <1>4, <1>6, <1>12 DEF IsMove
  <2> QED  BY <1>3, <2>1
<1> QED  BY <1>8, <1>9, <1>10, <1>11, <1>12

(* A turn stays within the two strings, and never lowers the total. *)
LEMMA TurnStays ==
  ASSUME NEW s \in Seq(Symbols), NEW w \in Seq(Symbols), NEW at \in Places(s, w)
  PROVE  Turn(s, w, at) \in Places(s, w)
<1>1. CASE Over(s, w, at)
  <2>1. Turn(s, w, at) = at
    BY <1>1 DEF Turn, Over, Places
  <2> QED  BY <2>1
<1>2. CASE ~Over(s, w, at)
  <2>1. PICK di \in 0..2, dj \in 0..2, c \in Nat : IsMove(s, w, at, di, dj, c)
    BY <1>2, TurnMoves
  <2>2. at.i + di \in 0..Len(s) /\ at.j + dj \in 0..Len(w) /\ at.total + c \in Nat
    BY <2>1 DEF IsMove, Places
  <2> QED  BY <2>1, <2>2 DEF IsMove, Places
<1> QED  BY <1>1, <1>2

\* Where fixHelper's loop is after each turn, and the cost it comes to.
Turns(s, w) == Len(s) + Len(w)
IsWalk(s, w, turn) ==
  /\ turn[0] = [i |-> 0, j |-> 0, total |-> 0]
  /\ \A k \in 1..Turns(s, w) : turn[k] = Turn(s, w, turn[k - 1])
  /\ Cost(s, w) = turn[Turns(s, w)].total
       + 2 * ((Len(s) - turn[Turns(s, w)].i) + (Len(w) - turn[Turns(s, w)].j))

LEMMA CostWalk ==
  ASSUME NEW s \in Seq(Symbols), NEW w \in Seq(Symbols)
  PROVE  \E turn \in [0..Turns(s, w) -> Places(s, w)] : IsWalk(s, w, turn)
<1> DEFINE n == Len(s) + Len(w)
           start == [i |-> 0, j |-> 0, total |-> 0]
           P == Places(s, w)
           F(f) == f = [k \in 0..n |-> IF k = 0 THEN start ELSE Turn(s, w, f[k - 1])]
           step == [k \in 1..n |-> [at \in P |-> Turn(s, w, at)]]
<1>1. n \in Nat /\ n = Turns(s, w) /\ start \in P
  BY DEF Turns, Places
<1>2. \E f : F(f)
  <2>1. step \in [1..n -> [P -> P]]
    <3>1. \A at \in P : Turn(s, w, at) \in P
      BY TurnStays
    <3> HIDE DEF P
    <3> QED  BY <3>1
  <2>2. PICK f \in [0..n -> P] : Runs(f, start, step, n)
    <3> HIDE DEF step, n, start, P
    <3> QED  BY <1>1, <2>1, LoopRuns
  <2>3. ASSUME NEW k \in 0..n PROVE f[k] = IF k = 0 THEN start ELSE Turn(s, w, f[k - 1])
    <3> HIDE DEF P, start, n
    <3>1. k # 0 => k \in 1..n /\ f[k - 1] \in P
      BY <1>1
    <3> QED  BY <2>2, <3>1 DEF Runs
  <2>4. F(f)
    BY <2>3
  <2> QED  BY <2>4
<1> DEFINE turn == CHOOSE f : F(f)
<1>3. F(turn)
  <2> HIDE DEF F
  <2> QED  BY <1>2
<1>4. Cost(s, w) = turn[n].total + TailCost(Len(s) - turn[n].i, Len(w) - turn[n].j)
  BY DEF Cost
<1> HIDE DEF turn
<1>5. /\ turn[0] = start
      /\ \A k \in 1..n : turn[k] = Turn(s, w, turn[k - 1])
      /\ DOMAIN turn = 0..n
  <2> HIDE DEF start
  <2>1. n \in Nat
    BY <1>1
  <2> HIDE DEF n
  <2>2. 0 \in 0..n /\ \A k \in 1..n : k \in 0..n /\ k # 0
    BY <2>1
  <2> QED  BY <1>3, <2>2
<1>6. \A k \in 0..n : turn[k] \in P
  <2>1. \A k \in 1..n : turn[k - 1] \in P => turn[k] \in P
    BY <1>5, TurnStays
  <2>2. turn[0] \in P
    BY <1>1, <1>5
  <2> HIDE DEF P, start, n, F
  <2> QED  BY <1>1, <2>1, <2>2, LoopInvariant
<1>7. turn \in [0..n -> P]
  <2> HIDE DEF P, start
  <2> QED  BY <1>3, <1>6
<1>8. IsWalk(s, w, turn)
  BY <1>1, <1>4, <1>5 DEF IsWalk, TailCost, kGapCost
<1> QED  BY <1>1, <1>7, <1>8


\* What the loop has counted is at least the gaps, and nothing only for what agrees.
CountsRight(s, w, at) ==
  /\ at.total >= 2 * (at.i - at.j) /\ at.total >= 2 * (at.j - at.i)
  /\ at.total = 0 => at.i = at.j /\ \A q \in 1..at.i : OneLetter(s[q], w[q])

LEMMA GapsAdd ==
  \A i, j, t, di, dj, c \in Nat :
    t >= 2 * (i - j) /\ t >= 2 * (j - i) /\ c >= 2 * (di - dj) /\ c >= 2 * (dj - di)
      => t + c >= 2 * ((i + di) - (j + dj)) /\ t + c >= 2 * ((j + dj) - (i + di))
OBVIOUS

LEMMA WalkCounts ==
  ASSUME NEW s \in Seq(Symbols), NEW w \in Seq(Symbols),
         NEW turn \in [0..Turns(s, w) -> Places(s, w)], IsWalk(s, w, turn)
  PROVE  \A k \in 0..Turns(s, w) : CountsRight(s, w, turn[k])
<1> DEFINE T == {at \in Places(s, w) : CountsRight(s, w, at)}
           n == Turns(s, w)
<1>1. n \in Nat
  BY DEF Turns
<1>2. turn[0] \in T
  <2>1. turn[0] = [i |-> 0, j |-> 0, total |-> 0]
    BY DEF IsWalk
  <2> QED  BY <2>1 DEF CountsRight, Places
<1>3. ASSUME NEW k \in 1..n, turn[k - 1] \in T PROVE turn[k] \in T
  <2> DEFINE at == turn[k - 1]
  <2>1. at \in Places(s, w) /\ CountsRight(s, w, at) /\ turn[k] = Turn(s, w, at)
    BY <1>3 DEF IsWalk
  <2> HIDE DEF at
  <2>2. CASE Over(s, w, at)
    <3>1. Turn(s, w, at) = at
      BY <2>1, <2>2 DEF Turn, Over, Places
    <3> QED  BY <2>1, <3>1
  <2>3. CASE ~Over(s, w, at)
    <3>1. PICK di \in 0..2, dj \in 0..2, c \in Nat : IsMove(s, w, at, di, dj, c)
      BY <2>1, <2>3, TurnMoves
    <3> DEFINE to == [i |-> at.i + di, j |-> at.j + dj, total |-> at.total + c]
    <3>2. /\ Turn(s, w, at) = to
          /\ c >= 2 * (di - dj) /\ c >= 2 * (dj - di)
          /\ c = 0 => di = 1 /\ dj = 1 /\ OneLetter(s[at.i + 1], w[at.j + 1])
      BY <3>1 DEF IsMove
    <3>3. at.i \in Nat /\ at.j \in Nat /\ at.total \in Nat
      BY <2>1 DEF Places
    <3>4. to.total >= 2 * (to.i - to.j) /\ to.total >= 2 * (to.j - to.i)
      <4>1. /\ at.total >= 2 * (at.i - at.j) /\ at.total >= 2 * (at.j - at.i)
            /\ c >= 2 * (di - dj) /\ c >= 2 * (dj - di)
        BY <2>1, <3>2 DEF CountsRight
      <4>2. /\ at.total + c >= 2 * ((at.i + di) - (at.j + dj))
            /\ at.total + c >= 2 * ((at.j + dj) - (at.i + di))
        BY <3>3, <4>1, di \in Nat, dj \in Nat, GapsAdd
      <4> QED  BY <4>2
    <3>5. ASSUME to.total = 0 PROVE to.i = to.j /\ \A q \in 1..to.i : OneLetter(s[q], w[q])
      <4>1. at.total = 0 /\ c = 0
        BY <3>3, <3>5
      <4>2. at.i = at.j /\ (\A q \in 1..at.i : OneLetter(s[q], w[q])) /\ di = 1 /\ dj = 1
            /\ OneLetter(s[at.i + 1], w[at.j + 1])
        BY <2>1, <3>2, <4>1 DEF CountsRight
      <4>3. to.i = at.i + 1 /\ to.j = at.i + 1
        BY <4>2
      <4>4. ASSUME NEW q \in 1..(at.i + 1) PROVE OneLetter(s[q], w[q])
        <5>1. q \in 1..at.i \/ q = at.i + 1
          BY <3>3
        <5> QED  BY <4>2, <5>1
      <4> QED  BY <4>3, <4>4
    <3>6. to \in Places(s, w)
      BY <2>1, <3>2, TurnStays
    <3> HIDE DEF to
    <3> QED  BY <2>1, <3>2, <3>4, <3>5, <3>6 DEF CountsRight
  <2> QED  BY <2>2, <2>3
<1>4. \A k \in 0..n : turn[k] \in T
  <2> HIDE DEF T, n
  <2>1. \A k \in 1..n : turn[k - 1] \in T => turn[k] \in T
    BY <1>3
  <2> QED  BY <1>1, <1>2, <2>1, LoopInvariant
<1> QED  BY <1>4

(* The loop ends with one of the strings used up. *)
LEMMA WalkEnds ==
  ASSUME NEW s \in Seq(Symbols), NEW w \in Seq(Symbols),
         NEW turn \in [0..Turns(s, w) -> Places(s, w)], IsWalk(s, w, turn)
  PROVE  Over(s, w, turn[Turns(s, w)])
<1> DEFINE n == Turns(s, w)
           S == {k \in 0..n : Over(s, w, turn[k]) \/ turn[k].i + turn[k].j >= k}
<1>1. n \in Nat /\ n = Len(s) + Len(w) /\ Len(s) \in Nat /\ Len(w) \in Nat
  BY DEF Turns
<1>2. 0 \in S
  BY <1>1 DEF IsWalk
<1>3. ASSUME NEW k \in 0..(n - 1), k \in S PROVE k + 1 \in S
  <2> DEFINE at == turn[k]
  <2>1. at \in Places(s, w) /\ turn[k + 1] = Turn(s, w, at) /\ k + 1 \in 0..n
    <3>1. k + 1 \in 1..n /\ (k + 1) - 1 = k /\ k \in 0..n
      BY <1>1
    <3> QED  BY <3>1 DEF IsWalk
  <2>2. Over(s, w, at) \/ at.i + at.j >= k
    BY <1>3
  <2> HIDE DEF at, n
  <2>3. CASE Over(s, w, at)
    <3>1. Turn(s, w, at) = at
      BY <2>1, <2>3 DEF Turn, Over, Places
    <3> QED  BY <2>1, <2>3, <3>1
  <2>4. CASE ~Over(s, w, at)
    <3>1. PICK di \in 0..2, dj \in 0..2, c \in Nat : IsMove(s, w, at, di, dj, c)
      BY <2>1, <2>4, TurnMoves
    <3>2. turn[k + 1].i = at.i + di /\ turn[k + 1].j = at.j + dj /\ di + dj >= 1
      BY <2>1, <3>1 DEF IsMove
    <3>3. at.i \in Nat /\ at.j \in Nat
      BY <2>1 DEF Places
    <3>4. k \in Int /\ turn[k + 1].i + turn[k + 1].j >= k + 1
      BY <2>2, <2>4, <3>2, <3>3
    <3> QED  BY <2>1, <3>4
  <2> QED  BY <2>3, <2>4
<1>4. n \in S
  <2> HIDE DEF S, n
  <2>1. \A k \in 0..(n - 1) : k \in S => k + 1 \in S
    BY <1>3
  <2>2. \A k \in 0..n : k \in S
    BY <1>1, <1>2, <2>1, InductionTo
  <2> QED  BY <1>1, <2>2
<1>5. turn[n] \in Places(s, w)
  BY <1>1
<1> QED  BY <1>1, <1>4, <1>5 DEF Over, Places


(* Strings of one length that agree everywhere up to case are one in lower   *)
(* case, and the other way round.                                            *)
LEMMA SameWords ==
  ASSUME NEW s \in Seq(Symbols), NEW w \in Seq(Symbols)
  PROVE  Lower(s) = Lower(w)
           <=> Len(s) = Len(w) /\ \A q \in 1..Len(s) : OneLetter(s[q], w[q])
<1>1. /\ DOMAIN Lower(s) = 1..Len(s) /\ DOMAIN Lower(w) = 1..Len(w)
      /\ Len(s) \in Nat /\ Len(w) \in Nat
      /\ \A q \in 1..Len(s) : Lower(s)[q] = tolower[s[q]]
      /\ \A q \in 1..Len(w) : Lower(w)[q] = tolower[w[q]]
  BY DEF Lower
<1>2. ASSUME Lower(s) = Lower(w)
      PROVE  Len(s) = Len(w) /\ \A q \in 1..Len(s) : OneLetter(s[q], w[q])
  <2>1. 1..Len(s) = 1..Len(w)
    BY <1>1, <1>2
  <2>2. Len(s) = Len(w)
    BY <1>1, <2>1
  <2> QED  BY <1>1, <1>2, <2>2 DEF OneLetter
<1>3. ASSUME Len(s) = Len(w), \A q \in 1..Len(s) : OneLetter(s[q], w[q])
      PROVE  Lower(s) = Lower(w)
  BY <1>3 DEF Lower, OneLetter
<1> QED  BY <1>2, <1>3

LEMMA GapsEnd ==
  \A i, j, t, a, b \in Nat :
    t >= 2 * (i - j) /\ t >= 2 * (j - i) /\ i <= a /\ j <= b =>
      /\ t + 2 * ((a - i) + (b - j)) \in Nat
      /\ t + 2 * ((a - i) + (b - j)) >= 2 * (a - b) /\ t + 2 * ((a - i) + (b - j)) >= 2 * (b - a)
      /\ t + 2 * ((a - i) + (b - j)) = 0 => t = 0 /\ i = a /\ j = b
OBVIOUS

(* The cost is a number; it counts every letter that the lengths differ by,  *)
(* and nothing only if the two are the same up to case.                      *)
LEMMA CostFacts ==
  ASSUME NEW s \in Seq(Symbols), NEW w \in Seq(Symbols)
  PROVE  /\ Cost(s, w) \in Nat
         /\ Cost(s, w) >= 2 * (Len(s) - Len(w)) /\ Cost(s, w) >= 2 * (Len(w) - Len(s))
         /\ Cost(s, w) = 0 => Lower(s) = Lower(w)
<1>1. PICK turn \in [0..Turns(s, w) -> Places(s, w)] : IsWalk(s, w, turn)
  BY CostWalk
<1> DEFINE n == Turns(s, w)
           at == turn[n]
<1>2. n \in Nat /\ n \in 0..n /\ Len(s) \in Nat /\ Len(w) \in Nat
  BY DEF Turns
<1>3. at \in Places(s, w) /\ CountsRight(s, w, at)
  BY <1>1, <1>2, WalkCounts
<1>4. Cost(s, w) = at.total + 2 * ((Len(s) - at.i) + (Len(w) - at.j))
  BY <1>1 DEF IsWalk
<1> HIDE DEF at
<1>5. /\ at.i \in Nat /\ at.j \in Nat /\ at.total \in Nat /\ at.i <= Len(s) /\ at.j <= Len(w)
      /\ at.total >= 2 * (at.i - at.j) /\ at.total >= 2 * (at.j - at.i)
  BY <1>3 DEF Places, CountsRight
<1>7. /\ Cost(s, w) \in Nat
      /\ Cost(s, w) >= 2 * (Len(s) - Len(w)) /\ Cost(s, w) >= 2 * (Len(w) - Len(s))
      /\ Cost(s, w) = 0 => at.total = 0 /\ at.i = Len(s) /\ at.j = Len(w)
  <2> DEFINE c == at.total + 2 * ((Len(s) - at.i) + (Len(w) - at.j))
  <2>1. c \in Nat /\ c >= 2 * (Len(s) - Len(w)) /\ c >= 2 * (Len(w) - Len(s))
        /\ (c = 0 => at.total = 0 /\ at.i = Len(s) /\ at.j = Len(w))
    BY <1>2, <1>5, GapsEnd
  <2> HIDE DEF c
  <2>2. Cost(s, w) = c
    BY <1>4 DEF c
  <2> QED  BY <2>1, <2>2
<1>8. ASSUME Cost(s, w) = 0 PROVE Lower(s) = Lower(w)
  <2>1. at.total = 0 /\ at.i = Len(s) /\ at.j = Len(w)
    BY <1>7, <1>8
  <2>2. Len(s) = Len(w) /\ \A q \in 1..Len(s) : OneLetter(s[q], w[q])
    BY <1>3, <2>1 DEF CountsRight
  <2> QED  BY <2>2, SameWords
<1> QED  BY <1>7, <1>8

LEMMA CostIsNat == \A s, w \in Seq(Symbols) : Cost(s, w) \in Nat
BY CostFacts

(* A string of letters costs nothing against any spelling of itself. *)
LEMMA CostOfSpelling ==
  ASSUME NEW s \in Seq(Symbols), NEW w \in Seq(Symbols), AllLetters(s), Lower(w) = Lower(s)
  PROVE  Cost(s, w) = 0
<1>1. PICK turn \in [0..Turns(s, w) -> Places(s, w)] : IsWalk(s, w, turn)
  BY CostWalk
<1> DEFINE n == Turns(s, w)
           T == {at \in Places(s, w) : at.i = at.j /\ at.total = 0}
<1>2. n \in Nat /\ n \in 0..n /\ Len(s) \in Nat /\ Len(w) = Len(s)
  BY SameWords DEF Turns
<1>3. turn[0] \in T
  BY <1>1, <1>2 DEF IsWalk
<1>4. ASSUME NEW k \in 1..n, turn[k - 1] \in T PROVE turn[k] \in T
  <2> DEFINE at == turn[k - 1]
  <2>1. at \in Places(s, w) /\ at.i = at.j /\ at.total = 0 /\ turn[k] = Turn(s, w, at)
    BY <1>1, <1>4 DEF IsWalk
  <2>2. turn[k] \in Places(s, w)
    BY <1>2
  <2> HIDE DEF at
  <2>3. CASE at.i = Len(s)
    <3>1. Turn(s, w, at) = at
      BY <2>1, <2>3 DEF Turn, Places
    <3> QED  BY <2>1, <2>2, <3>1
  <2>4. CASE at.i # Len(s)
    <3>1. at.i + 1 \in DOMAIN s /\ Len(s) - at.i # 0 /\ Len(w) - at.j # 0
      BY <2>1, <2>4, <1>2 DEF Places
    <3>2. /\ tolower[s[at.i + 1]] \in DOMAIN lookupGrid
          /\ tolower[w[at.i + 1]] = tolower[s[at.i + 1]]
      <4>1. at.i + 1 \in DOMAIN Lower(s) /\ Lower(s)[at.i + 1] = tolower[s[at.i + 1]]
        BY <3>1 DEF Lower
      <4>2. Lower(s)[at.i + 1] \in ToSet(Lower(s))
        BY <4>1 DEF ToSet
      <4>3. at.i + 1 \in 1..Len(s)
        BY <3>1
      <4> QED  BY <4>1, <4>2, <4>3, SameWords DEF AllLetters, OneLetter
    <3>3. same(s[at.i + 1], w[at.j + 1])
      BY <2>1, <3>2, CorrectAssumption DEF same, findLetterDistance
    <3>4. Turn(s, w, at) = [i |-> at.i + 1, j |-> at.j + 1, total |-> at.total + 0]
      BY <2>1, <3>1, <3>3 DEF Turn
    <3>5. at.total + 0 = 0
      BY <2>1
    <3> QED  BY <2>1, <2>2, <3>4, <3>5
  <2> QED  BY <2>3, <2>4
<1>5. \A k \in 0..n : turn[k] \in T
  <2> HIDE DEF T, n
  <2>1. \A k \in 1..n : turn[k - 1] \in T => turn[k] \in T
    BY <1>4
  <2> QED  BY <1>2, <1>3, <2>1, LoopInvariant
<1>6. turn[n].i = turn[n].j /\ turn[n].total = 0
  BY <1>2, <1>5
<1>7. turn[n].i = Len(s)
  BY <1>1, <1>2, <1>6, WalkEnds DEF Over
<1> QED  BY <1>1, <1>2, <1>6, <1>7 DEF IsWalk


\* The edits' places of a budget, and one round of edits.
Spots(s, w, b) == (0..Len(s)) \X (0..Len(w)) \X (0..b)
Grown(s, w, b, R) == R \cup {q \in UNION {EditsFrom(s, w, p) : p \in R} : q \in Spots(s, w, b)}

\* What is reached in each round of edits, and what that says of CanBecome.
IsReached(s, w, b, reached) ==
  /\ reached[0] = {<<0, 0, 0>>}
  /\ \A k \in 1..Turns(s, w) : reached[k] = Grown(s, w, b, reached[k - 1])
  /\ CanBecome(s, w, b) <=> \E c \in 0..b : <<Len(s), Len(w), c>> \in reached[Turns(s, w)]

LEMMA EditsReach ==
  ASSUME NEW s \in Seq(Symbols), NEW w \in Seq(Symbols), NEW b \in Nat
  PROVE  \E reached : IsReached(s, w, b, reached)
<1> DEFINE n == Len(s) + Len(w)
           T == SUBSET Spots(s, w, b)
           start == {<<0, 0, 0>>}
           F(f) == f = [k \in 0..n |-> IF k = 0 THEN start ELSE
                     f[k - 1] \cup {q \in UNION {EditsFrom(s, w, p) : p \in f[k - 1]} :
                                      q \in (0..Len(s)) \X (0..Len(w)) \X (0..b)}]
           G(f) == f = [k \in 0..n |-> IF k = 0 THEN start ELSE Grown(s, w, b, f[k - 1])]
           step == [k \in 1..n |-> [R \in T |-> Grown(s, w, b, R)]]
<1>1. n \in Nat /\ n = Turns(s, w) /\ start \in T
  BY DEF Turns, Spots
<1>2. \E f : G(f)
  <2>1. step \in [1..n -> [T -> T]]
    <3>1. \A R \in T : Grown(s, w, b, R) \in T
      BY DEF Grown
    <3> HIDE DEF T
    <3> QED  BY <3>1
  <2>2. PICK f \in [0..n -> T] : Runs(f, start, step, n)
    <3> HIDE DEF step, n, start, T
    <3> QED  BY <1>1, <2>1, LoopRuns
  <2>3. ASSUME NEW k \in 0..n PROVE f[k] = IF k = 0 THEN start ELSE Grown(s, w, b, f[k - 1])
    <3> HIDE DEF T, start, n
    <3>1. k # 0 => k \in 1..n /\ f[k - 1] \in T
      BY <1>1
    <3> QED  BY <2>2, <3>1 DEF Runs
  <2>4. G(f)
    BY <2>3
  <2> QED  BY <2>4
<1>3. \A f : F(f) <=> G(f)
  BY DEF Grown, Spots
<1> DEFINE reached == CHOOSE f : F(f)
<1>4. F(reached)
  <2> HIDE DEF F, G
  <2> QED  BY <1>2, <1>3
<1>5. CanBecome(s, w, b) <=> \E c \in 0..b : <<Len(s), Len(w), c>> \in reached[n]
  BY DEF CanBecome
<1> HIDE DEF reached
<1>6. G(reached)
  <2> HIDE DEF F, G
  <2> QED  BY <1>3, <1>4
<1>7. reached[0] = start /\ \A k \in 1..n : reached[k] = Grown(s, w, b, reached[k - 1])
  <2> HIDE DEF start, F, n
  <2>1. 0 \in 0..n /\ \A k \in 1..n : k \in 0..n /\ k # 0
    BY <1>1
  <2>2. \A k \in 0..n : reached[k] = IF k = 0 THEN start ELSE Grown(s, w, b, reached[k - 1])
    BY <1>6
  <2> QED  BY <2>1, <2>2
<1> QED  BY <1>1, <1>5, <1>7 DEF IsReached


\* A place that every round has reached that can have passed so many letters.
Stands(s, w, reached, p) == \A k \in 0..Turns(s, w) : k >= p[1] + p[2] => p \in reached[k]

LEMMA BeginningStands ==
  ASSUME NEW s \in Seq(Symbols), NEW w \in Seq(Symbols), NEW b \in Nat,
         NEW reached, IsReached(s, w, b, reached)
  PROVE  Stands(s, w, reached, <<0, 0, 0>>)
<1> DEFINE n == Turns(s, w)
           S == {k \in Nat : <<0, 0, 0>> \in reached[k]}
<1>1. n \in Nat
  BY DEF Turns
<1>2. 0 \in S
  BY DEF IsReached
<1>3. ASSUME NEW k \in 0..(n - 1), k \in S PROVE k + 1 \in S
  <2>1. k + 1 \in 1..n /\ (k + 1) - 1 = k
    BY <1>1
  <2>2. reached[k + 1] = Grown(s, w, b, reached[k])
    BY <2>1 DEF IsReached
  <2> QED  BY <1>3, <2>1, <2>2 DEF Grown
<1>4. \A k \in 0..n : k \in S
  <2> HIDE DEF S, n
  <2>1. \A k \in 0..(n - 1) : k \in S => k + 1 \in S
    BY <1>3
  <2> QED  BY <1>1, <1>2, <2>1, InductionTo
<1> QED  BY <1>4 DEF Stands

LEMMA EditStands ==
  ASSUME NEW s \in Seq(Symbols), NEW w \in Seq(Symbols), NEW b \in Nat,
         NEW reached, IsReached(s, w, b, reached),
         NEW p \in Nat \X Nat \X Nat, Stands(s, w, reached, p),
         NEW q \in Spots(s, w, b), q \in EditsFrom(s, w, p), q[1] + q[2] >= p[1] + p[2] + 1
  PROVE  Stands(s, w, reached, q)
<1> SUFFICES ASSUME NEW k \in 0..Turns(s, w), k >= q[1] + q[2] PROVE q \in reached[k]
  BY DEF Stands
<1>1. p[1] \in Nat /\ p[2] \in Nat /\ q[1] \in Nat /\ q[2] \in Nat /\ Turns(s, w) \in Nat
  BY DEF Spots, Turns
<1>2. k \in 1..Turns(s, w) /\ k - 1 \in 0..Turns(s, w) /\ k - 1 >= p[1] + p[2]
  <2> DEFINE x == p[1] + p[2]
             y == q[1] + q[2]
             n == Turns(s, w)
  <2>1. x \in Nat /\ y \in Nat /\ n \in Nat
    <3>1. \A i, j \in Nat : i + j \in Nat
      OBVIOUS
    <3> HIDE DEF n
    <3> QED  BY <1>1, <3>1 DEF n
  <2>2. k \in 0..n /\ k >= y /\ y >= x + 1
    OBVIOUS
  <2> HIDE DEF x, y, n
  <2> QED  BY <2>1, <2>2 DEF x, n
<1>3. p \in reached[k - 1]
  BY <1>2 DEF Stands
<1>4. reached[k] = Grown(s, w, b, reached[k - 1])
  BY <1>2 DEF IsReached
<1> QED  BY <1>3, <1>4 DEF Grown

LEMMA TailIsMore ==
  \A n, m, b, t \in Nat : \A i \in 0..n, j \in 0..m :
    t + 2 * ((n - i) + (m - j)) <= b => t <= b
OBVIOUS

(* The letters left on either side can be left out and put in.               *)
LEMMA TailBecomes ==
  ASSUME NEW s \in Seq(Symbols), NEW w \in Seq(Symbols), NEW b \in Nat,
         NEW reached, IsReached(s, w, b, reached),
         NEW i \in 0..Len(s), NEW j \in 0..Len(w), NEW t \in Nat,
         Stands(s, w, reached, <<i, j, t>>), t + 2 * ((Len(s) - i) + (Len(w) - j)) <= b
  PROVE  CanBecome(s, w, b)
<1> DEFINE n == Len(s)
           m == Len(w)
           t2 == t + 2 * (n - i)
           out(d) == <<i + d, j, t + 2 * d>>
           in(d) == <<n, j + d, t2 + 2 * d>>
           S == {d \in 0..(n - i) : Stands(s, w, reached, out(d))}
           R == {d \in 0..(m - j) : Stands(s, w, reached, in(d))}
<1>1. n \in Nat /\ m \in Nat /\ n - i \in Nat /\ m - j \in Nat /\ t2 \in Nat
  OBVIOUS
<1>2. 0 \in S
  <2>1. out(0) = <<i, j, t>>
    OBVIOUS
  <2> QED  BY <1>1, <2>1
<1>3. ASSUME NEW d \in 0..((n - i) - 1), d \in S PROVE d + 1 \in S
  <2>1. Stands(s, w, reached, out(d))
    BY <1>3
  <2>2. out(d) \in Nat \X Nat \X Nat
    BY <1>1
  <2>3. out(d + 1) = <<(i + d) + 1, ((j + 1) - 1), (t + 2 * d) + 2>>
    BY <1>1
  <2>4. out(d + 1) \in EditsFrom(s, w, out(d))
    BY <2>3 DEF EditsFrom, kGapCost
  <2>5. i + d + 1 <= n /\ t + 2 * (d + 1) <= b
    BY <1>1
  <2>6. out(d + 1) \in Spots(s, w, b)
    BY <1>1, <2>5 DEF Spots
  <2>7. out(d + 1)[1] + out(d + 1)[2] >= out(d)[1] + out(d)[2] + 1
    BY <1>1
  <2>8. Stands(s, w, reached, out(d + 1))
    <3> HIDE DEF out
    <3> QED  BY <2>1, <2>2, <2>4, <2>6, <2>7, EditStands
  <2> QED  BY <1>1, <2>8
<1>4. n - i \in S
  <2> HIDE DEF S, n
  <2>1. \A d \in 0..((n - i) - 1) : d \in S => d + 1 \in S
    BY <1>3
  <2>2. \A d \in 0..(n - i) : d \in S
    BY <1>1, <1>2, <2>1, InductionTo
  <2> QED  BY <1>1, <2>2
<1>5. 0 \in R
  <2>1. in(0) = out(n - i)
    BY <1>1
  <2>2. Stands(s, w, reached, out(n - i))
    BY <1>4
  <2> QED  BY <1>1, <2>1, <2>2
<1>6. ASSUME NEW d \in 0..((m - j) - 1), d \in R PROVE d + 1 \in R
  <2>1. Stands(s, w, reached, in(d))
    BY <1>6
  <2>2. in(d) \in Nat \X Nat \X Nat
    BY <1>1
  <2>3. in(d + 1) = <<(n + 1) - 1, (j + d) + 1, (t2 + 2 * d) + 2>>
    BY <1>1
  <2>4. in(d + 1) \in EditsFrom(s, w, in(d))
    BY <2>3 DEF EditsFrom, kGapCost
  <2>5. j + d + 1 <= m /\ t2 + 2 * (d + 1) <= b
    BY <1>1
  <2>6. in(d + 1) \in Spots(s, w, b)
    BY <1>1, <2>5 DEF Spots
  <2>7. in(d + 1)[1] + in(d + 1)[2] >= in(d)[1] + in(d)[2] + 1
    BY <1>1
  <2>8. Stands(s, w, reached, in(d + 1))
    <3> HIDE DEF in
    <3> QED  BY <2>1, <2>2, <2>4, <2>6, <2>7, EditStands
  <2> QED  BY <1>1, <2>8
<1>7. m - j \in R
  <2> HIDE DEF R, m
  <2>1. \A d \in 0..((m - j) - 1) : d \in R => d + 1 \in R
    BY <1>6
  <2>2. \A d \in 0..(m - j) : d \in R
    BY <1>1, <1>5, <2>1, InductionTo
  <2> QED  BY <1>1, <2>2
<1>8. in(m - j) = <<n, m, t2 + 2 * (m - j)>> /\ t2 + 2 * (m - j) \in 0..b
  BY <1>1
<1>9. <<n, m, t2 + 2 * (m - j)>> \in reached[Turns(s, w)]
  <2>1. Stands(s, w, reached, <<n, m, t2 + 2 * (m - j)>>)
    BY <1>7, <1>8
  <2>2. Turns(s, w) \in 0..Turns(s, w) /\ Turns(s, w) >= n + m
    BY <1>1 DEF Turns
  <2> QED  BY <2>1, <2>2 DEF Stands
<1> QED  BY <1>8, <1>9 DEF IsReached

(* What fixHelper counts within the budget really can be done within it. *)
LEMMA CostIsHonest ==
  ASSUME NEW s \in Seq(Symbols), NEW w \in Seq(Symbols), NEW b \in Nat, Cost(s, w) <= b
  PROVE  CanBecome(s, w, b)
<1>1. PICK turn \in [0..Turns(s, w) -> Places(s, w)] : IsWalk(s, w, turn)
  BY CostWalk
<1>2. PICK reached : IsReached(s, w, b, reached)
  BY EditsReach
<1> DEFINE n == Turns(s, w)
           spot(at) == <<at.i, at.j, at.total>>
           Fine(at) == at.total <= b => Stands(s, w, reached, spot(at))
           T == {at \in Places(s, w) : Fine(at)}
<1>3. n \in Nat /\ n = Len(s) + Len(w) /\ Len(s) \in Nat /\ Len(w) \in Nat /\ n \in 0..n
  BY DEF Turns
<1>4. turn[0] \in T
  <2>1. turn[0] = [i |-> 0, j |-> 0, total |-> 0]
    BY <1>1 DEF IsWalk
  <2>2. Stands(s, w, reached, <<0, 0, 0>>)
    BY <1>2, BeginningStands
  <2>3. spot(turn[0]) = <<0, 0, 0>>
    BY <2>1
  <2>4. turn[0] \in Places(s, w)
    BY <1>3
  <2>5. Fine(turn[0])
    BY <2>2, <2>3
  <2> HIDE DEF Fine
  <2> QED  BY <2>4, <2>5
<1>5. ASSUME NEW k \in 1..n, turn[k - 1] \in T PROVE turn[k] \in T
  <2> DEFINE at == turn[k - 1]
             to == turn[k]
  <2>1. at \in Places(s, w) /\ to = Turn(s, w, at) /\ to \in Places(s, w)
    <3>1. k - 1 \in 0..n /\ k \in 0..n
      BY <1>3
    <3>2. \A q \in 1..n : turn[q] = Turn(s, w, turn[q - 1])
      BY <1>1 DEF IsWalk
    <3> QED  BY <3>1, <3>2
  <2>2. Fine(at)
    <3> HIDE DEF Fine
    <3> QED  BY <1>5
  <2> SUFFICES Fine(to)
    <3> HIDE DEF Fine
    <3> QED  BY <2>1
  <2> HIDE DEF at, to
  <2> SUFFICES ASSUME to.total <= b PROVE Stands(s, w, reached, spot(to))
    OBVIOUS
  <2>3. CASE Over(s, w, at)
    <3>1. to = at
      BY <2>1, <2>3 DEF Turn, Over, Places
    <3> QED  BY <2>2, <3>1
  <2>4. CASE ~Over(s, w, at)
    <3>1. PICK di \in 0..2, dj \in 0..2, c \in Nat : IsMove(s, w, at, di, dj, c)
      BY <2>1, <2>4, TurnMoves
    <3>2. /\ to.i = at.i + di /\ to.j = at.j + dj /\ to.total = at.total + c /\ di + dj >= 1
          /\ spot(to) \in EditsFrom(s, w, spot(at))
      BY <2>1, <3>1 DEF IsMove
    <3>3. /\ at.i \in Nat /\ at.j \in Nat /\ at.total \in Nat
          /\ to.i \in 0..Len(s) /\ to.j \in 0..Len(w) /\ to.total \in Nat
      BY <2>1 DEF Places
    <3>4. at.total <= b /\ to.i + to.j >= at.i + at.j + 1
      <4>1. at.total + c <= b /\ (at.i + di) + (at.j + dj) >= at.i + at.j + 1
        <5>1. at.total + c <= b /\ di + dj >= 1
          BY <3>2
        <5>2. \A x, y \in Nat : (x + di) + (y + dj) >= x + y + 1
          BY <5>1
        <5> QED  BY <3>3, <5>1, <5>2
      <4>2. at.total <= b
        <5>1. at.total + c <= b
          BY <3>2
        <5> QED  BY <3>3, <5>1
      <4>3. to.i + to.j >= at.i + at.j + 1
        BY <3>2, <4>1
      <4> QED  BY <4>2, <4>3
    <3>5. spot(at) \in Nat \X Nat \X Nat /\ spot(to) \in Spots(s, w, b)
      BY <3>3 DEF Spots
    <3>6. spot(to)[1] + spot(to)[2] >= spot(at)[1] + spot(at)[2] + 1
      BY <3>4
    <3>7. Stands(s, w, reached, spot(at))
      BY <2>2, <3>4
    <3> HIDE DEF spot
    <3> QED  BY <1>2, <3>2, <3>5, <3>6, <3>7, EditStands
  <2> QED  BY <2>3, <2>4
<1>6. turn[n] \in T
  <2> HIDE DEF T, n
  <2>1. \A k \in 1..n : turn[k - 1] \in T => turn[k] \in T
    BY <1>5
  <2> QED  BY <1>3, <1>4, <2>1, LoopInvariant
<1> DEFINE at == turn[n]
<1>7. /\ at.i \in 0..Len(s) /\ at.j \in 0..Len(w) /\ at.total \in Nat
      /\ Cost(s, w) = at.total + 2 * ((Len(s) - at.i) + (Len(w) - at.j))
  BY <1>1, <1>3 DEF IsWalk, Places
<1> HIDE DEF at, n
<1>8. at.total + 2 * ((Len(s) - at.i) + (Len(w) - at.j)) <= b
  BY <1>7
<1>9. at.total <= b
  BY <1>3, <1>7, <1>8, TailIsMore
<1>10. Stands(s, w, reached, <<at.i, at.j, at.total>>)
  BY <1>6, <1>9 DEF at
<1> QED  BY <1>2, <1>7, <1>8, <1>10, TailBecomes

-----------------------------------------------------------------------------
\* The buckets hold words of their length.
DictionaryOK ==
  /\ sensitivity \in Nat
  /\ DOMAIN dictionary \subseteq Nat
  /\ \A len \in DOMAIN dictionary :
       /\ dictionary[len] \in Seq(Seq(Symbols))
       /\ \A q \in 1..Len(dictionary[len]) : Len(dictionary[len][q]) = len

HasWord(p, w) == \E q \in 1..Len(p) : p[q] = w

LEMMA HoldsBoth ==
  ASSUME NEW T, NEW p \in Seq(T), NEW q \in Seq(T), NEW w
  PROVE  HasWord(p \o q, w) <=> HasWord(p, w) \/ HasWord(q, w)
<1>1. ASSUME HasWord(p, w) PROVE HasWord(p \o q, w)
  <2>1. PICK i \in 1..Len(p) : p[i] = w
    BY <1>1 DEF HasWord
  <2>2. i \in 1..Len(p \o q) /\ (p \o q)[i] = w
    BY <2>1
  <2> QED  BY <2>2 DEF HasWord
<1>2. ASSUME HasWord(q, w) PROVE HasWord(p \o q, w)
  <2>1. PICK i \in 1..Len(q) : q[i] = w
    BY <1>2 DEF HasWord
  <2>2. Len(p) + i \in 1..Len(p \o q) /\ (p \o q)[Len(p) + i] = w
    BY <2>1
  <2> QED  BY <2>2 DEF HasWord
<1>3. ASSUME HasWord(p \o q, w) PROVE HasWord(p, w) \/ HasWord(q, w)
  <2>1. PICK i \in 1..Len(p \o q) : (p \o q)[i] = w
    BY <1>3 DEF HasWord
  <2>2. CASE i <= Len(p)
    <3>1. i \in 1..Len(p) /\ p[i] = w
      BY <2>1, <2>2
    <3> QED  BY <3>1 DEF HasWord
  <2>3. CASE i > Len(p)
    <3>1. i - Len(p) \in 1..Len(q) /\ q[i - Len(p)] = w
      BY <2>1, <2>3
    <3> QED  BY <3>1 DEF HasWord
  <2> QED  BY <2>1, <2>2, <2>3
<1> QED  BY <1>1, <1>2, <1>3

LEMMA BucketHolds ==
  ASSUME DictionaryOK, NEW len \in Nat
  PROVE  /\ Bucket(len) \in Seq(Seq(Symbols))
         /\ \A w : HasWord(Bucket(len), w) <=> w \in InDictionary /\ Len(w) = len
<1>1. Bucket(len) \in Seq(Seq(Symbols))
  BY DEF Bucket, DictionaryOK
<1>2. ASSUME NEW w, HasWord(Bucket(len), w) PROVE w \in InDictionary /\ Len(w) = len
  <2>1. PICK q \in 1..Len(Bucket(len)) : Bucket(len)[q] = w
    BY <1>2 DEF HasWord
  <2>2. len \in DOMAIN dictionary /\ Bucket(len) = dictionary[len]
    BY <2>1 DEF Bucket
  <2>3. Len(w) = len
    BY <2>1, <2>2 DEF DictionaryOK
  <2>4. q \in DOMAIN dictionary[len]
    BY <1>1, <2>1, <2>2
  <2>5. w \in ToSet(dictionary[len])
    BY <2>1, <2>2, <2>4 DEF ToSet
  <2> QED  BY <2>2, <2>3, <2>5 DEF InDictionary
<1>3. ASSUME NEW w, w \in InDictionary, Len(w) = len PROVE HasWord(Bucket(len), w)
  <2>1. PICK l \in DOMAIN dictionary : w \in ToSet(dictionary[l])
    BY <1>3 DEF InDictionary
  <2>2. PICK q \in DOMAIN dictionary[l] : dictionary[l][q] = w
    BY <2>1 DEF ToSet
  <2>3. dictionary[l] \in Seq(Seq(Symbols))
    BY DEF DictionaryOK
  <2>4. q \in 1..Len(dictionary[l])
    BY <2>2, <2>3
  <2>5. l = len
    BY <1>3, <2>2, <2>4 DEF DictionaryOK
  <2> QED  BY <2>2, <2>4, <2>5 DEF HasWord, Bucket
<1> QED  BY <1>1, <1>2, <1>3

(* The pool is just the words whose length is within the sensitivity.        *)
LEMMA PoolHolds ==
  ASSUME DictionaryOK, NEW s \in Seq(Symbols)
  PROVE  /\ Pool(s) \in Seq(Seq(Symbols))
         /\ \A w : HasWord(Pool(s), w) <=>
              w \in InDictionary /\ Len(w) >= Len(s) - sensitivity /\ Len(w) <= Len(s) + sensitivity
<1> DEFINE least == IF Len(s) > sensitivity THEN Len(s) - sensitivity ELSE 0
           n == Len(s) + sensitivity - least + 1
           W == Seq(Seq(Symbols))
           F(f) == f = [k \in 0..n |-> IF k = 0 THEN <<>> ELSE f[k - 1] \o Bucket(least + k - 1)]
           step == [k \in 1..n |-> [p \in W |-> p \o Bucket(least + k - 1)]]
<1>1. /\ Len(s) \in Nat /\ sensitivity \in Nat /\ least \in Nat /\ n \in Nat /\ n \in 0..n
      /\ <<>> \in W /\ least + n - 1 = Len(s) + sensitivity
      /\ \A l \in Nat : l >= least <=> l >= Len(s) - sensitivity
  BY DEF DictionaryOK
<1>2. \A k \in 1..n : Bucket(least + k - 1) \in W
  <2> TAKE k \in 1..n
  <2>1. least + k - 1 \in Nat
    BY <1>1
  <2> QED  BY <2>1, BucketHolds
<1>3. \E f : F(f)
  <2>1. step \in [1..n -> [W -> W]]
    <3>1. \A k \in 1..n, p \in W : p \o Bucket(least + k - 1) \in W
      BY <1>2
    <3> HIDE DEF W, n, least
    <3> QED  BY <3>1
  <2>2. PICK f \in [0..n -> W] : Runs(f, <<>>, step, n)
    <3> HIDE DEF step, n, W
    <3> QED  BY <1>1, <2>1, LoopRuns
  <2>3. ASSUME NEW k \in 0..n
        PROVE  f[k] = IF k = 0 THEN <<>> ELSE f[k - 1] \o Bucket(least + k - 1)
    <3> HIDE DEF W, n, least
    <3>1. k # 0 => k \in 1..n /\ f[k - 1] \in W
      BY <1>1
    <3> QED  BY <2>2, <3>1 DEF Runs
  <2>4. F(f)
    BY <2>3
  <2> QED  BY <2>4
<1> DEFINE pool == CHOOSE f : F(f)
<1>4. F(pool)
  <2> HIDE DEF F
  <2> QED  BY <1>3
<1>5. Pool(s) = pool[n]
  BY DEF Pool
<1> HIDE DEF pool
<1>6. pool[0] = <<>> /\ \A k \in 1..n : pool[k] = pool[k - 1] \o Bucket(least + k - 1)
  <2> HIDE DEF n, least
  <2>1. 0 \in 0..n /\ \A k \in 1..n : k \in 0..n /\ k # 0
    BY <1>1
  <2>2. \A k \in 0..n : pool[k] = IF k = 0 THEN <<>> ELSE pool[k - 1] \o Bucket(least + k - 1)
    BY <1>4
  <2> QED  BY <2>1, <2>2
<1> DEFINE Right(k) == /\ pool[k] \in W
                       /\ \A w : HasWord(pool[k], w) <=>
                            w \in InDictionary /\ Len(w) \in least..(least + k - 1)
           S == {k \in Nat : Right(k)}
<1> HIDE DEF least, n, F
<1>7. 0 \in S
  <2>1. \A w : ~HasWord(pool[0], w)
    BY <1>6 DEF HasWord
  <2>2. least..(least + 0 - 1) = {}
    BY <1>1
  <2> QED  BY <1>1, <1>6, <2>1, <2>2
<1>8. ASSUME NEW k \in 0..(n - 1), k \in S PROVE k + 1 \in S
  <2>1. k + 1 \in 1..n /\ (k + 1) - 1 = k /\ least + (k + 1) - 1 = least + k /\ least + k \in Nat
    BY <1>1
  <2>2. pool[k + 1] = pool[k] \o Bucket(least + k)
    BY <1>6, <2>1
  <2>3. pool[k] \in W /\ Bucket(least + k) \in W
    BY <1>8, <2>1, BucketHolds
  <2>4. ASSUME NEW w
        PROVE  HasWord(pool[k + 1], w) <=>
                 w \in InDictionary /\ Len(w) \in least..(least + (k + 1) - 1)
    <3>1. HasWord(pool[k + 1], w) <=> HasWord(pool[k], w) \/ HasWord(Bucket(least + k), w)
      BY <2>2, <2>3, HoldsBoth
    <3>2. HasWord(pool[k], w) <=> w \in InDictionary /\ Len(w) \in least..(least + k - 1)
      BY <1>8
    <3>3. HasWord(Bucket(least + k), w) <=> w \in InDictionary /\ Len(w) = least + k
      BY <2>1, BucketHolds
    <3>4. \A x : x \in least..(least + (k + 1) - 1) <=> x \in least..(least + k - 1) \/ x = least + k
      BY <1>1, <2>1
    <3> QED  BY <3>1, <3>2, <3>3, <3>4
  <2>5. pool[k + 1] \in W /\ k + 1 \in Nat
    BY <2>1, <2>2, <2>3
  <2> HIDE DEF W
  <2> QED  BY <2>4, <2>5
<1>9. Right(n)
  <2> HIDE DEF Right
  <2>1. \A k \in 0..(n - 1) : k \in S => k + 1 \in S
    BY <1>8
  <2> HIDE DEF S
  <2>2. \A k \in 0..n : k \in S
    BY <1>1, <1>7, <2>1, InductionTo
  <2> QED  BY <1>1, <2>2 DEF S
<1>10. ASSUME NEW w, w \in InDictionary PROVE Len(w) \in Nat
  <2>1. PICK l \in DOMAIN dictionary : w \in ToSet(dictionary[l])
    BY <1>10 DEF InDictionary
  <2>2. PICK q \in DOMAIN dictionary[l] : dictionary[l][q] = w
    BY <2>1 DEF ToSet
  <2>3. dictionary[l] \in Seq(Seq(Symbols)) /\ l \in Nat
    BY DEF DictionaryOK
  <2> QED  BY <2>2, <2>3 DEF DictionaryOK
<1>11. ASSUME NEW w, w \in InDictionary
       PROVE  Len(w) \in least..(least + n - 1) <=>
                Len(w) >= Len(s) - sensitivity /\ Len(w) <= Len(s) + sensitivity
  <2>1. Len(w) \in Nat
    BY <1>10, <1>11
  <2> QED  BY <1>1, <2>1
<1> QED  BY <1>5, <1>9, <1>11

\* u is as near to s as w, and no shorter if they are equally near.
Beats(s, u, w) == Cost(s, u) < Cost(s, w) \/ (Cost(s, u) = Cost(s, w) /\ Len(u) >= Len(w))

\* The best of the first k words of a pool.
IsBest(s, pool, k, best) ==
  /\ best \in [word : Seq(Symbols), cost : Int]
  /\ \/ /\ best.cost = -1 /\ best.word = s
        /\ \A q \in 1..k : Cost(s, pool[q]) > sensitivity
     \/ /\ best.cost = Cost(s, best.word) /\ best.cost <= sensitivity
        /\ \E q \in 1..k : pool[q] = best.word
        /\ \A q \in 1..k : Cost(s, pool[q]) <= sensitivity => Beats(s, best.word, pool[q])

LEMMA BetterIsBest ==
  ASSUME DictionaryOK, NEW s \in Seq(Symbols), NEW pool \in Seq(Seq(Symbols)),
         NEW k \in 0..(Len(pool) - 1), NEW best, IsBest(s, pool, k, best)
  PROVE  IsBest(s, pool, k + 1, Better(s, best, pool[k + 1]))
<1> DEFINE w == pool[k + 1]
           c == Cost(s, w)
           new == Better(s, best, w)
<1>1. w \in Seq(Symbols) /\ k + 1 \in 1..(k + 1) /\ sensitivity \in Nat
      /\ (\A q \in 1..k : q \in 1..(k + 1) /\ pool[q] \in Seq(Symbols))
      /\ (\A q \in 1..(k + 1) : q \in 1..k \/ q = k + 1)
  BY DEF DictionaryOK
<1>2. c \in Nat /\ Len(w) \in Nat
  <2> HIDE DEF w
  <2> QED  BY <1>1, CostIsNat
<1>3. best.word \in Seq(Symbols) /\ Len(best.word) \in Nat /\ Cost(s, best.word) \in Nat /\ best.cost \in Int
  BY CostFacts DEF IsBest
<1>4. \A q \in 1..k : Cost(s, pool[q]) \in Nat /\ Len(pool[q]) \in Nat
  <2> TAKE q \in 1..k
  <2>1. pool[q] \in Seq(Symbols)
    BY <1>1
  <2>2. Cost(s, pool[q]) \in Nat
    BY <2>1, CostIsNat
  <2> QED  BY <2>1, <2>2
<1> HIDE DEF w, c
<1>5. CASE c <= sensitivity /\ (best.cost = -1 \/ c < best.cost \/ (c = best.cost /\ Len(w) > Len(best.word)))
  <2>1. new = [word |-> w, cost |-> c]
    BY <1>5 DEF Better, c
  <2>2. new \in [word : Seq(Symbols), cost : Int]
    BY <1>1, <1>2, <2>1
  <2>3. new.word = w /\ new.cost = c /\ new.cost = Cost(s, new.word) /\ new.cost <= sensitivity
    BY <1>5, <2>1 DEF c
  <2>4. pool[k + 1] = new.word
    BY <2>3 DEF w
  <2>5. ASSUME NEW q \in 1..(k + 1), Cost(s, pool[q]) <= sensitivity PROVE Beats(s, w, pool[q])
    <3>1. CASE q = k + 1
      <4>1. pool[q] = w
        BY <3>1 DEF w
      <4> QED  BY <1>2, <4>1 DEF Beats
    <3>2. CASE q # k + 1
      <4>1. q \in 1..k /\ Cost(s, pool[q]) \in Nat
        BY <1>1, <1>4, <3>2
      <4>2. best.cost # -1
        <5> SUFFICES ASSUME best.cost = -1 PROVE FALSE
          OBVIOUS
        <5>1. best.cost # Cost(s, best.word)
          BY <1>3
        <5>2. Cost(s, pool[q]) > sensitivity
          BY <4>1, <5>1 DEF IsBest
        <5> QED  BY <1>1, <2>5, <4>1, <5>2
      <4>3. best.cost = Cost(s, best.word) /\ Beats(s, best.word, pool[q])
        BY <2>5, <4>1, <4>2 DEF IsBest
      <4> DEFINE y == Cost(s, best.word)
                 z == Cost(s, pool[q])
                 m == Len(best.word)
                 l == Len(pool[q])
                 h == Len(w)
      <4>4. c \in Nat /\ y \in Nat /\ z \in Nat /\ h \in Nat /\ m \in Nat /\ l \in Nat
        BY <1>2, <1>3, <1>4, <4>1 DEF c
      <4>5. c < y \/ (c = y /\ h > m)
        BY <1>5, <4>2, <4>3
      <4>6. y < z \/ (y = z /\ m >= l)
        BY <4>3 DEF Beats
      <4>7. c < z \/ (c = z /\ h >= l)
        <5> HIDE DEF c, y, z, m, l, h
        <5> QED  BY <4>4, <4>5, <4>6
      <4> QED  BY <4>7 DEF Beats, c
    <3> QED  BY <3>1, <3>2
  <2> HIDE DEF new
  <2> QED  BY <1>1, <2>2, <2>3, <2>4, <2>5 DEF IsBest, new, w
<1>6. CASE ~ (c <= sensitivity /\ (best.cost = -1 \/ c < best.cost \/ (c = best.cost /\ Len(w) > Len(best.word))))
  <2>1. new = best
    BY <1>6 DEF Better, c
  <2>2. CASE best.cost = -1
    <3>1. c > sensitivity
      BY <1>1, <1>2, <1>6, <2>2
    <3>2. best.cost # Cost(s, best.word)
      BY <1>3, <2>2
    <3>3. \A q \in 1..(k + 1) : Cost(s, pool[q]) > sensitivity
      BY <1>1, <2>2, <3>1, <3>2 DEF IsBest, c, w
    <3> QED  BY <2>1, <2>2, <3>2, <3>3 DEF IsBest, w
  <2>3. CASE best.cost # -1
    <3>1. /\ best.cost = Cost(s, best.word) /\ best.cost <= sensitivity
          /\ \E q \in 1..k : pool[q] = best.word
          /\ \A q \in 1..k : Cost(s, pool[q]) <= sensitivity => Beats(s, best.word, pool[q])
      BY <2>3 DEF IsBest
    <3>2. c <= sensitivity => Beats(s, best.word, w)
      BY <1>2, <1>3, <1>6, <2>3, <3>1 DEF Beats, c
    <3>3. \A q \in 1..(k + 1) : Cost(s, pool[q]) <= sensitivity => Beats(s, best.word, pool[q])
      BY <1>1, <3>1, <3>2 DEF c, w
    <3>4. \E q \in 1..(k + 1) : pool[q] = best.word
      BY <1>1, <3>1
    <3>5. best \in [word : Seq(Symbols), cost : Int]
      BY DEF IsBest
    <3> QED  BY <2>1, <3>1, <3>3, <3>4, <3>5 DEF IsBest, w
  <2> QED  BY <2>2, <2>3
<1> QED  BY <1>5, <1>6

LEMMA BestMatchIsBest ==
  ASSUME DictionaryOK, NEW s \in Seq(Symbols)
  PROVE  \E best : IsBest(s, Pool(s), Len(Pool(s)), best) /\ BestMatch(s) = best.word
<1> DEFINE p == Pool(s)
           n == Len(p)
           start == [word |-> s, cost |-> -1]
           T == [word : Seq(Symbols), cost : Int]
           F(f) == f = [k \in 0..n |-> IF k = 0 THEN start ELSE Better(s, f[k - 1], p[k])]
           step == [k \in 1..n |-> [best \in T |-> Better(s, best, p[k])]]
<1>1. p \in Seq(Seq(Symbols)) /\ n \in Nat /\ n \in 0..n /\ start \in T
      /\ \A k \in 1..n : p[k] \in Seq(Symbols)
  BY PoolHolds
<1>2. \A best \in T, k \in 1..n : Better(s, best, p[k]) \in T
  <2> TAKE best \in T, k \in 1..n
  <2>1. Cost(s, p[k]) \in Int /\ p[k] \in Seq(Symbols)
    <3> HIDE DEF p, n
    <3> QED  BY <1>1, CostIsNat
  <2> HIDE DEF p, n
  <2> QED  BY <2>1 DEF Better
<1> HIDE DEF p
<1>3. \E f : F(f)
  <2>1. step \in [1..n -> [T -> T]]
    <3> HIDE DEF T, n
    <3> QED  BY <1>2
  <2>2. PICK f \in [0..n -> T] : Runs(f, start, step, n)
    <3> HIDE DEF step, n, T, start
    <3> QED  BY <1>1, <2>1, LoopRuns
  <2>3. ASSUME NEW k \in 0..n
        PROVE  f[k] = IF k = 0 THEN start ELSE Better(s, f[k - 1], p[k])
    <3> HIDE DEF T, n, start
    <3>1. k # 0 => k \in 1..n /\ f[k - 1] \in T
      BY <1>1
    <3> QED  BY <2>2, <3>1 DEF Runs
  <2>4. F(f)
    BY <2>3
  <2> QED  BY <2>4
<1> DEFINE best == CHOOSE f : F(f)
<1>4. F(best)
  <2> HIDE DEF F
  <2> QED  BY <1>3
<1>5. BestMatch(s) = best[n].word
  BY DEF BestMatch, p
<1> HIDE DEF best
<1>6. best[0] = start /\ \A k \in 1..n : best[k] = Better(s, best[k - 1], p[k])
  <2> HIDE DEF n, start
  <2>1. 0 \in 0..n /\ \A k \in 1..n : k \in 0..n /\ k # 0
    BY <1>1
  <2>2. \A k \in 0..n : best[k] = IF k = 0 THEN start ELSE Better(s, best[k - 1], p[k])
    BY <1>4
  <2> QED  BY <2>1, <2>2
<1> DEFINE S == {k \in Nat : IsBest(s, p, k, best[k])}
<1>7. 0 \in S
  BY <1>1, <1>6 DEF IsBest
<1>8. ASSUME NEW k \in 0..(n - 1), k \in S PROVE k + 1 \in S
  <2>1. k + 1 \in 1..n /\ (k + 1) - 1 = k
    BY <1>1
  <2>2. best[k + 1] = Better(s, best[k], p[k + 1])
    BY <1>6, <2>1
  <2>3. IsBest(s, p, k, best[k])
    BY <1>8
  <2>4. IsBest(s, p, k + 1, best[k + 1])
    BY <1>1, <2>2, <2>3, BetterIsBest
  <2> QED  BY <2>1, <2>4
<1>9. IsBest(s, p, n, best[n])
  <2>1. \A k \in 0..(n - 1) : k \in S => k + 1 \in S
    BY <1>8
  <2> HIDE DEF S, n
  <2>2. \A k \in 0..n : k \in S
    BY <1>1, <1>7, <2>1, InductionTo
  <2> QED  BY <1>1, <2>2 DEF S
<1> QED  BY <1>5, <1>9 DEF p
-----------------------------------------------------------------------------
\* r is an honest answer to s.
Honest(s, r) ==
  LET within == {w \in InDictionary : Cost(s, w) <= sensitivity} IN
    /\ within = {} => r = s
    /\ within # {} =>
         /\ r \in within
         /\ CanBecome(s, r, sensitivity)
         /\ \A w \in within : Beats(s, r, w)
    /\ AllLetters(s) /\ (\E w \in InDictionary : Lower(w) = Lower(s)) => Lower(r) = Lower(s)

\* The buckets are in order, and the answer is an honest one.
CorrectInv == DictionaryOK /\ (asked # <<>> => Honest(asked, answer))

LEMMA WordsAreSymbols ==
  ASSUME DictionaryOK
  PROVE  \A w \in InDictionary : w \in Seq(Symbols)
<1> TAKE w \in InDictionary
<1>1. PICK l \in DOMAIN dictionary : w \in ToSet(dictionary[l])
  BY DEF InDictionary
<1>2. PICK q \in DOMAIN dictionary[l] : dictionary[l][q] = w
  BY <1>1 DEF ToSet
<1> QED  BY <1>2 DEF DictionaryOK

LEMMA InWindow ==
  \A n, m, c, b \in Nat :
    c <= b /\ c >= 2 * (n - m) /\ c >= 2 * (m - n) => m >= n - b /\ m <= n + b
OBVIOUS

LEMMA HonestAnswer ==
  ASSUME DictionaryOK, NEW s \in Seq(Symbols)
  PROVE  Honest(s, BestMatch(s))
<1> DEFINE r == BestMatch(s)
           pool == Pool(s)
           within == {w \in InDictionary : Cost(s, w) <= sensitivity}
<1>1. s \in Seq(Symbols) /\ DictionaryOK /\ sensitivity \in Nat
  BY DEF DictionaryOK
<1>2. PICK best : IsBest(s, pool, Len(pool), best) /\ r = best.word
  BY <1>1, BestMatchIsBest
<1>3. \A w \in InDictionary : w \in Seq(Symbols) /\ Cost(s, w) \in Nat
  BY <1>1, WordsAreSymbols, CostIsNat
<1>4. ASSUME NEW w \in within PROVE HasWord(pool, w)
  <2>1. w \in Seq(Symbols) /\ Len(w) \in Nat /\ Len(s) \in Nat
    BY <1>1, <1>3
  <2>2. Cost(s, w) \in Nat /\ Cost(s, w) <= sensitivity
        /\ Cost(s, w) >= 2 * (Len(s) - Len(w)) /\ Cost(s, w) >= 2 * (Len(w) - Len(s))
    BY <1>1, <2>1, CostFacts
  <2>3. Len(w) >= Len(s) - sensitivity /\ Len(w) <= Len(s) + sensitivity
    BY <1>1, <2>1, <2>2, InWindow
  <2> QED  BY <1>1, <2>3, PoolHolds
<1>5. CASE /\ best.cost = -1 /\ best.word = s
           /\ \A q \in 1..Len(pool) : Cost(s, pool[q]) > sensitivity
  <2>1. ASSUME NEW w \in within PROVE FALSE
    <3>1. Cost(s, w) > sensitivity
      BY <1>4, <1>5 DEF HasWord
    <3>2. Cost(s, w) \in Nat /\ Cost(s, w) <= sensitivity
      BY <1>3
    <3> QED  BY <1>1, <3>1, <3>2
  <2>2. within = {}
    BY <2>1
  <2>3. r = s
    BY <1>2, <1>5
  <2> HIDE DEF within
  <2> QED  BY <2>2, <2>3 DEF Honest, within
<1>6. CASE /\ best.cost = Cost(s, best.word) /\ best.cost <= sensitivity
           /\ \E q \in 1..Len(pool) : pool[q] = best.word
           /\ \A q \in 1..Len(pool) : Cost(s, pool[q]) <= sensitivity
                                        => Beats(s, best.word, pool[q])
  <2>1. HasWord(pool, r)
    BY <1>2, <1>6 DEF HasWord
  <2>2. r \in InDictionary
    BY <1>1, <2>1, PoolHolds
  <2>3. Cost(s, r) <= sensitivity
    BY <1>2, <1>6
  <2>4. r \in within
    BY <2>2, <2>3
  <2>5. CanBecome(s, r, sensitivity)
    BY <1>1, <1>3, <2>2, <2>3, CostIsHonest
  <2>6. ASSUME NEW w \in within PROVE Beats(s, r, w)
    BY <1>2, <1>4, <1>6 DEF HasWord
  <2>7. ASSUME AllLetters(s), NEW w \in InDictionary, Lower(w) = Lower(s)
        PROVE  Lower(r) = Lower(s)
    <3>1. Cost(s, w) = 0
      BY <1>1, <1>3, <2>7, CostOfSpelling
    <3>2. w \in within
      BY <1>1, <2>7, <3>1
    <3>3. Cost(s, r) <= 0
      <4> DEFINE c == Cost(s, r)
      <4>1. c \in Nat /\ (c < 0 \/ c <= 0)
        BY <1>3, <2>2, <2>6, <3>1, <3>2 DEF Beats
      <4> HIDE DEF c
      <4>2. c <= 0
        BY <4>1
      <4> QED  BY <4>2 DEF c
    <3>4. r \in Seq(Symbols) /\ Cost(s, r) = 0
      BY <1>3, <2>2, <3>3
    <3> QED  BY <1>1, <3>4, CostFacts
  <2> HIDE DEF within
  <2> QED  BY <2>4, <2>5, <2>6, <2>7 DEF Honest, Beats, within
<1> QED  BY <1>2, <1>5, <1>6 DEF IsBest

LEMMA CorrectStart == CorrectInit => CorrectInv
<1> SUFFICES ASSUME CorrectInit PROVE CorrectInv
  OBVIOUS
<1>1. sensitivity \in Nat
  BY CorrectAssumption DEF CorrectInit
<1>2. DOMAIN dictionary = {}
  BY DEF CorrectInit
<1> QED  BY <1>1, <1>2 DEF CorrectInit, CorrectInv, DictionaryOK

LEMMA CorrectStep == CorrectInv /\ [CorrectNext]_correctVars => CorrectInv'
<1> SUFFICES ASSUME CorrectInv, [CorrectNext]_correctVars PROVE CorrectInv'
  OBVIOUS
<1>1. ASSUME NEW w \in DictionaryWords, addToDictionary(w) PROVE CorrectInv'
  <2>1. w \in Seq(Symbols) /\ Len(w) \in Nat
    BY CorrectAssumption
  <2>2. DictionaryOK /\ Bucket(Len(w)) \in Seq(Seq(Symbols))
    BY <2>1, BucketHolds DEF CorrectInv
  <2>3. \A q \in 1..Len(Bucket(Len(w))) : Len(Bucket(Len(w))[q]) = Len(w)
    BY <2>1, <2>2, BucketHolds DEF HasWord
  <2> DEFINE new == Append(Bucket(Len(w)), w)
  <2>4. new \in Seq(Seq(Symbols)) /\ \A q \in 1..Len(new) : Len(new[q]) = Len(w)
    <3> DEFINE bucket == Bucket(Len(w))
    <3>1. bucket \in Seq(Seq(Symbols)) /\ \A q \in 1..Len(bucket) : Len(bucket[q]) = Len(w)
      BY <2>2, <2>3
    <3> HIDE DEF bucket
    <3>2. Append(bucket, w) \in Seq(Seq(Symbols)) /\ Len(Append(bucket, w)) = Len(bucket) + 1
      BY <2>1, <3>1
    <3>3. ASSUME NEW q \in 1..(Len(bucket) + 1) PROVE Len(Append(bucket, w)[q]) = Len(w)
      <4>1. CASE q = Len(bucket) + 1
        BY <2>1, <3>1, <4>1
      <4>2. CASE q # Len(bucket) + 1
        <5>1. q \in 1..Len(bucket)
          BY <3>1, <4>2
        <5> QED  BY <2>1, <3>1, <5>1
      <4> QED  BY <4>1, <4>2
    <3> QED  BY <3>2, <3>3 DEF bucket
  <2>5. /\ dictionary' = [len \in DOMAIN dictionary \cup {Len(w)} |->
                            IF len = Len(w) THEN new ELSE dictionary[len]]
        /\ sensitivity' = sensitivity /\ asked' = <<>>
    BY <1>1 DEF addToDictionary
  <2> HIDE DEF new
  <2>6. DictionaryOK'
    BY <2>1, <2>2, <2>4, <2>5 DEF DictionaryOK
  <2> QED  BY <2>5, <2>6 DEF CorrectInv
<1>2. ASSUME NEW s \in Strings, fix(s) PROVE CorrectInv'
  <2>1. s \in Seq(Symbols) /\ sensitivity' = sensitivity /\ dictionary' = dictionary
        /\ asked' = s /\ answer' = BestMatch(s)
    BY <1>2, CorrectAssumption DEF fix
  <2>2. Honest(s, answer')
    BY <2>1, HonestAnswer DEF CorrectInv
  <2>3. Honest(asked, answer)'
    BY <2>1, <2>2 DEF Honest, InDictionary, AllLetters, Lower
  <2>4. DictionaryOK'
    BY <2>1 DEF CorrectInv, DictionaryOK
  <2> QED  BY <2>3, <2>4 DEF CorrectInv
<1>3. CASE UNCHANGED correctVars
  <2>1. sensitivity' = sensitivity /\ dictionary' = dictionary /\ asked' = asked /\ answer' = answer
    BY <1>3 DEF correctVars
  <2>2. asked # <<>> => Honest(asked, answer)'
    BY <2>1 DEF CorrectInv, Honest, InDictionary, AllLetters, Lower
  <2>3. DictionaryOK'
    BY <2>1 DEF CorrectInv, DictionaryOK
  <2> QED  BY <2>1, <2>2, <2>3 DEF CorrectInv
<1> QED  BY <1>1, <1>2, <1>3 DEF CorrectNext

LEMMA HonestMeans == CorrectInv => FixIsHonest
<1> QED  BY DEF CorrectInv, Honest, FixIsHonest, Beats

(* autoCorrectFilter's dictionary and its last answer: the buckets hold      *)
(* words of their length, and the answer is what the loops of fix promise.   *)
THEOREM CorrectInvariant == CorrectSpec => []CorrectInv
<1> QED  BY CorrectStart, CorrectStep, PTL DEF CorrectSpec

(* fix answers with the string itself, or with a word that edits within the  *)
(* sensitivity make of it and that no other word beats, and with a spelling  *)
(* of the string if the dictionary has one: for every grid of distances, way *)
(* of folding letters, dictionary, string and sensitivity.                   *)
THEOREM FixIsAlwaysHonest == CorrectSpec => []FixIsHonest
<1> QED  BY CorrectInvariant, HonestMeans, PTL
==============================================================================
