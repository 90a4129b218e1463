------------------------------ MODULE BinCodec ------------------------------
(***************************************************************************)
(* The object encoding of C_Plus_Plus/store/serialize.hpp: bin8, bin32,    *)
(* bin64, binString, binPair, binVec and binMap written to and read from a *)
(* sequence of bits.                                                       *)
(*                                                                         *)
(* An object is a tuple that begins with its rowType: <<B8, header,        *)
(* payload>> for the three scalars, <<STR, chars>>, <<PAIR, first,         *)
(* second>>, <<VEC, type, elements>>, <<MAP, keyType, valueType, entries>>.*)
(* Payloads are the raw bits as a number: the constructors and value() are *)
(* bit casts.  The widths are constants, so that TLC can read every bit    *)
(* sequence of some length; C++ has payloads of 8, 32 and 64 bits, chars   *)
(* of 8 and counts of 32.                                                  *)
(***************************************************************************)
EXTENDS Binary, Sequences, FiniteSets, SequencesExt

CONSTANTS
  PayloadBits,   \* <<bits of a bin8, a bin32, a bin64 payload>>
  CharBits,      \* bits of a char
  CountBits      \* bits of a length or an element count

\* rowType
B8 == 0
B32 == 1
B64 == 2
STR == 3
PAIR == 4
VEC == 5
MAP == 6
none == 7

\* The alternatives of leaf, item and allowedTypes.
Leaves == {B8, B32, B64, STR}
Items == Leaves \cup {PAIR}
Objects == Items \cup {VEC, MAP}

TypeBits == 3
HeaderBits == 2

\* No payload is narrower than a byte's, nor a count than the least scalar.
ASSUME CodecAssumption ==
  /\ \A t \in 1..3 : PayloadBits[t] \in Nat /\ PayloadBits[t] >= PayloadBits[1]
  /\ PayloadBits[1] > 0
  /\ CharBits \in Nat \ {0}
  /\ CountBits \in Nat /\ CountBits >= HeaderBits + PayloadBits[1]

\* A scalar: which of its types it was built from, and its bits.
bin8(header, payload) == <<B8, header, payload>>
bin32(header, payload) == <<B32, header, payload>>
bin64(header, payload) == <<B64, header, payload>>

\* The fewest bits an object of a type takes.
minBits(t) ==
  CASE t \in {B8, B32, B64} -> HeaderBits + PayloadBits[t + 1]
    [] t = STR -> CountBits
    [] t = PAIR   -> 2 * (TypeBits + HeaderBits + PayloadBits[1])
    [] t = VEC    -> TypeBits + CountBits
    [] t = MAP    -> 2 * TypeBits + CountBits
    [] OTHER      -> 1
-----------------------------------------------------------------------------
(* Writing *)

\* Lowest bit first.
writeUint(value, n) == [i \in 1..n |-> BitOf(value, i - 1)]

writeScalar(o) == writeUint(o[2], HeaderBits) \o writeUint(o[3], PayloadBits[o[1] + 1])

writeString(o) ==
  writeUint(Len(o[2]), CountBits) \o FlattenSeq([i \in DOMAIN o[2] |-> writeUint(o[2][i], CharBits)])

writeLeaf(o) == IF o[1] = STR THEN writeString(o) ELSE writeScalar(o)

writePair(o) ==
  writeUint(o[2][1], TypeBits) \o writeLeaf(o[2]) \o writeUint(o[3][1], TypeBits) \o writeLeaf(o[3])

writeItem(o) == IF o[1] = PAIR THEN writePair(o) ELSE writeLeaf(o)

\* Faulty variant: the element count is left out of an empty vector.
writeVecTerse(o) ==
  writeUint(o[2], TypeBits)
    \o (IF o[3] = <<>> THEN <<>> ELSE writeUint(Len(o[3]), CountBits))
    \o FlattenSeq([i \in DOMAIN o[3] |-> writeItem(o[3][i])])

writeVec(o) ==
  writeUint(o[2], TypeBits) \o writeUint(Len(o[3]), CountBits)
    \o FlattenSeq([i \in DOMAIN o[3] |-> writeItem(o[3][i])])

\* The entries are written in hash order: some order of the set.
writeMap(o) ==
  writeUint(o[2], TypeBits) \o writeUint(o[3], TypeBits)
    \o writeUint(Cardinality(o[4]), CountBits)
    \o FlattenSeq([i \in 1..Cardinality(o[4]) |->
         writeItem(SetToSeq(o[4])[i][1]) \o writeItem(SetToSeq(o[4])[i][2])])

writeAlternative(o) ==
  CASE o[1] \in Items -> writeItem(o)
    [] o[1] = VEC -> writeVec(o)
    [] o[1] = MAP -> writeMap(o)
-----------------------------------------------------------------------------
(* Reading.  A reader is given the bits and the cursor (the bits consumed so *)
(* far) and returns <<the cursor after, what it read>>, or nullopt.          *)

nullopt == <<-1, <<>>>>
Some(r) == r[1] >= 0

\* What follows a read that succeeded, with its cursor and its result.
Then(r, Rest(_, _)) == IF Some(r) THEN Rest(r[1], r[2]) ELSE nullopt

readUint(in, at, n) ==
  LET value[i \in 0..n] == IF i = 0 THEN 0 ELSE value[i - 1] + in[at + i] * mask(i - 1)
  IN  IF Len(in) - at < n THEN nullopt ELSE <<at + n, value[n]>>

fitsCount(in, at, count, minBitsEach) == count <= (Len(in) - at) \div minBitsEach

\* A reader, as a function of the cursor.
Cursors(in) == 0..Len(in)

\* Reads with each of the readers in turn, and appends what is read.
ReadEach(readers, at) ==
  LET got[k \in 0..Len(readers)] ==
        IF k = 0 THEN <<at, <<>>>>
        ELSE Then(got[k - 1], LAMBDA c, all :
               Then(readers[k][c], LAMBDA d, one : <<d, Append(all, one)>>))
  IN  got[Len(readers)]

\* A count, and as many things of at least minBitsEach bits.
ReadCounted(read, minBitsEach, in, at) ==
  Then(readUint(in, at, CountBits), LAMBDA c, n :
    IF fitsCount(in, c, n, minBitsEach) THEN ReadEach([k \in 1..n |-> read], c) ELSE nullopt)

\* from_bitset of each class: a bool is 0 or 1, and bin64 has no header 3.
from_bitset8(header, payload) ==
  IF header = 2 /\ payload > 1 THEN nullopt ELSE bin8(header, payload)
from_bitset32(header, payload) == bin32(header, payload)
from_bitset64(header, payload) == IF header = 3 THEN nullopt ELSE bin64(header, payload)

from_bitset(t, header, payload) ==
  CASE t = B8 -> from_bitset8(header, payload)
    [] t = B32 -> from_bitset32(header, payload)
    [] t = B64 -> from_bitset64(header, payload)

\* read_bits of a scalar.
readScalar(t, in, at) ==
  Then(readUint(in, at, HeaderBits), LAMBDA c, header :
    Then(readUint(in, c, PayloadBits[t + 1]), LAMBDA d, payload :
      LET o == from_bitset(t, header, payload) IN IF Some(o) THEN <<d, o>> ELSE nullopt))

readString(in, at) ==
  Then(ReadCounted([c \in Cursors(in) |-> readUint(in, c, CharBits)], CharBits, in, at),
       LAMBDA c, chars : <<c, <<STR, chars>>>>)

readLeaf(t, in, at) ==
  CASE t = STR -> readString(in, at)
    [] t \in Leaves \ {STR} -> readScalar(t, in, at)
    [] OTHER -> nullopt

\* Two leaves, each after its type code.
readHalf(in, at) == Then(readUint(in, at, TypeBits), LAMBDA c, t : readLeaf(t, in, c))

readPair(in, at) ==
  Then(readHalf(in, at), LAMBDA c, first :
    Then(readHalf(in, c), LAMBDA d, second : <<d, <<PAIR, first, second>>>>))

readItem(t, in, at) == IF t = PAIR THEN readPair(in, at) ELSE readLeaf(t, in, at)

\* Only an empty vec or map has no type.
readNone(in, at, empty) ==
  Then(readUint(in, at, CountBits), LAMBDA c, n : IF n = 0 THEN <<c, empty>> ELSE nullopt)

readVec(in, at) ==
  Then(readUint(in, at, TypeBits), LAMBDA c, t :
    CASE t = none -> readNone(in, c, <<VEC, none, <<>>>>)
      [] t \in Items ->
           Then(ReadCounted([d \in Cursors(in) |-> readItem(t, in, d)], minBits(t), in, c),
                LAMBDA d, elements : <<d, <<VEC, t, elements>>>>)
      [] OTHER -> nullopt)

readEntry(kt, vt, in, at) ==
  Then(readLeaf(kt, in, at), LAMBDA c, key :
    Then(readItem(vt, in, c), LAMBDA d, value : <<d, <<key, value>>>>))

KeysDistinct(entries) ==
  \A i, j \in DOMAIN entries : entries[i][1] = entries[j][1] => i = j

readMap(in, at) ==
  Then(readUint(in, at, TypeBits), LAMBDA c, kt : Then(readUint(in, c, TypeBits), LAMBDA d, vt :
    CASE kt = none /\ vt = none -> readNone(in, d, <<MAP, none, none, {}>>)
      [] kt \in Leaves /\ vt \in Items ->
           Then(ReadCounted([e \in Cursors(in) |-> readEntry(kt, vt, in, e)],
                            minBits(kt) + minBits(vt), in, d),
                LAMBDA e, entries : IF KeysDistinct(entries) THEN <<e, <<MAP, kt, vt, ToSet(entries)>>>>
                                    ELSE nullopt)
      [] OTHER -> nullopt))

readAlternative(t, in, at) ==
  CASE t \in Items -> readItem(t, in, at)
    [] t = VEC -> readVec(in, at)
    [] t = MAP -> readMap(in, at)
    [] OTHER -> nullopt
-----------------------------------------------------------------------------
(* What the classes hold, as long as a count of it can be written *)

Countable(n) == n < mask(CountBits)

IsScalar(o) ==
  /\ o[1] \in Leaves \ {STR}
  /\ o[2] \in Unsigned(HeaderBits) /\ o[3] \in Unsigned(PayloadBits[o[1] + 1])
  /\ o = from_bitset(o[1], o[2], o[3])

IsString(o) == o = <<STR, o[2]>> /\ o[2] \in Seq(Unsigned(CharBits)) /\ Countable(Len(o[2]))

IsLeaf(o) == IF o[1] = STR THEN IsString(o) ELSE IsScalar(o)

IsPair(o) == o = <<PAIR, o[2], o[3]>> /\ IsLeaf(o[2]) /\ IsLeaf(o[3])

IsItem(o) == IF o[1] = PAIR THEN IsPair(o) ELSE IsLeaf(o)

IsVec(o) ==
  /\ o = <<VEC, o[2], o[3]>>
  /\ o[3] \in Seq(ToSet(o[3])) /\ Countable(Len(o[3]))
  /\ o[2] \in Items \/ (o[2] = none /\ o[3] = <<>>)
  /\ \A i \in DOMAIN o[3] : IsItem(o[3][i]) /\ o[3][i][1] = o[2]

IsMap(o) ==
  /\ o = <<MAP, o[2], o[3], o[4]>>
  /\ IsFiniteSet(o[4]) /\ Countable(Cardinality(o[4]))
  /\ (o[2] \in Leaves /\ o[3] \in Items) \/ (o[2] = none /\ o[3] = none /\ o[4] = {})
  /\ \A e \in o[4] : /\ e = <<e[1], e[2]>>
                      /\ IsLeaf(e[1]) /\ e[1][1] = o[2]
                      /\ IsItem(e[2]) /\ e[2][1] = o[3]
  /\ \A e, f \in o[4] : e[1] = f[1] => e = f

IsObject(o) ==
  CASE o[1] \in Items -> IsItem(o)
    [] o[1] = VEC -> IsVec(o)
    [] o[1] = MAP -> IsMap(o)
    [] OTHER -> FALSE
=============================================================================
