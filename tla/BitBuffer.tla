----------------------------- MODULE BitBuffer -----------------------------
(***************************************************************************)
(* bit::BitBuffer (C_Plus_Plus/bit/bitBuffer.hpp), bits packed into bytes  *)
(* with the first bit at the top, and writeBin.hpp, which writes them to a *)
(* file and reads bytes back.                                              *)
(***************************************************************************)
EXTENDS Binary, Sequences, SequencesExt

CONSTANTS
  ByteBits,   \* the bits of a byte; the code has 8
  MaxBits,    \* bound: bits of a buffer
  MaxBytes    \* bound: bytes of the file

ASSUME BitsAssumption == ByteBits \in Nat \ {0} /\ MaxBits \in Nat /\ MaxBytes \in Nat

VARIABLES
  buffer,     \* [bytes |-> _bytes, count |-> _bitCount]
  file,       \* the bytes of the file
  next,       \* where the input stream reads next
  failed,     \* the input stream has failed
  given,      \* history: the bits put into the buffer
  sent        \* history: the bits written to the file, padding included

bitVars == <<buffer, file, next, failed, given, sent>>

Bytes == Unsigned(ByteBits)
BitStrings(n) == [1..n -> {0, 1}]
NoBits == [bytes |-> <<>>, count |-> 0]

\* The bytes that n bits take.
BytesFor(n) == (n + ByteBits - 1) \div ByteBits

\* Faulty variant: the first bit at the bottom of its byte.
bitOffsetLow(i) == i % ByteBits
\* Where bit i (from 0) is in its byte: the first at the top.
bitOffset(i) == ByteBits - 1 - (i % ByteBits)

\* operator[]; assignment through the BitRef it returns.
BitAt(b, i) == BitOf(b.bytes[i \div ByteBits + 1], bitOffset(i))
SetBit(b, i, bit) ==
  [b EXCEPT !.bytes[i \div ByteBits + 1] = @ + (bit - BitAt(b, i)) * mask(bitOffset(i))]

\* push(bool): a new byte first if the last one is full.
PushBit(b, bit) ==
  LET grown == IF b.count % ByteBits = 0 THEN Append(b.bytes, 0) ELSE b.bytes
      room == [bytes |-> grown, count |-> b.count + 1]
  IN  IF bit = 1 THEN SetBit(room, b.count, 1) ELSE room

PushBits(b, bits) ==
  LET pushed[k \in 0..Len(bits)] == IF k = 0 THEN b ELSE PushBit(pushed[k - 1], bits[k])
  IN  pushed[Len(bits)]

\* The lowest n bits of a byte, the highest of them first.
LowBits(byte, n) == [k \in 1..n |-> BitOf(byte, n - k)]

\* push_u8: a whole byte where the buffer ends on one.
PushByte(b, byte) ==
  IF b.count % ByteBits # 0 THEN PushBits(b, LowBits(byte, ByteBits))
  ELSE [bytes |-> Append(b.bytes, byte), count |-> b.count + ByteBits]

\* from_string, from_vector and from: the bytes of what is encoded, one by one.
from(bytes) ==
  LET pushed[k \in 0..Len(bytes)] == IF k = 0 THEN NoBits ELSE PushByte(pushed[k - 1], bytes[k])
  IN  pushed[Len(bytes)]

\* Raw bytes, every bit counted.
Raw(bytes) == [bytes |-> bytes, count |-> Len(bytes) * ByteBits]

\* The bits of whole bytes, the highest of each first.
UnpackBytes(bytes) ==
  [i \in 1..(Len(bytes) * ByteBits) |->
     BitOf(bytes[(i - 1) \div ByteBits + 1], ByteBits - 1 - ((i - 1) % ByteBits))]
-----------------------------------------------------------------------------
BitsInit ==
  /\ buffer = NoBits
  /\ file = <<>> /\ next = 0 /\ failed = FALSE
  /\ given = <<>> /\ sent = <<>>

Becomes(b, bits) ==
  /\ buffer' = b
  /\ given' = bits
  /\ UNCHANGED <<file, next, failed, sent>>

(* The constructors: n zero bits, raw bytes, a string of '0' and '1'.        *)
Sized(n) == Becomes([bytes |-> [k \in 1..BytesFor(n) |-> 0], count |-> n], [k \in 1..n |-> 0])
FromRaw(bytes) == Becomes(Raw(bytes), UnpackBytes(bytes))
FromBits(bits) == Becomes(PushBits(NoBits, bits), bits)
Encode(bytes) == Becomes(from(bytes), UnpackBytes(bytes))
clearBits == Becomes(NoBits, <<>>)

(* push of a bit or of another buffer's bits.                                *)
push(bits) == Becomes(PushBits(buffer, bits), given \o bits)
(* push(byte, nBits); the code throws unless nBits is in 1..8.               *)
pushByte(byte, n) == Becomes(PushBits(buffer, LowBits(byte, n)), given \o LowBits(byte, n))

assign(i, bit) ==
  /\ i < buffer.count
  /\ Becomes(SetBit(buffer, i, bit), [given EXCEPT ![i + 1] = bit])

Padded(bits) == bits \o [k \in 1..(BytesFor(Len(bits)) * ByteBits - Len(bits)) |-> 0]

Write(b, bits) ==
  /\ Len(file) + Len(b.bytes) <= MaxBytes
  /\ file' = file \o b.bytes
  /\ sent' = sent \o Padded(bits)
  /\ UNCHANGED <<buffer, next, failed, given>>

(* writeBinary of the buffer, and of a vector<bool> or a bitset, which go    *)
(* through a buffer of their own, a bitset from its highest bit down.        *)
writeBuffer == Write(buffer, given)
writeVector(bits) == Write(PushBits(NoBits, bits), bits)
writeBitset(bits) == Write(PushBits(NoBits, Reverse(bits)), Reverse(bits))

(* readBinary; too few bytes are used up, and the stream stays failed.       *)
readBinary(amount) ==
  IF amount = 0 THEN Becomes(NoBits, <<>>)
  ELSE IF ~failed /\ next + amount <= Len(file)
  THEN /\ buffer' = Raw(SubSeq(file, next + 1, next + amount))
       /\ given' = SubSeq(sent, next * ByteBits + 1, (next + amount) * ByteBits)
       /\ next' = next + amount
       /\ UNCHANGED <<file, failed, sent>>
  ELSE /\ failed' = TRUE
       /\ next' = Len(file)
       /\ UNCHANGED <<buffer, file, given, sent>>

(* Streams are opened anew, the file emptied. *)
Open ==
  /\ file' = <<>> /\ sent' = <<>> /\ next' = 0 /\ failed' = FALSE
  /\ UNCHANGED <<buffer, given>>

BitsNext ==
  \/ clearBits \/ writeBuffer \/ Open
  \/ \E n \in 0..MaxBits : Sized(n) \/ FromBits([k \in 1..n |-> k % 2])
  \/ \E bytes \in BoundedSeq(Bytes, 2) : FromRaw(bytes) \/ Encode(bytes)
  \/ \E n \in 1..2 : \E bits \in BitStrings(n) : Len(given) + n <= MaxBits /\ push(bits)
  \/ \E byte \in Bytes, n \in 1..ByteBits : Len(given) + n <= MaxBits /\ pushByte(byte, n)
  \/ \E i \in 0..(MaxBits - 1), bit \in {0, 1} : assign(i, bit)
  \/ \E bits \in BitStrings(ByteBits + 1) : writeVector(bits) \/ writeBitset(bits)
  \/ \E amount \in 0..2 : readBinary(amount)

BitsSpec == BitsInit /\ [][BitsNext]_bitVars
-----------------------------------------------------------------------------
(* Whatever sequence of bits, bytes, buffers and assignments filled it, and  *)
(* at whatever place in a byte each began, the buffer reads as the bits put  *)
(* into it; it takes just the bytes it needs, the unused bits of the last    *)
(* are 0 (which writeBin relies on), and the file's bytes, the first bit at  *)
(* the top, are the bits written to it.                                      *)
BitsAreHeld ==
  /\ buffer.count = Len(given)
  /\ Len(buffer.bytes) = BytesFor(Len(given))
  /\ \A i \in 1..Len(given) : BitAt(buffer, i - 1) = given[i]
  /\ UnpackBytes(buffer.bytes) = Padded(given)
  /\ UnpackBytes(file) = sent
=============================================================================
