----------------------------- MODULE BinObject -----------------------------
(***************************************************************************)
(* An object in memory: a binString, binVec or binMap under its own        *)
(* operations (C_Plus_Plus/store/serialize.hpp), or whatever a reader      *)
(* accepts from arbitrary bits.                                            *)
(***************************************************************************)
EXTENDS BinCodec

CONSTANTS
  Chars,      \* characters pushed
  Given,      \* items pushed and inserted
  MaxLength,  \* bound: chars, elements or entries of an object
  Openings,   \* what the bits given to a reader begin with
  MaxBits     \* bound: arbitrary bits after that

ASSUME ObjectAssumption ==
  /\ Chars \subseteq Unsigned(CharBits)
  /\ \A v \in Given : IsItem(v)
  /\ MaxLength \in Nat /\ Countable(MaxLength)
  /\ Openings \subseteq Seq({0, 1})
  /\ MaxBits \in Nat

VARIABLE object

EmptyString == <<STR, <<>>>>
EmptyVec    == <<VEC, none, <<>>>>
EmptyMap    == <<MAP, none, none, {}>>

\* One object of every kind; a binPair and the scalars never change.
ObjectInit == object \in {EmptyString, EmptyVec, EmptyMap} \cup Given

(* binString *)

PushChar(c) ==
  /\ object[1] = STR
  /\ Len(object[2]) < MaxLength
  /\ object' = <<STR, Append(object[2], c)>>

(* push_back(view) appends a copy of the view, the string's own included. *)
PushSelf ==
  /\ object[1] = STR
  /\ 2 * Len(object[2]) <= MaxLength
  /\ object' = <<STR, object[2] \o object[2]>>

RemoveChar(i) ==
  /\ object[1] = STR
  /\ i \in DOMAIN object[2]
  /\ object' = <<STR, RemoveAt(object[2], i)>>

(* operator=: the contents become those of another string or view. *)
AssignString(v) ==
  /\ object[1] = STR
  /\ v[1] = STR
  /\ object' = v

(* binVec *)

(* push_back: the first push locks the type; false (no step) on another.     *)
VecPush(v) ==
  /\ object[1] = VEC
  /\ Len(object[3]) < MaxLength
  /\ object[2] \in {none, v[1]}
  /\ object' = <<VEC, v[1], Append(object[3], v)>>

(* remove: the vec keeps its type, also when this empties it. *)
VecRemove(i) ==
  /\ object[1] = VEC
  /\ i \in DOMAIN object[3]
  /\ object' = <<VEC, object[2], RemoveAt(object[3], i)>>

(* binMap *)

typesMatch(k, v) == object[2] \in {none, k[1]} /\ object[3] \in {none, v[1]}

\* insert and insert_or_assign; an entry of the same key stays, or is replaced.
MapInsert(k, v, assign) ==
  LET old == {e \in object[4] : e[1] = k} IN
  /\ object[1] = MAP
  /\ typesMatch(k, v)
  /\ old = {} => Cardinality(object[4]) < MaxLength
  /\ assign \/ old = {}
  /\ object' = <<MAP, k[1], v[1], (object[4] \ old) \cup {<<k, v>>}>>

(* remove(key): the map keeps its types. *)
MapRemove(k) ==
  /\ object[1] = MAP
  /\ \E e \in object[4] : e[1] = k
  /\ object' = <<MAP, object[2], object[3], {e \in object[4] : e[1] # k}>>

(* clear() of a vec or a map unlocks its types. *)
ClearObject ==
  \/ object[1] = VEC /\ object' = EmptyVec
  \/ object[1] = MAP /\ object' = EmptyMap

(* A reader is given arbitrary bits, and accepts them. *)
ReadAny(t) ==
  /\ object = EmptyString
  /\ \E p \in Openings, n \in 0..MaxBits : \E in \in [1..n -> {0, 1}] :
       LET r == readAlternative(t, p \o in, 0) IN
       /\ Some(r)
       /\ object' = r[2]

ObjectNext ==
  \/ \E c \in Chars : PushChar(c)
  \/ PushSelf
  \/ \E v \in Given : AssignString(v)
  \/ \E i \in 1..MaxLength : RemoveChar(i) \/ VecRemove(i)
  \/ \E v \in Given : VecPush(v)
  \/ \E k \in Given, v \in Given, assign \in BOOLEAN :
       k[1] \in Leaves /\ MapInsert(k, v, assign)
  \/ \E k \in Given : MapRemove(k)
  \/ ClearObject
  \/ \E t \in Objects : ReadAny(t)

ObjectSpec == ObjectInit /\ [][ObjectNext]_object
-----------------------------------------------------------------------------
\* Every element of a vec has the vec's type, every entry the map's; a key
\* appears once.
Uniform ==
  /\ object[1] = VEC => \A i \in DOMAIN object[3] : object[3][i][1] = object[2]
  /\ object[1] = MAP =>
       /\ \A e \in object[4] : e[1][1] = object[2] /\ e[2][1] = object[3]
       /\ \A e, f \in object[4] : e[1] = f[1] => e = f

(* Every object that the operations can build, or that a reader accepts from *)
(* arbitrary bits (a damaged file's included), is uniform, takes at least    *)
(* minBits bits, and reads back as itself from what it writes, whatever      *)
(* follows: readers and writers of serialize.hpp agree on every boundary,    *)
(* and fitsCount refuses nothing that was written.                           *)
ReadsBack ==
  LET bits == writeAlternative(object) IN
  /\ Uniform
  /\ Len(bits) >= minBits(object[1])
  /\ \A rest \in {<<>>, <<1, 1>>} :
       readAlternative(object[1], bits \o rest, 0) = <<Len(bits), object>>
=============================================================================
