-------------------------------- MODULE Numbers --------------------------------
(***************************************************************************)
(* codecs/numerics.ts, the 64-bit integers of primitives/buffer.ts and the *)
(* sparse vectors of datatypes/pgvector.ts.  A decimal is a text: digits   *)
(* before and behind the point and an exponent.  On the wire it is a       *)
(* sequence of groups of digits and the weight of the first.               *)
(***************************************************************************)
EXTENDS Integers, Sequences, SequencesExt, FiniteSetsExt, Functions

CONSTANTS
  Group,      \* decimal digits of a group: 4
  Word,       \* 2^32
  SafeHigh,   \* 2^21: numbers below SafeHigh * Word are exact
  Thrown

NumbersAssumption == {Group, Word, SafeHigh} \subseteq Nat \ {0} /\ Word % 2 = 0 /\ 2 * SafeHigh <= Word

Base == 10 ^ Group
Zeros(n) == [k \in 1 .. n |-> 0]
Ceil(a, b) == -((-a) \div b)
NumberOf(digits) == FoldLeft(LAMBDA x, d : 10 * x + d, 0, digits)

(* A number as text, without zeros in front; padded to a group.            *)
RECURSIVE Digits(_)
Digits(n) == IF n < 10 THEN <<n>> ELSE Append(Digits(n \div 10), n % 10)
Padded(n) == LET d == Digits(n) IN Zeros(Group - Len(d)) \o d

----------------------------------------------------------------------------
(* Decimals.  A text is [neg, int, frac, exp].                             *)
GroupsOf(digits) == [n \in 1 .. Len(digits) \div Group |-> NumberOf(SubSeq(digits, (n - 1) * Group + 1, n * Group))]

EncodeDecimal(text) ==
  LET i == Len(text.int)
      f == Len(text.frac)
  IN [groups |-> GroupsOf(Zeros(Ceil(i, Group) * Group - i) \o text.int
                          \o text.frac \o Zeros(Ceil(f, Group) * Group - f)),
      weight |-> Ceil(i + text.exp, Group) - 1,
      neg |-> text.neg,
      dscale |-> Max({f - text.exp, 0})]

GroupAt(wire, d) == IF d >= 0 /\ d < Len(wire.groups) THEN wire.groups[d + 1] ELSE 0
(* Mutant: groups in front of the first one sent are not skipped.          *)
DecodeFromFirst(wire) ==
  LET int == FlattenSeq([k \in 1 .. wire.weight + 1 |-> IF k = 1 THEN Digits(GroupAt(wire, 0)) ELSE Padded(GroupAt(wire, k - 1))])
      from == Max({wire.weight + 1, 0})
      frac == FlattenSeq([k \in 1 .. Ceil(wire.dscale, Group) |-> Padded(GroupAt(wire, from + k - 1))])
  IN [neg |-> wire.neg, int |-> IF wire.weight < 0 THEN <<0>> ELSE int, frac |-> SubSeq(frac, 1, wire.dscale), exp |-> 0]

DecodeDecimal(wire) ==
  LET int == FlattenSeq([k \in 1 .. wire.weight + 1 |-> IF k = 1 THEN Digits(GroupAt(wire, 0)) ELSE Padded(GroupAt(wire, k - 1))])
      frac == FlattenSeq([k \in 1 .. Ceil(wire.dscale, Group) |-> Padded(GroupAt(wire, wire.weight + k))])
  IN [neg |-> wire.neg, int |-> IF wire.weight < 0 THEN <<0>> ELSE int, frac |-> SubSeq(frac, 1, wire.dscale), exp |-> 0]

(* bigint: groups from the lowest, no fraction.                            *)
RECURSIVE LowGroups(_)
LowGroups(n) == IF n = 0 THEN <<>> ELSE <<n % Base>> \o LowGroups(n \div Base)
EncodeBigInt(n) ==
  LET groups == LowGroups(IF n < 0 THEN -n ELSE n)
  IN [groups |-> Reverse(groups), weight |-> IF n = 0 THEN 0 ELSE Len(groups) - 1, neg |-> n < 0, dscale |-> 0]
DecodeBigInt(wire) ==
  LET text == DecodeDecimal(wire)
      n == IF wire.groups = <<>> THEN 0 ELSE NumberOf(text.int)
  IN IF wire.dscale # 0 THEN Thrown ELSE IF wire.neg THEN -n ELSE n

(* The number itself: its digits that are not zero, each with the power of *)
(* ten it counts for.  The server sends a number without zero groups at    *)
(* either end, with the digits behind the point its text had.              *)
TextValue(text) ==
  LET all == text.int \o text.frac
  IN {<<Len(text.int) - n + text.exp, all[n]>> : n \in {m \in DOMAIN all : all[m] # 0}}
WireValue(wire) ==
  LET all == FlattenSeq([n \in DOMAIN wire.groups |-> Padded(wire.groups[n])])
  IN {<<Group * (wire.weight + 1) - n, all[n]>> : n \in {m \in DOMAIN all : all[m] # 0}}
ServerWire(wire) ==
  LET used == {n \in DOMAIN wire.groups : wire.groups[n] # 0}
  IN IF used = {} THEN [wire EXCEPT !.groups = <<>>, !.weight = 0, !.neg = FALSE]
     ELSE [wire EXCEPT !.groups = SubSeq(@, Min(used), Max(used)), !.weight = @ - (Min(used) - 1)]

(* A decimal without an exponent, or with one of whole groups, is sent as  *)
(* the number it is, and the server's answer reads as that number with as  *)
(* many digits behind the point.                                           *)
DecimalSurvives(text) ==
  LET sent == EncodeDecimal(text)
      read == DecodeDecimal(ServerWire(sent))
  IN text.exp % Group = 0 =>
       /\ WireValue(sent) = TextValue(text) /\ sent.neg = text.neg
       /\ TextValue(read) = TextValue(text) /\ Len(read.frac) = sent.dscale
       /\ read.int[1] # 0 \/ read.int = <<0>>
       /\ text.exp = 0 => Len(read.frac) = Len(text.frac)

BigIntSurvives(n) ==
  LET sent == EncodeBigInt(n)
  IN /\ DecodeBigInt(sent) = n /\ DecodeBigInt(ServerWire(sent)) = n
     /\ WireValue(sent) = TextValue([int |-> Digits(IF n < 0 THEN -n ELSE n), frac |-> <<>>, exp |-> 0])

----------------------------------------------------------------------------
(* 64 bits in two words.  writeInt64 takes a number: setInt32 and          *)
(* setUint32 keep the low bits; writeBigInt64 a bigint.                    *)
Unsigned(x) == x % Word
Signed(x) == LET u == x % Word IN IF 2 * u >= Word THEN u - Word ELSE u
writeInt64(i) == LET hi == i \div Word IN <<Unsigned(hi), Unsigned(i - hi * Word)>>
writeBigInt64(i) ==
  LET ii == IF i < 0 THEN Word * Word + i ELSE i IN <<ii \div Word, ii % Word>>
readInt64(words) ==
  LET hi == Signed(words[1])
  IN IF hi = 0 THEN words[2]
     ELSE IF -SafeHigh <= hi /\ hi < SafeHigh THEN hi * Word + words[2] ELSE Thrown
readBigInt64(words) == Signed(words[1]) * Word + words[2]

(* Every 64-bit integer is the same in both ways of writing and reading    *)
(* it, and one that a number cannot hold exactly is refused.               *)
IntegerSurvives(i) ==
  LET words == writeBigInt64(i)
  IN /\ readBigInt64(words) = i /\ writeInt64(i) = words
     /\ readInt64(words) = IF -SafeHigh * Word <= i /\ i < SafeHigh * Word THEN i ELSE Thrown

----------------------------------------------------------------------------
(* A sparse vector: its length, and indexes with values, in the order they *)
(* were given; an object's integer keys come in ascending order.           *)
NewSparse(length, indexes, values) ==
  IF Len(indexes) # Len(values) \/ Len(indexes) > length THEN Thrown
  ELSE [length |-> length, indexes |-> indexes, values |-> values]
SparseOf(length, map) ==
  LET keys == SetToSortSeq(DOMAIN map, <)
  IN IF \/ Cardinality(DOMAIN map) > length
        \/ \E k \in DOMAIN map : k \notin 0 .. length - 1 \/ map[k] = 0
     THEN Thrown
     ELSE NewSparse(length, keys, [n \in DOMAIN keys |-> map[keys[n]]])
At(v, index) ==
  LET hits == {n \in DOMAIN v.indexes : v.indexes[n] = index}
  IN IF hits = {} THEN 0 ELSE v.values[Min(hits)]
RECURSIVE Iterate(_, _, _)
Iterate(v, i, next) ==
  IF i = v.length THEN <<>>
  ELSE IF next <= Len(v.indexes) /\ v.indexes[next] = i THEN <<v.values[next]>> \o Iterate(v, i + 1, next + 1)
  ELSE <<0>> \o Iterate(v, i + 1, next)

(* Two counts, a reserved word, the indexes, the values.                   *)
EncodeSparse(v) == <<v.length, Len(v.indexes), 0>> \o v.indexes \o v.values
DecodeSparse(words) ==
  LET nnz == words[2]
  IN NewSparse(words[1], SubSeq(words, 4, 3 + nnz), SubSeq(words, 4 + nnz, 3 + 2 * nnz))

(* The vector made of a map has the map's elements, by index, in a loop    *)
(* and after its way to the server and back.                               *)
SparseSurvives(length, map) ==
  LET v == SparseOf(length, map)
      back == DecodeSparse(EncodeSparse(v))
      elements == [n \in 1 .. length |-> IF n - 1 \in DOMAIN map THEN map[n - 1] ELSE 0]
  IN IF v = Thrown
     THEN \E k \in DOMAIN map : k \notin 0 .. length - 1 \/ map[k] = 0
     ELSE back = v /\ Iterate(back, 0, 1) = elements /\ [n \in 1 .. length |-> At(back, n - 1)] = elements
=============================================================================
